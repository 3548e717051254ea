-------------------------- MODULE Reschedule_proof ---------------------------
(***************************************************************************)
(* Theorems about Reschedule, for any arrivals, limits, providers, ratings *)
(* and payments.  Three inductive invariants over Typed, the types:        *)
(*  - AllPaidFor: the row, and every row that a call is about to save;     *)
(*  - Calendar: an ALLOCATED appointment fits the row and the calls, or a  *)
(*    task is on its way that takes it out;                                *)
(*  - Settled: the calls in progress agree on order, rating and refund, or *)
(*    there is one only, and it has what will be remembered.               *)
(* The last two hold when requests do not overlap (Serial).                *)
(***************************************************************************)
EXTENDS Reschedule, WellFoundedInduction, TLAPS

------------------------------------------------------------------------------
(* The Service value object: what its constructor and its changes return.     *)

\* The constructor keeps what it is given and computes the rest within its types.
LEMMA NewServiceType ==
  ASSUME NEW lastEvent \in LastEvent,
         NEW dispatcher \in Dispatcher \cup {NoAgent, Unset},
         NEW worker \in Worker \cup Independent \cup {NoAgent, Unset},
         NEW response \in Response,
         NEW cancellation \in Cancelled \cup {"NONE"}
  PROVE  LET s == NewService(lastEvent, dispatcher, worker, response, cancellation)
         IN  /\ s \in ServiceObject
             /\ s.lastEvent = lastEvent /\ s.response = response
             /\ s.dispatcher = dispatcher /\ s.worker = worker
             /\ s.paymentStatus = response.status
<1> DEFINE allocation == CalculateAllocationStatus(dispatcher, worker)
           status     == IF cancellation \in Cancelled THEN cancellation
                         ELSE CalculateStatus(lastEvent, response.status, allocation)
<1>1. allocation \in AllocationStatus
  BY DEF CalculateAllocationStatus, AllocationStatus
<1>2. status \in Status
  BY <1>1 DEF CalculateStatus, StatusOfEvent, Status, Cancelled, Closed, InProgress,
              AllocationStatus, HandlingEventType
<1> HIDE DEF allocation, status
<1>3. CalculateNextActionType(status, allocation) \in ActionType
  BY <1>1, <1>2 DEF CalculateNextActionType, ActionType, HandlingEventType, AllocationStatus
<1>4. response.status \in PaymentStatus
  BY DEF Response
<1>5. NewService(lastEvent, dispatcher, worker, response, cancellation) =
        [lastEvent |-> lastEvent, response |-> response,
         dispatcher |-> dispatcher, worker |-> worker,
         paymentStatus |-> response.status, allocationStatus |-> allocation,
         status |-> status, nextActionType |-> CalculateNextActionType(status, allocation)]
  BY DEF NewService, allocation, status
<1> QED
  BY <1>1, <1>2, <1>3, <1>4, <1>5 DEF ServiceObject

\* A new request has no event, and two Agent objects without an id.
LEMMA CreatedServiceType ==
  /\ CreatedService \in ServiceObject
  /\ CreatedService.lastEvent = "NULL"
  /\ CreatedService.dispatcher = NoAgent /\ CreatedService.worker = NoAgent
BY NewServiceType DEF CreatedService, NoResponse, Response, PaymentStatus, LastEvent

\* Assigned to p: p is its dispatcher and, when it is independent, its worker.
LEMMA AssignedType ==
  ASSUME NEW s \in ServiceObject, NEW p \in Dispatcher
  PROVE  /\ AssignedToDispatcher(s, p) \in ServiceObject
         /\ AssignedToDispatcher(s, p).dispatcher = p
         /\ AssignedToDispatcher(s, p).worker \in {Unset} \cup (Independent \cap {p})
<1> DEFINE assigned == NewService(s.lastEvent, p, Unset, s.response, "NONE")
<1>1. assigned \in ServiceObject /\ assigned.dispatcher = p /\ assigned.worker = Unset
  BY NewServiceType DEF ServiceObject
<1> HIDE DEF assigned
<1>2. CASE p \in Independent
  <2>1. /\ AllocatedToWorker(assigned, p) \in ServiceObject
        /\ AllocatedToWorker(assigned, p).dispatcher = p
        /\ AllocatedToWorker(assigned, p).worker = p
    BY <1>1, <1>2, NewServiceType DEF AllocatedToWorker, ServiceObject
  <2> QED
    BY <1>2, <2>1 DEF AssignedToDispatcher, assigned
<1>3. CASE p \notin Independent
  BY <1>1, <1>3 DEF AssignedToDispatcher, assigned
<1> QED
  BY <1>2, <1>3

\* The other changes, with the agents they leave.
LEMMA ChangedType ==
  ASSUME NEW s \in ServiceObject
  PROVE  /\ Restarted(s) \in ServiceObject /\ Restarted(s).dispatcher = Unset
         /\ \A status \in Cancelled \cup {"NONE"} :
              /\ ProviderTerminated(s, status) \in ServiceObject
              /\ ProviderTerminated(s, status).dispatcher = NoAgent
         /\ \A response \in Response :
              /\ DerivedFromPaymentHistory(s, response) \in ServiceObject
              /\ DerivedFromPaymentHistory(s, response).dispatcher = s.dispatcher
         /\ \A event \in LastEvent :
              /\ DerivedFromHandlingHistory(s, event) \in ServiceObject
              /\ DerivedFromHandlingHistory(s, event).dispatcher = s.dispatcher
         /\ Revoked(s, TRUE) \in ServiceObject /\ Revoked(s, TRUE).dispatcher = s.dispatcher
<1>1. PICK e \in LastEvent, r \in Response, d \in Dispatcher \cup {NoAgent, Unset},
           w \in Worker \cup Independent \cup {NoAgent, Unset} :
           s.lastEvent = e /\ s.response = r /\ s.dispatcher = d /\ s.worker = w
  BY DEF ServiceObject
<1>2. ASSUME NEW f \in LastEvent, NEW q \in Response, NEW c \in Cancelled \cup {"NONE"}
      PROVE  /\ NewService(f, d, w, q, c) \in ServiceObject
             /\ NewService(f, d, w, q, c).dispatcher = d
  BY NewServiceType
<1>3. ASSUME NEW f \in LastEvent, NEW a \in {NoAgent, Unset}, NEW c \in Cancelled \cup {"NONE"}
      PROVE  /\ NewService(f, a, a, r, c) \in ServiceObject
             /\ NewService(f, a, a, r, c).dispatcher = a
  <2>1. PICK x \in Dispatcher \cup {NoAgent, Unset}, y \in Worker \cup Independent \cup {NoAgent, Unset} :
          x = a /\ y = a
    OBVIOUS
  <2>2. NewService(f, x, y, r, c) \in ServiceObject /\ NewService(f, x, y, r, c).dispatcher = x
    BY NewServiceType
  <2> QED
    BY <2>1, <2>2
<1>4. Restarted(s) \in ServiceObject /\ Restarted(s).dispatcher = Unset
  BY <1>1, <1>3 DEF Restarted, LastEvent
<1>5. ASSUME NEW status \in Cancelled \cup {"NONE"}
      PROVE  /\ ProviderTerminated(s, status) \in ServiceObject
             /\ ProviderTerminated(s, status).dispatcher = NoAgent
  BY <1>1, <1>3 DEF ProviderTerminated
<1>6. ASSUME NEW response \in Response
      PROVE  /\ DerivedFromPaymentHistory(s, response) \in ServiceObject
             /\ DerivedFromPaymentHistory(s, response).dispatcher = s.dispatcher
  BY <1>1, <1>2 DEF DerivedFromPaymentHistory
<1>7. ASSUME NEW event \in LastEvent
      PROVE  /\ DerivedFromHandlingHistory(s, event) \in ServiceObject
             /\ DerivedFromHandlingHistory(s, event).dispatcher = s.dispatcher
  BY <1>1, <1>2 DEF DerivedFromHandlingHistory
<1>8. Revoked(s, TRUE) \in ServiceObject /\ Revoked(s, TRUE).dispatcher = s.dispatcher
  BY <1>1, <1>2 DEF Revoked, Cancelled
<1> QED
  BY <1>4, <1>5, <1>6, <1>7, <1>8

\* What a call is about to save, as far as the lookups that follow rely on it.
Known(r) == r.service.response.id \in 0..Len(responses)

Answers == {Responded(purpose) : purpose \in Purpose}

\* What requests start, and no save.
Started == Answers \cup {Plain("insertRefund")}

CallsTyped ==
  \A c \in calls : c.row \in Row /\ Known(c.row) /\ c.then \subseteq Task /\ c.then \cap Started = {}

AnswersKnown == \A purpose \in Purpose : todo[Responded(purpose)] > 0 => History(purpose) # {}

Typed == TypeOK /\ Known(row) /\ CallsTyped /\ AnswersKnown

------------------------------------------------------------------------------
(* The row and the objects made of it *)

\* The columns of a row.
LEMMA RowFields ==
  ASSUME NEW r \in Row
  PROVE  /\ r.service \in ServiceObject /\ r.start \in Nat /\ r.order \in Order
         /\ r.eligible \in Flag /\ r.refunded \in Flag /\ r.rating \in FeedbackResponse \cup {Unrated}
BY DEF Row

\* Both repositories' reads: the row, with the payment response as it is now.
LEMMA LoadedIs ==
  ASSUME Typed
  PROVE  \A l \in {Loaded, LoadedByGet} :
           /\ l \in Row /\ Known(l)
           /\ l.start = row.start /\ l.order = row.order /\ l.rating = row.rating
           /\ l.eligible = row.eligible /\ l.refunded = row.refunded
           /\ l.service.dispatcher = row.service.dispatcher
<1>1. PICK q : q = ReloadedResponse(row.service.response)
  OBVIOUS
<1>2. PICK s \in ServiceObject : s = row.service /\ row \in Row
  BY DEF Typed, TypeOK, Row
<1>3. q \in Response /\ q.id = s.response.id
  <2>1. CASE s.response.id = 0
    BY <1>1, <1>2, <2>1 DEF ReloadedResponse, NoResponse, Response, PaymentStatus
  <2>2. CASE s.response.id # 0
    <3>1. s.response.id \in DOMAIN responses /\ s.response.id \in Nat
      BY <1>2, <2>2 DEF Typed, TypeOK, Known, GatewayTypeOK
    <3>2. responses[s.response.id] \in GatewayResponse
      BY <3>1 DEF Typed, TypeOK, GatewayTypeOK
    <3>3. responses[s.response.id].status \in PaymentStatus
      BY <3>2 DEF GatewayResponse, AnswerStatus, PaymentStatus
    <3> QED
      BY <1>1, <1>2, <2>2, <3>1, <3>3 DEF ReloadedResponse, Response
  <2> QED
    BY <2>1, <2>2
<1>4. PICK u : u = [s EXCEPT !.response = q]
  OBVIOUS
<1>5. u \in ServiceObject /\ u.response = q /\ u.dispatcher = s.dispatcher
  BY <1>2, <1>3, <1>4 DEF ServiceObject
<1>6. PICK l : l = [row EXCEPT !.service = u]
  OBVIOUS
<1>7. l = Loaded
  BY <1>1, <1>2, <1>4, <1>6 DEF Loaded
<1>8. /\ l \in Row /\ l.service = u
      /\ l.start = row.start /\ l.order = row.order /\ l.rating = row.rating
      /\ l.eligible = row.eligible /\ l.refunded = row.refunded
  BY <1>2, <1>5, <1>6 DEF Row
<1>9. PICK v : v = [u EXCEPT !.lastEvent = "UNDEFINED"]
  OBVIOUS
<1>10. v \in ServiceObject /\ v.response = q /\ v.dispatcher = s.dispatcher
  BY <1>5, <1>9 DEF ServiceObject, LastEvent
<1>11. PICK g : g = [l EXCEPT !.service = v]
  OBVIOUS
<1>12. g = LoadedByGet
  BY <1>7, <1>8, <1>9, <1>11 DEF LoadedByGet
<1>13. /\ g \in Row /\ g.service = v
       /\ g.start = row.start /\ g.order = row.order /\ g.rating = row.rating
       /\ g.eligible = row.eligible /\ g.refunded = row.refunded
  BY <1>8, <1>10, <1>11 DEF Row
<1> QED
  BY <1>2, <1>3, <1>5, <1>7, <1>8, <1>10, <1>12, <1>13 DEF Known, Typed

\* What save() leaves of r in the row.
LEMMA MergedIs ==
  ASSUME Typed, NEW r \in Row
  PROVE  LET m == Merged(r)
         IN  /\ m \in Row
             /\ m.service.dispatcher # Unset /\ m.service.worker # Unset
             /\ m.eligible # "UNSET" /\ m.refunded # "UNSET"
             /\ m.start = r.start /\ m.order = r.order /\ m.rating = r.rating
             /\ m.refunded = Or(r.refunded, "UNSET", row.refunded)
             /\ m.service.dispatcher = Or(r.service.dispatcher, Unset, row.service.dispatcher)
             /\ m.service.response = r.service.response
<1>1. PICK s \in ServiceObject, t \in ServiceObject :
        /\ s = r.service /\ t = row.service
        /\ t.dispatcher # Unset /\ t.worker # Unset
  BY DEF Row, Typed, TypeOK
<1>2. PICK u : u = [s EXCEPT !.lastEvent  = Or(@, "UNDEFINED", t.lastEvent),
                             !.dispatcher = Or(@, Unset, t.dispatcher),
                             !.worker     = Or(@, Unset, t.worker)]
  OBVIOUS
<1>3. /\ u \in ServiceObject /\ u.dispatcher # Unset /\ u.worker # Unset
      /\ u.dispatcher = Or(s.dispatcher, Unset, t.dispatcher) /\ u.response = s.response
  BY <1>1, <1>2 DEF ServiceObject, Or
<1>4. PICK m : m = [r EXCEPT !.service = u,
                             !.eligible = Or(@, "UNSET", row.eligible),
                             !.refunded = Or(@, "UNSET", row.refunded)]
  OBVIOUS
<1>5. m = Merged(r)
  BY <1>1, <1>2, <1>4 DEF Merged, Row
<1>6. /\ m \in Row /\ m.service = u /\ m.start = r.start /\ m.order = r.order /\ m.rating = r.rating
      /\ m.refunded = Or(r.refunded, "UNSET", row.refunded)
      /\ m.eligible = Or(r.eligible, "UNSET", row.eligible)
  BY <1>3, <1>4 DEF Row, Or, Typed, TypeOK
<1>7. row.eligible # "UNSET" /\ row.refunded # "UNSET"
  BY DEF Typed, TypeOK
<1> QED
  BY <1>1, <1>3, <1>5, <1>6, <1>7 DEF Or

\* CustomerRescheduleOrder.execute: what it changes of the order.
LEMMA ExecutedIs ==
  ASSUME NEW o \in Order, NEW status \in PaymentStatus \cup {"NONE"}
  PROVE  LET x == Executed(o, status)
         IN  /\ x \in Order /\ x.from = o.from /\ x.to = o.to /\ x.required = o.required
             /\ x.impacted = o.impacted
             /\ IF o.required
                THEN x.paid = status /\ (x.executed <=> o.executed \/ status = "SUCCEEDED")
                ELSE x.paid = o.paid /\ x.executed = TRUE
BY DEF Executed, Order

\* The same of an order at hand.
LEMMA ExecutedFields ==
  ASSUME NEW o \in Order, NEW status \in PaymentStatus \cup {"NONE"}, NEW x, x = Executed(o, status)
  PROVE  /\ x.required = o.required /\ x.to = o.to
         /\ x.impacted = o.impacted /\ o.impacted \in Independent \cup {NoAgent}
         /\ IF o.required
            THEN x.paid = status /\ (x.executed <=> o.executed \/ status = "SUCCEEDED")
            ELSE x.paid = o.paid /\ x.executed = TRUE
<1>1. o.impacted \in Independent \cup {NoAgent}
  BY DEF Order
<1> QED
  BY <1>1 DEF Executed, Order

\* ServiceRequest.reschedule: to the new time, with nobody.
LEMMA MovedIs ==
  ASSUME NEW r \in Row, NEW to \in Nat
  PROVE  LET m == Moved(r, to)
         IN  /\ m \in Row /\ m.start = to /\ m.order = r.order /\ m.rating = r.rating
             /\ m.refunded = "UNSET" /\ m.service.dispatcher = NoAgent
             /\ m.service.response = r.service.response
<1>1. PICK s \in ServiceObject : s = ProviderTerminated(r.service, "NONE") /\ s.dispatcher = NoAgent
                                /\ s.response = r.service.response
  BY RowFields, ChangedType DEF ProviderTerminated, NewService
<1>2. PICK m : m = [r EXCEPT !.start = to, !.service = s, !.eligible = "UNSET", !.refunded = "UNSET"]
  OBVIOUS
<1>3. m = Moved(r, to)
  BY <1>1, <1>2 DEF Moved
<1>4. /\ m \in Row /\ m.start = to /\ m.order = r.order /\ m.rating = r.rating
      /\ m.refunded = "UNSET" /\ m.service = s
  BY <1>2 DEF Row, Flag
<1> QED
  BY <1>1, <1>3, <1>4

\* executeCustomerRescheduleOrder: the order's time, whatever execute() found.
LEMMA ExecuteOrderIs ==
  ASSUME NEW r \in Row, NEW status \in PaymentStatus \cup {"NONE"}
  PROVE  LET m == ExecuteOrder(r, status)
         IN  /\ m \in Row /\ m.start = r.order.to /\ m.order = Executed(r.order, status)
             /\ m.rating = r.rating /\ m.refunded = "UNSET" /\ m.service.dispatcher = NoAgent
             /\ m.service.response = r.service.response
<1>1. PICK x \in Order : x = Executed(r.order, status)
  BY RowFields, ExecutedIs
<1>2. PICK q : q = [r EXCEPT !.order = x]
  OBVIOUS
<1>3. q \in Row /\ q.order = x /\ q.rating = r.rating /\ q.service = r.service
  BY <1>2 DEF Row
<1>4. r.order.to \in Nat
  BY DEF Row, Order
<1>5. ExecuteOrder(r, status) = Moved(q, r.order.to)
  BY <1>1, <1>2 DEF ExecuteOrder
<1> QED
  BY <1>1, <1>3, <1>4, <1>5, MovedIs

\* The factories of CustomerRescheduleOrder: an order to a new time, not executed.
LEMMA NewOrderIs ==
  ASSUME Typed, NEW to \in Nat, NEW required \in BOOLEAN
  PROVE  LET o == NewOrder(Loaded, to, required)
         IN  /\ o \in Order /\ o.to = to /\ o.required = required /\ o.executed = FALSE
             /\ o.paid = (IF required THEN "AWAITING_PAYMENT" ELSE "NONE")
             /\ o.impacted = row.service.dispatcher
<1>1. row.service.dispatcher \in Independent \cup {NoAgent}
  BY RescheduleAssumption DEF Typed, TypeOK, Row, ServiceObject, Dispatcher
<1>2. row.start \in Nat /\ now \in Nat
  BY DEF Typed, TypeOK, Row
<1> QED
  BY <1>1, <1>2, LoadedIs DEF NewOrder, Order, PaymentStatus

------------------------------------------------------------------------------
(* What is to do *)

\* Which tasks there are, and which of them only answers and requests start.
LEMMA TaskTypes ==
  /\ Answers \subseteq Task
  /\ \A name \in TaskName, p \in Independent \cup {NoAgent} : For(name, p) \in Task
  /\ \A name \in TaskName : Plain(name) \in Task
  /\ \A name \in TaskName \ {"feeResponded", "surchargeResponded"} :
       Plain(name) \notin Answers /\ \A p : For(name, p) \notin Answers
  /\ \A name \in TaskName \ {"feeResponded", "surchargeResponded", "insertRefund"} :
       Plain(name) \notin Started /\ \A p : For(name, p) \notin Started
  /\ Answers \subseteq Started
BY DEF Answers, Started, Task, For, Plain, Responded, Purpose, TaskName

\* Publishing adds one to each task published.
LEMMA PublishIs ==
  ASSUME todo \in [Task -> Nat], NEW tasks, Publish(tasks)
  PROVE  /\ todo' \in [Task -> Nat]
         /\ \A k \in Task : todo'[k] = IF k \in tasks THEN todo[k] + 1 ELSE todo[k]
BY DEF Publish

\* Taking a task off takes one of it.
LEMMA TakeIs ==
  ASSUME todo \in [Task -> Nat], NEW k \in Task, Take(k)
  PROVE  /\ todo' \in [Task -> Nat] /\ todo[k] > 0
         /\ \A j \in Task : todo'[j] = IF j = k THEN todo[j] - 1 ELSE todo[j]
<1>1. todo[k] - 1 \in Nat
  BY DEF Take
<1> QED
  BY <1>1 DEF Take

\* A handler that publishes takes its own task off and adds the others.
LEMMA TakeAndPublishIs ==
  ASSUME todo \in [Task -> Nat], NEW k \in Task, NEW tasks, TakeAndPublish(k, tasks), k \notin tasks
  PROVE  /\ todo' \in [Task -> Nat] /\ todo[k] > 0
         /\ \A j \in Task : todo'[j] = IF j = k THEN todo[j] - 1
                                       ELSE IF j \in tasks THEN todo[j] + 1 ELSE todo[j]
<1>1. ASSUME NEW j \in Task
      PROVE  /\ todo'[j] = IF j = k THEN todo[j] - 1 ELSE IF j \in tasks THEN todo[j] + 1 ELSE todo[j]
             /\ todo'[j] \in Nat
  <2>1. todo[j] \in Nat /\ todo[k] \in Nat /\ todo[k] > 0
    BY DEF TakeAndPublish
  <2>2. todo'[j] = (IF j \in tasks THEN todo[j] + 1 ELSE todo[j]) - (IF j = k THEN 1 ELSE 0)
    BY DEF TakeAndPublish
  <2> QED
    BY <2>1, <2>2
<1>2. DOMAIN todo' = Task /\ todo' = [j \in Task |-> todo'[j]]
  BY DEF TakeAndPublish
<1> QED
  BY <1>1, <1>2 DEF TakeAndPublish

\* No answer of the gateway is to do that was not before.
LEMMA AnswersStay ==
  ASSUME Typed, UNCHANGED responses,
         \A k \in Answers : todo'[k] = todo[k] \/ todo[k] > 0
  PROVE  AnswersKnown'
BY DEF Typed, AnswersKnown, Answers, History

------------------------------------------------------------------------------
(* What is saved *)

Makes(r, tasks) ==
  /\ r \in Row /\ Known(r)
  /\ tasks \subseteq Task /\ tasks \cap Started = {}
  /\ calls' = calls \cup {[row |-> r, then |-> tasks]}

\* Order, appointment, rating and refund of the row as they are.
Kept(r) == /\ r.order = row.order /\ r.start = row.start /\ r.rating = row.rating
           /\ r.refunded \in {"UNSET", row.refunded}

\* Saving a row of the right type makes a call.
LEMMA SavingMakes ==
  ASSUME NEW r \in Row, Known(r), NEW tasks, tasks \subseteq Task, tasks \cap Started = {},
         Saving(r, tasks)
  PROVE  Makes(r, tasks)
BY DEF Saving, Makes

DispatcherIs(p) == p = row.service.dispatcher /\ p \in Independent \cup {NoAgent}

\* The provider that the row names is a contractor or nobody.
LEMMA TheDispatcher ==
  ASSUME Typed
  PROVE  DispatcherIs(row.service.dispatcher)
BY RescheduleAssumption DEF Typed, TypeOK, Row, ServiceObject, Dispatcher, DispatcherIs

\* The free order is executed in the same go, and the provider of now is told.
LEMMA RescheduleFreeMakes ==
  ASSUME Typed, NEW to \in Arrivals, RescheduleFree(to)
  PROVE  \E r, p :
           /\ DispatcherIs(p)
           /\ Makes(r, {For("rescheduled", p), Plain("initiateAutoAssignment")})
           /\ r.order.to = to /\ ~r.order.required /\ r.order.executed = TRUE /\ r.order.impacted = p
           /\ r.start = to /\ r.rating = row.rating /\ r.refunded = "UNSET"
           /\ r.service.dispatcher = NoAgent
<1>1. PICK l \in Row : l = Loaded /\ Known(l) /\ l.rating = row.rating
  BY LoadedIs
<1>2. PICK p : DispatcherIs(p)
  BY TheDispatcher
<1>3. to \in Nat
  BY RescheduleAssumption
<1>4. PICK o \in Order : /\ o = NewOrder(l, to, FALSE) /\ o.to = to /\ o.required = FALSE
                        /\ o.impacted = p
  BY <1>1, <1>2, <1>3, NewOrderIs DEF DispatcherIs
<1>5. PICK filed : filed = [l EXCEPT !.order = o]
  OBVIOUS
<1>6. filed \in Row /\ filed.order = o /\ filed.rating = l.rating /\ filed.service = l.service
  BY <1>5 DEF Row
<1>13. PICK none \in PaymentStatus \cup {"NONE"} : none = "NONE"
  OBVIOUS
<1>7. PICK x \in Order : /\ x = Executed(o, none) /\ x.to = to /\ x.required = FALSE
                        /\ x.impacted = p /\ x.executed = TRUE
  BY <1>4, ExecutedIs
<1>8. PICK r \in Row : /\ r = ExecuteOrder(filed, none) /\ r.order = x /\ r.start = to
                      /\ r.rating = l.rating /\ r.refunded = "UNSET" /\ r.service.dispatcher = NoAgent
                      /\ r.service.response = l.service.response
  <2>1. PICK r : r = ExecuteOrder(filed, none)
    OBVIOUS
  <2>2. /\ r \in Row /\ r.start = filed.order.to /\ r.order = Executed(filed.order, none)
        /\ r.rating = filed.rating /\ r.refunded = "UNSET" /\ r.service.dispatcher = NoAgent
        /\ r.service.response = filed.service.response
    BY <1>6, <2>1, ExecuteOrderIs
  <2> QED
    BY <1>4, <1>6, <1>7, <2>1, <2>2
<1>9. PICK tasks : tasks = {For("rescheduled", p), Plain("initiateAutoAssignment")}
  OBVIOUS
<1>10. tasks \subseteq Task /\ tasks \cap Started = {}
  BY <1>2, <1>9, TaskTypes DEF DispatcherIs, TaskName
<1>11. Saving(r, tasks)
  BY <1>1, <1>4, <1>5, <1>6, <1>8, <1>9, <1>13 DEF RescheduleFree
<1>12. Makes(r, tasks)
  BY <1>1, <1>8, <1>10, <1>11, SavingMakes DEF Known
<1> QED
  BY <1>1, <1>2, <1>7, <1>8, <1>9, <1>12

\* The order against surcharge waits: nothing moves, nobody is told.
LEMMA RescheduleAtSurchargeMakes ==
  ASSUME Typed, NEW to \in Arrivals, RescheduleAtSurcharge(to)
  PROVE  \E r :
           /\ Makes(r, {})
           /\ r.order.required /\ r.order.executed = FALSE /\ r.order.paid = "AWAITING_PAYMENT"
           /\ r.start = row.start /\ r.rating = row.rating /\ r.refunded = row.refunded
           /\ r.service.dispatcher = row.service.dispatcher
<1>1. PICK l \in Row : l = Loaded /\ Known(l) /\ l.rating = row.rating /\ l.start = row.start
                      /\ l.refunded = row.refunded /\ l.service.dispatcher = row.service.dispatcher
  BY LoadedIs
<1>2. to \in Nat
  BY RescheduleAssumption
<1>3. PICK o \in Order : /\ o = NewOrder(l, to, TRUE) /\ o.required = TRUE /\ o.executed = FALSE
                        /\ o.paid = "AWAITING_PAYMENT"
  BY <1>1, <1>2, NewOrderIs
<1>4. PICK r : r = [l EXCEPT !.order = o]
  OBVIOUS
<1>5. r \in Row /\ r.order = o /\ r.rating = l.rating /\ r.service = l.service /\ r.start = l.start
      /\ r.refunded = l.refunded
  BY <1>4 DEF Row
<1>6. Saving(r, {})
  BY <1>1, <1>3, <1>4 DEF RescheduleAtSurcharge
<1>7. Makes(r, {})
  BY <1>1, <1>5, <1>6, SavingMakes DEF Known
<1> QED
  BY <1>1, <1>3, <1>5, <1>7

\* The operator's change keeps the order and releases the provider.
LEMMA AdminChangeMakes ==
  ASSUME Typed, NEW to \in Arrivals, AdminChange(to)
  PROVE  \E r, p :
           /\ DispatcherIs(p) /\ Publish({For("announce", p)})
           /\ Makes(r, {})
           /\ r.order = row.order /\ r.rating = row.rating /\ r.refunded = "UNSET" /\ r.start = to
           /\ r.service.dispatcher = NoAgent
<1>1. PICK l \in Row : l = Loaded /\ Known(l) /\ l.rating = row.rating /\ l.order = row.order
  BY LoadedIs
<1>2. PICK p : DispatcherIs(p)
  BY TheDispatcher
<1>3. to \in Nat
  BY RescheduleAssumption
<1>4. PICK r \in Row : /\ r = Moved(l, to) /\ r.start = to /\ r.order = l.order /\ r.rating = l.rating
                      /\ r.refunded = "UNSET" /\ r.service.dispatcher = NoAgent
                      /\ r.service.response = l.service.response
  BY <1>3, MovedIs
<1>5. Makes(r, {})
  BY <1>1, <1>4, SavingMakes DEF AdminChange, Known
<1>6. Publish({For("announce", p)})
  BY <1>2 DEF AdminChange, DispatcherIs
<1> QED
  BY <1>1, <1>2, <1>4, <1>5, <1>6

\* The newest response of a history is one of it, and none of it is newer.
LEMMA NewestIsLast ==
  ASSUME Typed, NEW purpose \in Purpose, History(purpose) # {}
  PROVE  /\ MostRecentResponse(purpose) \in History(purpose)
         /\ \A j \in History(purpose) : j <= MostRecentResponse(purpose)
<1>1. PICK n \in Nat : DOMAIN responses = 1..n
  BY DEF Typed, TypeOK, GatewayTypeOK
<1> DEFINE T == {n - i : i \in History(purpose)}
<1>2. T \subseteq Nat /\ T # {}
  <2>1. \A i \in History(purpose) : n - i \in Nat
    BY <1>1 DEF History
  <2> QED
    BY <2>1
<1>3. PICK x \in T : \A y \in T : <<y, x>> \notin OpToRel(<, Nat)
  BY <1>2, NatLessThanWellFounded, WFMin
<1>4. PICK i \in History(purpose) : x = n - i
  BY <1>3
<1>5. \A j \in History(purpose) : j <= i
  <2>1. ASSUME NEW j \in History(purpose) PROVE ~(n - j < x)
    BY <1>2, <1>3 DEF OpToRel
  <2> QED
    BY <1>1, <1>4, <2>1 DEF History
<1> QED
  BY <1>5 DEF MostRecentResponse

\* The fee: nothing, or a save that keeps everything but the service.
LEMMA FeeRespondedMakes ==
  ASSUME Typed, FeeResponded
  PROVE  \/ UNCHANGED calls
         \/ \E r, tasks : /\ Makes(r, tasks) /\ tasks \subseteq {Plain("initiateAutoAssignment")}
                          /\ Kept(r) /\ r.service.dispatcher = row.service.dispatcher
<1> SUFFICES ASSUME ~HasCustomerPaid(row.service)
             PROVE  \E r, tasks : /\ Makes(r, tasks) /\ tasks \subseteq {Plain("initiateAutoAssignment")}
                                  /\ Kept(r) /\ r.service.dispatcher = row.service.dispatcher
  BY DEF FeeResponded
<1>1. PICK l \in Row : l = Loaded /\ l.rating = row.rating /\ l.start = row.start /\ l.order = row.order
                      /\ l.service.dispatcher = row.service.dispatcher
  BY LoadedIs
<1>2. History("FEE") # {} /\ "FEE" \in Purpose
  BY DEF FeeResponded, Take, Typed, AnswersKnown, Responded, Purpose
<1>3. PICK i : i = MostRecentResponse("FEE") /\ i \in DOMAIN responses
  BY <1>2, NewestIsLast DEF History
<1>4. responses[i].status \in PaymentStatus /\ i \in Nat /\ i \in 0..Len(responses)
  <2>1. responses[i] \in GatewayResponse
    BY <1>3 DEF Typed, TypeOK, GatewayTypeOK
  <2> QED
    BY <1>3, <2>1 DEF GatewayResponse, AnswerStatus, PaymentStatus, Typed, TypeOK, GatewayTypeOK
<1>5. PICK q \in Response : q = [id |-> i, status |-> responses[i].status] /\ q.id = i
  <2>1. PICK q : q = [id |-> i, status |-> responses[i].status]
    OBVIOUS
  <2>2. q \in Response /\ q.id = i
    BY <1>4, <2>1 DEF Response
  <2> QED
    BY <2>1, <2>2
<1>6. PICK old \in ServiceObject : old = l.service
  BY RowFields
<1>7. PICK s \in ServiceObject : /\ s = DerivedFromPaymentHistory(old, q)
                                /\ s.dispatcher = old.dispatcher /\ s.response = q
  BY ChangedType DEF DerivedFromPaymentHistory, NewService
<1>8. PICK e \in Flag : e = "UNSET"
  BY DEF Flag
<1>9. PICK r : r = [l EXCEPT !.service = s, !.eligible = e, !.refunded = e]
  OBVIOUS
<1>10. /\ r \in Row /\ r.service = s /\ r.start = l.start /\ r.order = l.order
       /\ r.refunded = e /\ r.rating = l.rating
  BY <1>9 DEF Row
<1>11. PICK tasks : tasks = IF HasCustomerPaid(s) THEN {Plain("initiateAutoAssignment")} ELSE {}
  OBVIOUS
<1>12. Saving(r, tasks)
  BY <1>1, <1>3, <1>5, <1>6, <1>7, <1>8, <1>9, <1>11 DEF FeeResponded
<1>13. tasks \subseteq Task /\ tasks \cap Started = {}
  BY <1>11, TaskTypes DEF TaskName
<1>14. Known(r)
  BY <1>4, <1>5, <1>7, <1>10 DEF Known
<1>15. Makes(r, tasks)
  BY <1>10, <1>12, <1>13, <1>14, SavingMakes
<1> QED
  BY <1>1, <1>6, <1>7, <1>8, <1>10, <1>11, <1>15 DEF Kept

\* The surcharge: nothing, or the order put through execute() with the last answer.
LEMMA SurchargeRespondedMakes ==
  ASSUME Typed, SurchargeResponded
  PROVE  \/ UNCHANGED calls /\ SurchargePaid(row)
         \/ \E r, tasks : \E i \in History("EC_RESCHEDULE_SURCHARGE") :
              /\ \A j \in History("EC_RESCHEDULE_SURCHARGE") : j <= i
              /\ r.order = Executed(row.order, responses[i].status)
              /\ responses[i].status \in PaymentStatus
              /\ Makes(r, tasks)
              /\ r.order.executed => For("rescheduled", row.order.impacted) \in tasks
              /\ r.start = row.order.to /\ r.rating = row.rating /\ r.refunded = "UNSET"
              /\ r.service.dispatcher = NoAgent
<1> SUFFICES ASSUME ~SurchargePaid(row)
             PROVE  \E r, tasks : \E i \in History("EC_RESCHEDULE_SURCHARGE") :
                      /\ \A j \in History("EC_RESCHEDULE_SURCHARGE") : j <= i
                      /\ r.order = Executed(row.order, responses[i].status)
                      /\ responses[i].status \in PaymentStatus
                      /\ Makes(r, tasks)
                      /\ r.order.executed => For("rescheduled", row.order.impacted) \in tasks
                      /\ r.start = row.order.to /\ r.rating = row.rating /\ r.refunded = "UNSET"
                      /\ r.service.dispatcher = NoAgent
  BY DEF SurchargeResponded
<1>1. PICK l \in Row : l = Loaded /\ l.rating = row.rating /\ l.order = row.order /\ Known(l)
  BY LoadedIs
<1>2. History("EC_RESCHEDULE_SURCHARGE") # {} /\ "EC_RESCHEDULE_SURCHARGE" \in Purpose
  BY DEF SurchargeResponded, Take, Typed, AnswersKnown, Responded, Purpose
<1>3. PICK i \in History("EC_RESCHEDULE_SURCHARGE") :
        /\ i = MostRecentResponse("EC_RESCHEDULE_SURCHARGE") /\ i \in DOMAIN responses
        /\ \A j \in History("EC_RESCHEDULE_SURCHARGE") : j <= i
  BY <1>2, NewestIsLast DEF History
<1>4. PICK status \in PaymentStatus : status = responses[i].status
  <2>1. responses[i] \in GatewayResponse
    BY <1>3 DEF Typed, TypeOK, GatewayTypeOK
  <2> QED
    BY <2>1 DEF GatewayResponse, AnswerStatus, PaymentStatus
<1>5. PICK r : r = ExecuteOrder(l, status)
  OBVIOUS
<1>6. /\ r \in Row /\ r.order = Executed(l.order, status) /\ r.start = l.order.to
      /\ r.rating = l.rating /\ r.refunded = "UNSET" /\ r.service.dispatcher = NoAgent
      /\ r.service.response = l.service.response
  BY <1>5, ExecuteOrderIs
<1>7. PICK o \in Order : o = row.order
  BY <1>1, RowFields
<1>8. r.order.impacted = o.impacted /\ o.impacted \in Independent \cup {NoAgent}
  <2>1. Executed(o, status).impacted = o.impacted
    BY ExecutedIs
  <2> QED
    BY <1>1, <1>6, <1>7, <2>1 DEF Order
<1>9. PICK tasks : tasks = IF r.order.executed
                           THEN {For("rescheduled", r.order.impacted), Plain("initiateAutoAssignment")}
                           ELSE {}
  OBVIOUS
<1>10. Saving(r, tasks)
  BY <1>1, <1>3, <1>4, <1>5, <1>9 DEF SurchargeResponded
<1>11. tasks \subseteq Task /\ tasks \cap Started = {}
  BY <1>8, <1>9, TaskTypes DEF TaskName
<1>12. Makes(r, tasks)
  BY <1>1, <1>6, <1>10, <1>11, SavingMakes DEF Known
<1>13. r.order.executed => For("rescheduled", row.order.impacted) \in tasks
  BY <1>7, <1>8, <1>9
<1>14. r.order = Executed(row.order, responses[i].status)
  BY <1>1, <1>4, <1>6
<1> QED
  BY <1>1, <1>3, <1>4, <1>6, <1>12, <1>13, <1>14

\* The customer's cancellation keeps the order, the time and the rating.
LEMMA CancelByCustomerMakes ==
  ASSUME Typed, CancelByCustomer
  PROVE  \E r : Makes(r, {Plain("cancelled")}) /\ Kept(r) /\ r.service.dispatcher = NoAgent
<1>1. PICK l \in Row : l = LoadedByGet /\ l.rating = row.rating /\ l.start = row.start
                      /\ l.order = row.order /\ Known(l)
  BY LoadedIs
<1>2. PICK old \in ServiceObject : old = l.service
  BY RowFields
<1>3. PICK status \in Cancelled \cup {"NONE"} : status = "CANCELLED_BY_CUSTOMER"
  BY DEF Cancelled
<1>4. PICK s \in ServiceObject : /\ s = ProviderTerminated(old, status)
                                /\ s.dispatcher = NoAgent /\ s.response = old.response
  BY ChangedType DEF ProviderTerminated, NewService
<1>5. PICK e \in Flag, f \in Flag : e = (IF AtLeast(MoveLimit, row.start) THEN "YES" ELSE "NO") /\ f = "UNSET"
  BY DEF Flag
<1>6. PICK r : r = [l EXCEPT !.service = s, !.eligible = e, !.refunded = f]
  OBVIOUS
<1>7. /\ r \in Row /\ r.service = s /\ r.start = l.start /\ r.order = l.order
      /\ r.refunded = f /\ r.rating = l.rating
  BY <1>6 DEF Row
<1>8. Saving(r, {Plain("cancelled")})
  BY <1>1, <1>2, <1>3, <1>4, <1>5, <1>6 DEF CancelByCustomer
<1>9. {Plain("cancelled")} \subseteq Task /\ {Plain("cancelled")} \cap Started = {}
  BY TaskTypes DEF TaskName
<1>10. Makes(r, {Plain("cancelled")})
  BY <1>1, <1>2, <1>4, <1>7, <1>8, <1>9, SavingMakes DEF Known
<1> QED
  BY <1>1, <1>4, <1>5, <1>7, <1>10 DEF Kept

\* So does marking as failed, which keeps the provider too.
LEMMA FailMakes ==
  ASSUME Typed, Fail
  PROVE  \E r : Makes(r, {Plain("revoked")}) /\ Kept(r) /\ r.service.dispatcher = row.service.dispatcher
<1>1. PICK l \in Row : l = Loaded /\ l.rating = row.rating /\ l.start = row.start
                      /\ l.order = row.order /\ l.service.dispatcher = row.service.dispatcher /\ Known(l)
  BY LoadedIs
<1>2. PICK old \in ServiceObject : old = l.service
  BY RowFields
<1>3. PICK s \in ServiceObject : /\ s = Revoked(old, TRUE)
                                /\ s.dispatcher = old.dispatcher /\ s.response = old.response
  BY ChangedType DEF Revoked, NewService
<1>4. PICK e \in Flag, f \in Flag : e = "YES" /\ f = "UNSET"
  BY DEF Flag
<1>5. PICK r : r = [l EXCEPT !.service = s, !.eligible = e, !.refunded = f]
  OBVIOUS
<1>6. /\ r \in Row /\ r.service = s /\ r.start = l.start /\ r.order = l.order
      /\ r.refunded = f /\ r.rating = l.rating
  BY <1>5 DEF Row
<1>7. Saving(r, {Plain("revoked")})
  BY <1>1, <1>2, <1>3, <1>4, <1>5 DEF Fail
<1>8. {Plain("revoked")} \subseteq Task /\ {Plain("revoked")} \cap Started = {}
  BY TaskTypes DEF TaskName
<1>9. Makes(r, {Plain("revoked")})
  BY <1>1, <1>2, <1>3, <1>6, <1>7, <1>8, SavingMakes DEF Known
<1> QED
  BY <1>1, <1>2, <1>3, <1>4, <1>6, <1>9 DEF Kept

\* A refund is inserted once, and the flag is saved with it.
LEMMA InsertRefundMakes ==
  ASSUME Typed, InsertRefund
  PROVE  \/ refunds # 0 /\ UNCHANGED <<refunds, calls>>
         \/ /\ refunds = 0 /\ refunds' = 1
            /\ \E r : /\ Makes(r, {})
                      /\ r.order = row.order /\ r.start = row.start /\ r.rating = row.rating
                      /\ r.refunded = "YES" /\ r.service.dispatcher = row.service.dispatcher
<1>1. PICK l \in Row : l = LoadedByGet /\ l.rating = row.rating /\ l.start = row.start
                      /\ l.order = row.order /\ l.service.dispatcher = row.service.dispatcher /\ Known(l)
  BY LoadedIs
<1>2. PICK r : r = [l EXCEPT !.refunded = "YES"]
  OBVIOUS
<1>3. /\ r \in Row /\ r.service = l.service /\ r.start = l.start /\ r.order = l.order
      /\ r.refunded = "YES" /\ r.rating = l.rating
  BY <1>2 DEF Row, Flag
<1>4. CASE refunds = 0
  <2>1. Saving(r, {}) /\ refunds' = 1
    BY <1>1, <1>2, <1>4 DEF InsertRefund
  <2>2. Makes(r, {})
    BY <1>1, <1>3, <2>1, SavingMakes DEF Known
  <2> QED
    BY <1>1, <1>3, <1>4, <2>1, <2>2
<1>5. CASE refunds # 0
  BY <1>5 DEF InsertRefund
<1> QED
  BY <1>4, <1>5

\* A rating is saved with the order and the refund flag that were read.
LEMMA RateMakes ==
  ASSUME Typed, NEW rating \in FeedbackResponse, Rate(rating)
  PROVE  \E r : /\ Makes(r, {})
                /\ r.order = row.order /\ r.start = row.start /\ r.rating = rating
                /\ r.refunded = row.refunded /\ r.service.dispatcher = row.service.dispatcher
<1>1. PICK l \in Row : l = Loaded /\ l.refunded = row.refunded /\ l.start = row.start
                      /\ l.order = row.order /\ l.service.dispatcher = row.service.dispatcher /\ Known(l)
  BY LoadedIs
<1>2. PICK r : r = [l EXCEPT !.rating = rating]
  OBVIOUS
<1>3. /\ r \in Row /\ r.service = l.service /\ r.start = l.start /\ r.order = l.order
      /\ r.refunded = l.refunded /\ r.rating = rating
  BY <1>2 DEF Row
<1>4. Makes(r, {})
  BY <1>1, <1>2, <1>3, SavingMakes DEF Known, Rate
<1> QED
  BY <1>1, <1>3, <1>4

\* The restart of the dispatching writes neither provider nor order.
LEMMA InitiateAutoAssignmentMakes ==
  ASSUME Typed, InitiateAutoAssignment
  PROVE  \E r : Makes(r, {Plain("ticket")}) /\ Kept(r) /\ r.service.dispatcher = Unset
<1>1. PICK l \in Row : l = Loaded /\ l.rating = row.rating /\ l.start = row.start
                      /\ l.order = row.order /\ Known(l)
  BY LoadedIs
<1>2. PICK old \in ServiceObject : old = l.service
  BY RowFields
<1>3. PICK s \in ServiceObject : /\ s = Restarted(old)
                                /\ s.dispatcher = Unset /\ s.response = old.response
  BY ChangedType DEF Restarted, NewService
<1>4. PICK e \in Flag : e = "UNSET"
  BY DEF Flag
<1>5. PICK r : r = [l EXCEPT !.service = s, !.eligible = e, !.refunded = e]
  OBVIOUS
<1>6. /\ r \in Row /\ r.service = s /\ r.start = l.start /\ r.order = l.order
      /\ r.refunded = e /\ r.rating = l.rating
  BY <1>5 DEF Row
<1>7. Saving(r, {Plain("ticket")})
  BY <1>1, <1>2, <1>3, <1>4, <1>5 DEF InitiateAutoAssignment
<1>8. {Plain("ticket")} \subseteq Task /\ {Plain("ticket")} \cap Started = {}
  BY TaskTypes DEF TaskName
<1>9. Makes(r, {Plain("ticket")})
  BY <1>1, <1>2, <1>3, <1>6, <1>7, <1>8, SavingMakes DEF Known
<1> QED
  BY <1>1, <1>3, <1>4, <1>6, <1>9 DEF Kept

\* A row that is saved in one step: it is in order, and what is not the service's stays.
Rewritten(r) == /\ r \in Row /\ Known(r)
                /\ r.order = row.order /\ r.start = row.start /\ r.rating = row.rating
                /\ r.refunded = row.refunded /\ r.refunded # "UNSET" /\ r.eligible # "UNSET"
                /\ r.service.dispatcher # Unset /\ r.service.worker # Unset

\* Accepting writes the provider.
LEMMA AcceptRewrites ==
  ASSUME Typed, NEW p \in Independent, Accept(p)
  PROVE  \E r : row' = r /\ Rewritten(r) /\ r.service.dispatcher = p
<1>1. PICK l \in Row : l = Loaded /\ l.rating = row.rating /\ l.start = row.start
                      /\ l.order = row.order /\ Known(l)
  BY LoadedIs
<1>2. PICK old \in ServiceObject : old = l.service
  BY RowFields
<1>3. PICK s \in ServiceObject : /\ s = AssignedToDispatcher(old, p)
                                /\ s.dispatcher = p /\ s.response = old.response
  BY AssignedType DEF AssignedToDispatcher, AllocatedToWorker, NewService, Dispatcher
<1>4. PICK e \in Flag : e = "UNSET"
  BY DEF Flag
<1>5. PICK q : q = [l EXCEPT !.service = s, !.eligible = e, !.refunded = e]
  OBVIOUS
<1>6. /\ q \in Row /\ q.service = s /\ q.start = l.start /\ q.order = l.order
      /\ q.refunded = e /\ q.rating = l.rating
  BY <1>5 DEF Row
<1>7. PICK r : r = Merged(q)
  OBVIOUS
<1>8. row' = r
  BY <1>1, <1>2, <1>3, <1>4, <1>5, <1>7 DEF Accept
<1>9. p # Unset
  BY ServiceAssumption DEF ServiceProvider
<1> QED
  BY <1>1, <1>2, <1>3, <1>4, <1>6, <1>7, <1>8, <1>9, MergedIs DEF Rewritten, Known, Or

\* Handling keeps the provider.
LEMMA HandleRewrites ==
  ASSUME Typed, Handle
  PROVE  \E r : row' = r /\ Rewritten(r) /\ r.service.dispatcher = row.service.dispatcher
<1>1. PICK l \in Row : l = Loaded /\ l.rating = row.rating /\ l.start = row.start
                      /\ l.order = row.order /\ Known(l) /\ l.service.dispatcher = row.service.dispatcher
  BY LoadedIs
<1>2. PICK old \in ServiceObject : old = l.service
  BY RowFields
<1>3. PICK event \in LastEvent : event = NextHandlingEventType(old)
  BY DEF NextHandlingEventType, LastEvent, HandlingEventType
<1>4. PICK s \in ServiceObject : /\ s = DerivedFromHandlingHistory(old, event)
                                /\ s.dispatcher = old.dispatcher /\ s.response = old.response
  BY ChangedType DEF DerivedFromHandlingHistory, NewService
<1>5. PICK e \in Flag : e = "UNSET"
  BY DEF Flag
<1>6. PICK q : q = [l EXCEPT !.service = s, !.eligible = e, !.refunded = e]
  OBVIOUS
<1>7. /\ q \in Row /\ q.service = s /\ q.start = l.start /\ q.order = l.order
      /\ q.refunded = e /\ q.rating = l.rating
  BY <1>6 DEF Row
<1>8. PICK r : r = Merged(q)
  OBVIOUS
<1>9. row' = r
  BY <1>1, <1>2, <1>3, <1>4, <1>5, <1>6, <1>8 DEF Handle
<1>10. row.service.dispatcher # Unset
  BY DEF Typed, TypeOK
<1> QED
  BY <1>1, <1>2, <1>4, <1>5, <1>7, <1>8, <1>9, <1>10, MergedIs DEF Rewritten, Known, Or

------------------------------------------------------------------------------
(* Types *)

\* A call that is made is of the right type, and the others stay so.
LEMMA CallsStay ==
  ASSUME Typed, UNCHANGED responses, UNCHANGED calls \/ \E r, tasks : Makes(r, tasks)
  PROVE  CallsTyped' /\ \A c \in calls' : c.row \in Row /\ c.then \subseteq Task
BY DEF Typed, CallsTyped, Makes, Known

\* Nothing but answers can bring an answer to do.
LEMMA OtherTask ==
  ASSUME Typed, UNCHANGED responses,
         \/ UNCHANGED todo
         \/ \E k \in Task : Take(k)
         \/ \E tasks : Publish(tasks) /\ tasks \cap Answers = {}
         \/ \E k \in Task : \E tasks : TakeAndPublish(k, tasks) /\ k \notin tasks /\ tasks \cap Answers = {}
  PROVE  todo' \in [Task -> Nat] /\ AnswersKnown'
<1> USE TaskTypes
<1>1. todo \in [Task -> Nat]
  BY DEF Typed, TypeOK
<1>2. CASE UNCHANGED todo
  BY <1>1, <1>2, AnswersStay
<1>3. ASSUME NEW k \in Task, Take(k) PROVE todo' \in [Task -> Nat] /\ AnswersKnown'
  <2>1. todo' \in [Task -> Nat] /\ \A j \in Answers : todo'[j] = todo[j] \/ todo[j] > 0
    BY <1>1, <1>3, TakeIs
  <2> QED
    BY <2>1, AnswersStay
<1>4. ASSUME NEW tasks, Publish(tasks), tasks \cap Answers = {}
      PROVE  todo' \in [Task -> Nat] /\ AnswersKnown'
  <2>1. todo' \in [Task -> Nat] /\ \A j \in Answers : todo'[j] = todo[j]
    BY <1>1, <1>4, PublishIs
  <2> QED
    BY <2>1, AnswersStay
<1>5. ASSUME NEW k \in Task, NEW tasks, TakeAndPublish(k, tasks), k \notin tasks, tasks \cap Answers = {}
      PROVE  todo' \in [Task -> Nat] /\ AnswersKnown'
  <2>1. todo' \in [Task -> Nat] /\ \A j \in Answers : todo'[j] = todo[j] \/ todo[j] > 0
    BY <1>1, <1>5, TakeAndPublishIs
  <2> QED
    BY <2>1, AnswersStay
<1> QED
  BY <1>2, <1>3, <1>4, <1>5

\* A step of which only calls, todo and the like change.
LEMMA QuietTyped ==
  ASSUME Typed, UNCHANGED <<row, responses>>, UNCHANGED calls \/ \E r, tasks : Makes(r, tasks),
         \/ UNCHANGED todo
         \/ \E k \in Task : Take(k)
         \/ \E tasks : Publish(tasks) /\ tasks \cap Answers = {}
         \/ \E k \in Task : \E tasks : TakeAndPublish(k, tasks) /\ k \notin tasks /\ tasks \cap Answers = {},
         now' \in Nat, offers' \subseteq Independent, appointments' \subseteq Appointment,
         reminders' \subseteq Reminder, refunds' \in Nat, feedbacks' \in Seq(FeedbackResponse),
         requests' \in Nat, pages' \subseteq Purpose, answers' \in Nat
  PROVE  Typed'
<1>1. todo' \in [Task -> Nat] /\ AnswersKnown'
  BY OtherTask
<1>2. CallsTyped' /\ \A c \in calls' : c.row \in Row /\ c.then \subseteq Task
  BY CallsStay
<1>3. Known(row)'
  BY DEF Known, Typed
<1>4. GatewayTypeOK'
  BY DEF GatewayTypeOK, Typed, TypeOK
<1> QED
  BY <1>1, <1>2, <1>3, <1>4 DEF Typed, TypeOK

\* The reminders of a time are reminders.
LEMMA RemindersType == ASSUME NEW to \in Nat PROVE RemindersFor(to) \subseteq Reminder
<1>1. \A d \in RemindBefore : to - d \in Int
  BY RescheduleAssumption
<1> QED
  BY <1>1 DEF RemindersFor, Reminder

\* The steps that move the job keep the types.
LEMMA RescheduleTyped ==
  ASSUME Typed, NEW to \in Arrivals,
         RescheduleFree(to) \/ RescheduleAtSurcharge(to) \/ AdminChange(to)
  PROVE  Typed'
<1>1. to \in Nat
  BY RescheduleAssumption
<1>2. requests' \in Nat
  BY DEF RescheduleFree, RescheduleAtSurcharge, AdminChange, Request, Typed, TypeOK
<1>3. CASE RescheduleFree(to)
  <2>1. reminders' \subseteq Reminder
    BY <1>1, <1>3, RemindersType DEF RescheduleFree, AddToReminders, Typed, TypeOK
  <2>2. \E r, tasks : Makes(r, tasks)
    BY <1>3, RescheduleFreeMakes
  <2> QED
    BY <1>2, <1>3, <2>1, <2>2, QuietTyped
       DEF RescheduleFree, gateway, tables, after, Typed, TypeOK, GatewayTypeOK
<1>4. CASE RescheduleAtSurcharge(to)
  <2>1. pages' \subseteq Purpose
    BY <1>4 DEF RescheduleAtSurcharge, HandOut, Purpose, Typed, TypeOK, GatewayTypeOK
  <2>2. \E r, tasks : Makes(r, tasks)
    BY <1>4, RescheduleAtSurchargeMakes
  <2> QED
    BY <1>2, <1>4, <2>1, <2>2, QuietTyped
       DEF RescheduleAtSurcharge, tables, after, Typed, TypeOK, GatewayTypeOK
<1>5. CASE AdminChange(to)
  <2>1. PICK p : Publish({For("announce", p)})
    BY <1>5, AdminChangeMakes
  <2>2. {For("announce", p)} \cap Answers = {}
    BY TaskTypes DEF TaskName
  <2>3. \E r, tasks : Makes(r, tasks)
    BY <1>5, AdminChangeMakes
  <2> QED
    BY <1>2, <1>5, <2>1, <2>2, <2>3, QuietTyped
       DEF AdminChange, gateway, tables, after, Typed, TypeOK, GatewayTypeOK
<1> QED
  BY <1>3, <1>4, <1>5

\* So do the steps about money, rating and restart.
LEMMA MoneyTyped ==
  ASSUME Typed,
         \/ CancelByCustomer \/ Fail \/ Refund \/ InsertRefund
         \/ \E rating \in FeedbackResponse : Rate(rating)
         \/ FeeResponded \/ SurchargeResponded \/ InitiateAutoAssignment
  PROVE  Typed'
<1> USE TaskTypes DEF TaskName
<1> USE DEF tables, after, gateway
<1>0. /\ now \in Nat /\ offers \subseteq Independent /\ appointments \subseteq Appointment
      /\ reminders \subseteq Reminder /\ refunds \in Nat /\ feedbacks \in Seq(FeedbackResponse)
      /\ requests \in Nat /\ pages \subseteq Purpose /\ answers \in Nat
  BY DEF Typed, TypeOK, GatewayTypeOK
<1>1. CASE CancelByCustomer
  BY <1>0, <1>1, CancelByCustomerMakes, QuietTyped DEF CancelByCustomer, Request
<1>2. CASE Fail
  BY <1>0, <1>2, FailMakes, QuietTyped DEF Fail, Request
<1>3. CASE Refund
  <2>1. {Plain("insertRefund")} \cap Answers = {}
    OBVIOUS
  <2> QED
    BY <1>0, <1>3, <2>1, QuietTyped DEF Refund, Request
<1>4. CASE InsertRefund
  <2>1. \E k \in Task : Take(k)
    BY <1>4 DEF InsertRefund
  <2>2. refunds' \in Nat /\ (UNCHANGED calls \/ \E r, tasks : Makes(r, tasks))
    BY <1>0, <1>4, InsertRefundMakes
  <2> QED
    BY <1>0, <1>4, <2>1, <2>2, QuietTyped DEF InsertRefund
<1>5. ASSUME NEW rating \in FeedbackResponse, Rate(rating) PROVE Typed'
  <2>1. feedbacks' \in Seq(FeedbackResponse)
    BY <1>0, <1>5 DEF Rate
  <2> QED
    BY <1>0, <1>5, <2>1, RateMakes, QuietTyped DEF Rate, Request
<1>6. CASE FeeResponded
  <2>1. \E k \in Task : Take(k)
    BY <1>6 DEF FeeResponded
  <2>2. UNCHANGED calls \/ \E r, tasks : Makes(r, tasks)
    BY <1>6, FeeRespondedMakes
  <2> QED
    BY <1>0, <1>6, <2>1, <2>2, QuietTyped DEF FeeResponded
<1>7. CASE SurchargeResponded
  <2>1. \E k \in Task : Take(k)
    BY <1>7 DEF SurchargeResponded
  <2>2. UNCHANGED calls \/ \E r, tasks : Makes(r, tasks)
    BY <1>7, SurchargeRespondedMakes
  <2> QED
    BY <1>0, <1>7, <2>1, <2>2, QuietTyped DEF SurchargeResponded
<1>8. CASE InitiateAutoAssignment
  <2>1. \E k \in Task : Take(k)
    BY <1>8 DEF InitiateAutoAssignment
  <2> QED
    BY <1>0, <1>8, <2>1, InitiateAutoAssignmentMakes, QuietTyped DEF InitiateAutoAssignment
<1> QED
  BY <1>1, <1>2, <1>3, <1>4, <1>5, <1>6, <1>7, <1>8

\* The handlers of the events change appointments and offers.
LEMMA TablesTyped ==
  ASSUME Typed,
         \/ Ticket
         \/ \E p \in Independent \cup {NoAgent} : Rescheduled(p)
         \/ CancelledOrRevoked
         \/ \E p \in Independent : ReplacedOrFulfilled(p)
  PROVE  Typed'
<1> USE TaskTypes DEF TaskName
<1> USE DEF after, gateway
<1>0. /\ now \in Nat /\ offers \subseteq Independent /\ appointments \subseteq Appointment
      /\ reminders \subseteq Reminder /\ refunds \in Nat /\ feedbacks \in Seq(FeedbackResponse)
      /\ requests \in Nat /\ pages \subseteq Purpose /\ answers \in Nat
  BY DEF Typed, TypeOK, GatewayTypeOK
<1>1. CASE Ticket
  <2>1. \E k \in Task : Take(k)
    BY <1>1 DEF Ticket
  <2> QED
    BY <1>0, <1>1, <2>1, QuietTyped DEF Ticket
<1>2. ASSUME NEW k \in Task, NEW matching, matching \subseteq appointments, NEW status \in AppointmentStatus,
             UpdateAppointments(k, matching, status), offers' \subseteq Independent
      PROVE  Typed'
  <2>1. ASSUME NEW a \in matching PROVE [a EXCEPT !.status = status] \in Appointment
    BY <1>0, <1>2 DEF Appointment
  <2>2. appointments' \subseteq Appointment
    BY <1>0, <1>2, <2>1 DEF UpdateAppointments
  <2> QED
    BY <1>0, <1>2, <2>2, QuietTyped DEF UpdateAppointments
<1>3. ASSUME NEW p \in Independent \cup {NoAgent}, Rescheduled(p) PROVE Typed'
  BY <1>2, <1>3 DEF Rescheduled, Of, AppointmentStatus
<1>4. CASE CancelledOrRevoked
  BY <1>2, <1>4 DEF CancelledOrRevoked, AppointmentStatus
<1>5. ASSUME NEW p \in Independent, ReplacedOrFulfilled(p) PROVE Typed'
  <2>1. offers' \subseteq Independent
    BY <1>0, <1>5 DEF ReplacedOrFulfilled
  <2> QED
    BY <1>2, <1>5, <2>1 DEF ReplacedOrFulfilled, Of, AppointmentStatus
<1> QED
  BY <1>1, <1>3, <1>4, <1>5

\* So do the answers of the gateway: whatever is to handle has a response to look up.
LEMMA AnswerTyped ==
  ASSUME Typed,
         \/ \E purpose \in Purpose, status \in AnswerStatus : Pay(purpose, status)
         \/ \E i \in DOMAIN responses, status \in AnswerStatus : Webhook(i, status)
  PROVE  Typed'
<1>1. PICK n \in Nat : n = Len(responses)
  BY DEF Typed, TypeOK, GatewayTypeOK
<1>2. ASSUME responses' \in Seq(GatewayResponse), Len(responses') \in {n, n + 1},
             \A i \in DOMAIN responses : responses'[i].purpose = responses[i].purpose,
             answers' \in Nat, requests' \in Nat,
             UNCHANGED <<now, row, tables, reminders, after, calls, pages>>,
             NEW purpose \in Purpose, Publish({Responded(purpose)}),
             \E i \in 1..Len(responses') : responses'[i].purpose = purpose
      PROVE  Typed'
  <2>1. todo' \in [Task -> Nat] /\ \A k \in Task : todo'[k] = IF k = Responded(purpose) THEN todo[k] + 1 ELSE todo[k]
    BY <1>2, PublishIs DEF Typed, TypeOK
  <2>2. Known(row)' /\ CallsTyped'
    BY <1>1, <1>2 DEF Typed, Known, CallsTyped
  <2>3. AnswersKnown'
    <3>1. SUFFICES ASSUME NEW p \in Purpose, todo'[Responded(p)] > 0 PROVE History(p)' # {}
      BY DEF AnswersKnown
    <3>2. DOMAIN responses' = 1..Len(responses') /\ DOMAIN responses = 1..n
      BY <1>1, <1>2 DEF Typed, TypeOK, GatewayTypeOK
    <3>3. CASE p = purpose
      <4>1. PICK i \in 1..Len(responses') : responses'[i].purpose = purpose
        BY <1>2
      <4>2. i \in History(p)'
        BY <3>2, <3>3, <4>1 DEF History
      <4> QED
        BY <4>2
    <3>4. CASE p # purpose
      <4>1. Responded(p) # Responded(purpose) /\ Responded(p) \in Task
        BY <3>4, TaskTypes DEF Responded, Plain, For, Purpose, Answers
      <4>2. PICK i \in DOMAIN responses : responses[i].purpose = p
        BY <2>1, <3>1, <4>1 DEF Typed, AnswersKnown, History
      <4>3. responses'[i].purpose = p
        BY <1>2, <4>2
      <4>5. i \in DOMAIN responses'
        <5>1. PICK m \in Nat : m = Len(responses') /\ m >= n
          BY <1>2
        <5>2. i \in 1..n
          BY <3>2
        <5>3. i \in 1..m
          BY <5>1, <5>2
        <5> QED
          BY <3>2, <5>1, <5>3
      <4>4. i \in History(p)'
        BY <4>3, <4>5 DEF History
      <4> QED
        BY <4>4
    <3> QED
      BY <3>3, <3>4
  <2>4. GatewayTypeOK'
    BY <1>2 DEF GatewayTypeOK, Typed, TypeOK
  <2> QED
    BY <1>2, <2>1, <2>2, <2>3, <2>4 DEF Typed, TypeOK, tables, after, CallsTyped
<1>3. ASSUME NEW purpose \in Purpose, NEW status \in AnswerStatus, Pay(purpose, status) PROVE Typed'
  <2>0. PICK q0 : q0 = [purpose |-> purpose, status |-> status]
    OBVIOUS
  <2>1. PICK q \in GatewayResponse : q = q0 /\ q.purpose = purpose
    <3>1. q0 \in GatewayResponse /\ q0.purpose = purpose
      BY <2>0 DEF GatewayResponse
    <3> QED
      BY <3>1
  <2>2. responses' = Append(responses, q) /\ responses \in Seq(GatewayResponse)
    BY <1>3, <2>0, <2>1 DEF Pay, Insert, Typed, TypeOK, GatewayTypeOK
  <2>3. /\ responses' \in Seq(GatewayResponse) /\ Len(responses') = n + 1
        /\ \A i \in DOMAIN responses : responses'[i] = responses[i]
        /\ responses'[n + 1] = q
    BY <1>1, <2>2
  <2>4. n + 1 \in 1..Len(responses')
    BY <1>1, <2>3
  <2>5. answers' \in Nat /\ requests' \in Nat
    BY <1>3 DEF Pay, Insert, Answered, Request, Typed, TypeOK, GatewayTypeOK
  <2> QED
    BY <1>2, <1>3, <2>1, <2>3, <2>4, <2>5 DEF Pay
<1>4. ASSUME NEW i \in DOMAIN responses, NEW status \in AnswerStatus, Webhook(i, status) PROVE Typed'
  <2>1. responses \in Seq(GatewayResponse) /\ responses[i] \in GatewayResponse
    BY DEF Typed, TypeOK, GatewayTypeOK
  <2>2. PICK q : q = [responses[i] EXCEPT !.status = status]
    OBVIOUS
  <2>3. q \in GatewayResponse /\ q.purpose = responses[i].purpose /\ q.purpose \in Purpose
    BY <2>1, <2>2 DEF GatewayResponse
  <2>4. responses' = [responses EXCEPT ![i] = q]
    BY <1>4, <2>2 DEF Webhook, Overwrite
  <2>5. /\ responses' \in Seq(GatewayResponse) /\ Len(responses') = n /\ responses'[i] = q
        /\ \A j \in DOMAIN responses : responses'[j].purpose = responses[j].purpose
    BY <1>1, <2>1, <2>3, <2>4
  <2>6. answers' \in Nat /\ requests' \in Nat
    BY <1>4 DEF Webhook, Overwrite, Answered, Request, Typed, TypeOK, GatewayTypeOK
  <2>7. i \in 1..Len(responses')
    BY <1>1, <2>1, <2>5
  <2> QED
    BY <1>2, <1>4, <2>3, <2>5, <2>6, <2>7 DEF Webhook
<1> QED
  BY <1>3, <1>4

\* The steps that write the row.
LEMMA RowTyped ==
  ASSUME Typed,
         \/ \E c \in calls : Save(c)
         \/ \E p \in Independent : Accept(p)
         \/ Handle
  PROVE  Typed'
<1> USE TaskTypes DEF TaskName
<1> USE DEF after, gateway
<1>1. ASSUME NEW r \in Row, row' = r, Known(r),
             r.eligible # "UNSET", r.refunded # "UNSET",
             r.service.dispatcher # Unset, r.service.worker # Unset,
             UNCHANGED <<now, reminders, after, gateway>>, calls' \subseteq calls, requests' \in Nat,
             appointments' \subseteq Appointment, offers' \subseteq Independent,
             NEW tasks, Publish(tasks), tasks \cap Answers = {}
      PROVE  Typed'
  <2>1. todo' \in [Task -> Nat] /\ AnswersKnown'
    BY <1>1, OtherTask
  <2>2. Known(row)' /\ CallsTyped'
    BY <1>1 DEF Typed, Known, CallsTyped
  <2>3. GatewayTypeOK'
    BY <1>1 DEF GatewayTypeOK, Typed, TypeOK
  <2> QED
    BY <1>1, <2>1, <2>2, <2>3 DEF Typed, TypeOK, CallsTyped
<1>2. ASSUME NEW c \in calls, Save(c) PROVE Typed'
  <2>1. PICK r \in Row : r = c.row /\ Known(r) /\ c.then \cap Started = {}
    BY DEF Typed, CallsTyped
  <2>2. PICK m : m = Merged(r)
    OBVIOUS
  <2>3. /\ m \in Row /\ Known(m) /\ m.eligible # "UNSET" /\ m.refunded # "UNSET"
        /\ m.service.dispatcher # Unset /\ m.service.worker # Unset
    BY <2>1, <2>2, MergedIs DEF Known
  <2>4. /\ UNCHANGED <<now, reminders, after, gateway, requests, appointments, offers>>
        /\ row' = m /\ calls' \subseteq calls /\ Publish(c.then)
    BY <1>2, <2>1, <2>2 DEF Save, tables
  <2>5. requests' \in Nat /\ appointments' \subseteq Appointment /\ offers' \subseteq Independent
    BY <2>4 DEF Typed, TypeOK
  <2> QED
    BY <1>1, <2>1, <2>3, <2>4, <2>5
<1>3. ASSUME NEW p \in Independent, Accept(p) PROVE Typed'
  <2>1. PICK r : row' = r /\ Rewritten(r)
    BY <1>3, AcceptRewrites
  <2>2. PICK a : a = [dispatcher |-> p, start |-> row.start, status |-> "ALLOCATED"]
    OBVIOUS
  <2>3. a \in Appointment
    BY <2>2 DEF Appointment, AppointmentStatus, Typed, TypeOK, Row
  <2>4. appointments' \subseteq Appointment /\ offers' \subseteq Independent /\ requests' \in Nat
    <3>1. appointments' = appointments \cup {a} /\ offers' = {} /\ requests' = requests + 1
      BY <1>3, <2>2 DEF Accept, Request
    <3>2. appointments \subseteq Appointment /\ requests \in Nat
      BY DEF Typed, TypeOK
    <3> QED
      BY <2>3, <3>1, <3>2
  <2>5. {For("replaced", p)} \cap Answers = {}
    OBVIOUS
  <2> QED
    BY <1>1, <1>3, <2>1, <2>4, <2>5 DEF Accept, Rewritten
<1>4. CASE Handle
  <2>1. PICK r : row' = r /\ Rewritten(r)
    BY <1>4, HandleRewrites
  <2>2. PICK tasks : Publish(tasks) /\ tasks \cap Answers = {}
    <3>1. \A p : {For("fulfilled", p)} \cap Answers = {}
      OBVIOUS
    <3> QED
      BY <1>4, <3>1 DEF Handle
  <2>3. appointments' \subseteq Appointment /\ offers' \subseteq Independent /\ requests' \in Nat
    BY <1>4 DEF Handle, Request, Typed, TypeOK, tables
  <2> QED
    BY <1>1, <1>4, <2>1, <2>2, <2>3 DEF Handle, Rewritten
<1> QED
  BY <1>2, <1>3, <1>4

\* So do the announcement, the reminders and time.
LEMMA OtherTyped ==
  ASSUME Typed,
         \/ \E p \in Independent \cup {NoAgent} : Announce(p)
         \/ \E reminder \in reminders : Remind(reminder)
         \/ TimePasses \/ UNCHANGED vars
  PROVE  Typed'
<1> USE DEF tables, after, gateway
<1>0. /\ now \in Nat /\ offers \subseteq Independent /\ appointments \subseteq Appointment
      /\ reminders \subseteq Reminder /\ refunds \in Nat /\ feedbacks \in Seq(FeedbackResponse)
      /\ requests \in Nat /\ pages \subseteq Purpose /\ answers \in Nat /\ row.start \in Nat
  BY DEF Typed, TypeOK, GatewayTypeOK, Row
<1>1. ASSUME NEW p \in Independent \cup {NoAgent}, Announce(p) PROVE Typed'
  <2>1. PICK k \in Task : k = For("announce", p)
    BY TaskTypes DEF TaskName
  <2>2. PICK tasks : tasks = {For("rescheduled", p), Plain("initiateAutoAssignment")}
    OBVIOUS
  <2>3. k \notin tasks /\ tasks \cap Answers = {}
    BY <2>1, <2>2, TaskTypes DEF For, Plain, TaskName
  <2>4. TakeAndPublish(k, tasks) /\ reminders' \subseteq Reminder
    BY <1>0, <1>1, <2>1, <2>2, RemindersType DEF Announce, AddToReminders
  <2> QED
    BY <1>0, <1>1, <2>3, <2>4, QuietTyped DEF Announce
<1>2. ASSUME NEW reminder \in reminders, Remind(reminder) PROVE Typed'
  <2>1. PICK q : q = [reminder EXCEPT !.outcome = OutcomeOf(reminder)]
    OBVIOUS
  <2>2. q \in Reminder
    BY <1>0, <2>1 DEF Reminder, OutcomeOf
  <2>3. reminders' \subseteq Reminder
    BY <1>0, <1>2, <2>1, <2>2 DEF Remind
  <2> QED
    BY <1>0, <1>2, <2>3, QuietTyped DEF Remind
<1>3. CASE TimePasses
  <2>1. now' \in Nat
    BY <1>3, RescheduleAssumption DEF TimePasses
  <2> QED
    BY <1>0, <1>3, <2>1, QuietTyped DEF TimePasses
<1>4. CASE UNCHANGED vars
  BY <1>0, <1>4, QuietTyped DEF vars
<1> QED
  BY <1>1, <1>2, <1>3, <1>4

\* Every step keeps the types.
LEMMA TypedStep == Typed /\ [Next]_vars => Typed'
BY RescheduleTyped, MoneyTyped, TablesTyped, AnswerTyped, RowTyped, OtherTyped
   DEF Next, Requested, Deliver, Wait

\* They hold in the initial states.
LEMMA TypedInit == Init => Typed
<1> SUFFICES ASSUME Init PROVE Typed
  OBVIOUS
<1>1. PICK start \in Arrivals :
        /\ row = [service |-> CreatedService, start |-> start, order |-> EmptyOrder,
                  eligible |-> "NO", refunded |-> "NO", rating |-> Unrated]
        /\ reminders = RemindersFor(start)
  BY DEF Init, RemindersFor
<1>2. start \in Nat /\ now \in Nat
  BY RescheduleAssumption DEF Init
<1>3. EmptyOrder \in Order
  BY DEF EmptyOrder, Order, NoTime
<1>4. PICK s \in ServiceObject : s = CreatedService /\ s.dispatcher = NoAgent /\ s.worker = NoAgent
  BY CreatedServiceType
<1>5. s.response.id = 0
  BY <1>4 DEF CreatedService, NewService, NoResponse
<1>6. /\ row \in Row /\ row.service = s /\ row.eligible = "NO" /\ row.refunded = "NO"
  BY <1>1, <1>2, <1>3, <1>4 DEF Row, Flag
<1>7. reminders \subseteq Reminder
  BY <1>1, <1>2, RemindersType
<1>8. responses = <<>> /\ GatewayTypeOK
  BY DEF Init, GatewayInit, GatewayTypeOK, Purpose
<1>9. Known(row)
  BY <1>5, <1>6, <1>8 DEF Known
<1>10. todo \in [Task -> Nat] /\ \A k \in Task : k # Plain("initiateAutoAssignment") => todo[k] = 0
  BY DEF Init
<1>11. AnswersKnown
  <2>1. \A purpose \in Purpose : /\ Responded(purpose) \in Task
                                /\ Responded(purpose) # Plain("initiateAutoAssignment")
    BY TaskTypes DEF Responded, Plain, For, Purpose, Answers
  <2> QED
    BY <1>10, <2>1 DEF AnswersKnown
<1>12. NoAgent # Unset
  BY ServiceAssumption
<1>13. feedbacks \in Seq(FeedbackResponse)
  BY DEF Init
<1> QED
  BY <1>2, <1>4, <1>6, <1>7, <1>8, <1>9, <1>10, <1>11, <1>12, <1>13
     DEF Init, Typed, TypeOK, CallsTyped

\* They hold always.
LEMMA Typing == Spec => []Typed
BY TypedInit, TypedStep, PTL DEF Spec

\* The columns, tables and queues keep their types; what a save is about to write has
\* them too, and a handler of an answer finds an answer.
THEOREM TypeCorrect == Spec => []TypeOK
<1>1. Typed => TypeOK
  BY DEF Typed
<1> QED
  BY <1>1, Typing, PTL
------------------------------------------------------------------------------
(* The surcharge that is received *)

Surcharge == "EC_RESCHEDULE_SURCHARGE"

\* An order against surcharge that counts as executed was paid for.
PaidFor(r) == r.order.required /\ r.order.executed => Received(Surcharge)

AllPaidFor == PaidFor(row) /\ \A c \in calls : PaidFor(c.row)

\* The gateway takes no success back.
LEMMA SuccessStays ==
  ASSUME Typed, Received(Surcharge),
         \/ UNCHANGED responses
         \/ \E purpose \in Purpose, status \in AnswerStatus : Pay(purpose, status)
         \/ \E i \in DOMAIN responses, status \in AnswerStatus : Webhook(i, status)
  PROVE  Received(Surcharge)'
<1>1. PICK j \in DOMAIN responses : responses[j].purpose = Surcharge /\ responses[j].status = "SUCCEEDED"
  BY DEF Received, History
<1>2. responses \in Seq(GatewayResponse)
  BY DEF Typed, TypeOK, GatewayTypeOK
<1>3. SUFFICES /\ j \in DOMAIN responses' /\ responses'[j].purpose = Surcharge
               /\ responses'[j].status = "SUCCEEDED"
  BY DEF Received, History
<1>4. CASE UNCHANGED responses
  BY <1>1, <1>4
<1>5. ASSUME NEW purpose \in Purpose, NEW status \in AnswerStatus, Pay(purpose, status)
      PROVE  j \in DOMAIN responses' /\ responses'[j] = responses[j]
  <2>1. PICK q : q = [purpose |-> purpose, status |-> status]
    OBVIOUS
  <2>2. q \in GatewayResponse
    BY <2>1 DEF GatewayResponse
  <2>3. responses' = Append(responses, q)
    BY <1>5, <2>1 DEF Pay, Insert
  <2> QED
    BY <1>1, <1>2, <2>2, <2>3
<1>6. ASSUME NEW i \in DOMAIN responses, NEW status \in AnswerStatus, Webhook(i, status)
      PROVE  /\ j \in DOMAIN responses' /\ responses'[j].purpose = responses[j].purpose
             /\ responses'[j].status = "SUCCEEDED"
  <2>1. responses[i] \in GatewayResponse /\ responses[j] \in GatewayResponse
    BY <1>1, <1>2
  <2>2. PICK q : q = [responses[i] EXCEPT !.status = status]
    OBVIOUS
  <2>3. q.purpose = responses[i].purpose /\ q.status = status
    BY <2>1, <2>2 DEF GatewayResponse
  <2>4. responses' = [responses EXCEPT ![i] = q] /\ (responses[i].status = "SUCCEEDED" => status = "SUCCEEDED")
    BY <1>6, <2>2 DEF Webhook, Overwrite
  <2> QED
    BY <1>1, <1>2, <2>3, <2>4
<1> QED
  BY <1>1, <1>4, <1>5, <1>6

\* A step that makes a call and leaves row and answers alone.
LEMMA PaidForByMaking ==
  ASSUME Typed, AllPaidFor, UNCHANGED <<row, responses>>, NEW r, NEW tasks, Makes(r, tasks),
         Received(Surcharge) \/ (r.order.required /\ r.order.executed => PaidFor(row) /\ r.order = row.order)
  PROVE  AllPaidFor'
<1>1. Received(Surcharge)' = Received(Surcharge)
  BY DEF Received, History
<1>2. PICK c : c = [row |-> r, then |-> tasks]
  OBVIOUS
<1>3. c.row = r /\ calls' = calls \cup {c}
  BY <1>2 DEF Makes
<1>4. PaidFor(c.row)
  BY <1>3 DEF PaidFor
<1> QED
  BY <1>1, <1>3, <1>4 DEF AllPaidFor, PaidFor

\* A step that writes no order.
LEMMA PaidForQuietly ==
  ASSUME Typed, AllPaidFor, row'.order = row.order, calls' \subseteq calls,
         Received(Surcharge) => Received(Surcharge)'
  PROVE  AllPaidFor'
BY DEF AllPaidFor, PaidFor

\* Every step keeps the orders paid for, however the calls overlap.
LEMMA PaidForStep == Typed /\ AllPaidFor /\ [Next]_vars => AllPaidFor'
<1> SUFFICES ASSUME Typed, AllPaidFor, [Next]_vars PROVE AllPaidFor'
  OBVIOUS
<1> USE DEF gateway
<1>1. ASSUME NEW to \in Arrivals, RescheduleFree(to) PROVE AllPaidFor'
  <2>1. PICK r, p : /\ Makes(r, {For("rescheduled", p), Plain("initiateAutoAssignment")})
                    /\ ~r.order.required
    BY <1>1, RescheduleFreeMakes
  <2> QED
    BY <1>1, <2>1, PaidForByMaking DEF RescheduleFree
<1>2. ASSUME NEW to \in Arrivals, RescheduleAtSurcharge(to) PROVE AllPaidFor'
  <2>1. PICK r : Makes(r, {}) /\ r.order.executed = FALSE
    BY <1>2, RescheduleAtSurchargeMakes
  <2> QED
    BY <1>2, <2>1, PaidForByMaking DEF RescheduleAtSurcharge
<1>3. ASSUME NEW to \in Arrivals, AdminChange(to) PROVE AllPaidFor'
  <2>1. PICK r, p : Makes(r, {}) /\ r.order = row.order /\ Publish({For("announce", p)})
    BY <1>3, AdminChangeMakes
  <2> QED
    BY <1>3, <2>1, PaidForByMaking DEF AdminChange, AllPaidFor
<1>4. ASSUME NEW purpose \in Purpose, NEW status \in AnswerStatus, Pay(purpose, status) PROVE AllPaidFor'
  <2>1. Received(Surcharge) => Received(Surcharge)'
    BY <1>4, SuccessStays
  <2> QED
    BY <1>4, <2>1, PaidForQuietly DEF Pay
<1>5. ASSUME NEW i \in DOMAIN responses, NEW status \in AnswerStatus, Webhook(i, status) PROVE AllPaidFor'
  <2>1. Received(Surcharge) => Received(Surcharge)'
    BY <1>5, SuccessStays
  <2> QED
    BY <1>5, <2>1, PaidForQuietly DEF Webhook
<1>6. CASE CancelByCustomer
  <2>1. PICK r : Makes(r, {Plain("cancelled")}) /\ r.order = row.order
    BY <1>6, CancelByCustomerMakes DEF Kept
  <2> QED
    BY <1>6, <2>1, PaidForByMaking DEF CancelByCustomer, AllPaidFor
<1>7. CASE Fail
  <2>1. PICK r : Makes(r, {Plain("revoked")}) /\ r.order = row.order
    BY <1>7, FailMakes DEF Kept
  <2> QED
    BY <1>7, <2>1, PaidForByMaking DEF Fail, AllPaidFor
<1>8. CASE InsertRefund
  <2>1. CASE UNCHANGED calls
    BY <1>8, <2>1, PaidForQuietly DEF InsertRefund, Received, History
  <2>2. ASSUME NEW r, Makes(r, {}), r.order = row.order PROVE AllPaidFor'
    BY <1>8, <2>2, PaidForByMaking DEF InsertRefund, AllPaidFor
  <2> QED
    BY <1>8, <2>1, <2>2, InsertRefundMakes
<1>9. ASSUME NEW rating \in FeedbackResponse, Rate(rating) PROVE AllPaidFor'
  <2>1. PICK r : Makes(r, {}) /\ r.order = row.order
    BY <1>9, RateMakes
  <2> QED
    BY <1>9, <2>1, PaidForByMaking DEF Rate, AllPaidFor
<1>10. CASE FeeResponded
  <2>1. CASE UNCHANGED calls
    BY <1>10, <2>1, PaidForQuietly DEF FeeResponded, Received, History
  <2>2. ASSUME NEW r, NEW tasks, Makes(r, tasks), r.order = row.order PROVE AllPaidFor'
    BY <1>10, <2>2, PaidForByMaking DEF FeeResponded, AllPaidFor
  <2> QED
    BY <1>10, <2>1, <2>2, FeeRespondedMakes DEF Kept
<1>11. CASE SurchargeResponded
  <2>1. CASE UNCHANGED calls
    BY <1>11, <2>1, PaidForQuietly DEF SurchargeResponded, Received, History
  <2>2. ASSUME NEW r, NEW tasks, Makes(r, tasks), NEW i \in History(Surcharge),
               r.order = Executed(row.order, responses[i].status), responses[i].status \in PaymentStatus
        PROVE  AllPaidFor'
    <3>1. PICK status \in PaymentStatus \cup {"NONE"} : status = responses[i].status
      BY <2>2
    <3>2. PICK o \in Order : o = row.order
      BY RowFields DEF Typed, TypeOK
    <3>3. /\ r.order.required = o.required
          /\ r.order.executed /\ o.required => o.executed \/ status = "SUCCEEDED"
      <4>1. PICK x : x = Executed(o, status)
        OBVIOUS
      <4>2. /\ x.required = o.required
            /\ o.required => (x.executed <=> o.executed \/ status = "SUCCEEDED")
        BY <4>1, ExecutedIs
      <4>3. r.order = x
        BY <2>2, <3>1, <3>2, <4>1
      <4> QED
        BY <4>2, <4>3
    <3>4. status = "SUCCEEDED" => Received(Surcharge)
      BY <3>1 DEF Received
    <3>5. o.executed /\ o.required => Received(Surcharge)
      BY <3>2 DEF AllPaidFor, PaidFor
    <3> QED
      BY <1>11, <2>2, <3>3, <3>4, <3>5, PaidForByMaking DEF SurchargeResponded
  <2> QED
    BY <1>11, <2>1, <2>2, SurchargeRespondedMakes DEF Surcharge
<1>12. CASE InitiateAutoAssignment
  <2>1. PICK r : Makes(r, {Plain("ticket")}) /\ r.order = row.order
    BY <1>12, InitiateAutoAssignmentMakes DEF Kept
  <2> QED
    BY <1>12, <2>1, PaidForByMaking DEF InitiateAutoAssignment, AllPaidFor
<1>13. ASSUME NEW c \in calls, Save(c) PROVE AllPaidFor'
  <2>1. PICK r \in Row : r = c.row
    BY DEF Typed, CallsTyped
  <2>2. row'.order = r.order
    BY <1>13, <2>1, MergedIs DEF Save
  <2>3. calls' \subseteq calls /\ Received(Surcharge)' = Received(Surcharge)
    BY <1>13 DEF Save, Received, History
  <2> QED
    BY <2>1, <2>2, <2>3 DEF AllPaidFor, PaidFor
<1>14. ASSUME NEW p \in Independent, Accept(p) PROVE AllPaidFor'
  BY <1>14, AcceptRewrites, PaidForQuietly DEF Accept, Rewritten, Received, History
<1>15. CASE Handle
  BY <1>15, HandleRewrites, PaidForQuietly DEF Handle, Rewritten, Received, History
<1>16. ASSUME UNCHANGED <<row, calls, responses>> PROVE AllPaidFor'
  BY <1>16, PaidForQuietly DEF Received, History
<1>17. CASE Refund \/ Ticket \/ CancelledOrRevoked \/ TimePasses \/ UNCHANGED vars
  BY <1>16, <1>17 DEF Refund, Ticket, CancelledOrRevoked, UpdateAppointments, TimePasses, vars
<1>18. ASSUME NEW p \in Independent \cup {NoAgent},
              Announce(p) \/ Rescheduled(p) \/ (p \in Independent /\ ReplacedOrFulfilled(p))
       PROVE  AllPaidFor'
  BY <1>16, <1>18 DEF Announce, Rescheduled, ReplacedOrFulfilled, UpdateAppointments
<1>19. ASSUME NEW reminder \in reminders, Remind(reminder) PROVE AllPaidFor'
  BY <1>16, <1>19 DEF Remind
<1> QED
  BY <1>1, <1>2, <1>3, <1>4, <1>5, <1>6, <1>7, <1>8, <1>9, <1>10, <1>11, <1>12, <1>13, <1>14, <1>15,
     <1>17, <1>18, <1>19 DEF Next, Requested, Deliver, Wait

\* An order against surcharge that counts as executed was paid for, whatever overlaps.
THEOREM SurchargeIsReceived == Spec => []SurchargeReceived
<1>1. Init => AllPaidFor
  <2> SUFFICES ASSUME Init PROVE AllPaidFor
    OBVIOUS
  <2>1. calls = {} /\ row.order = EmptyOrder
    BY DEF Init
  <2> QED
    BY <2>1 DEF AllPaidFor, PaidFor, EmptyOrder
<1>2. AllPaidFor => SurchargeReceived
  BY DEF AllPaidFor, PaidFor, SurchargeReceived, Surcharge
<1> QED
  BY <1>1, <1>2, PaidForStep, Typing, PTL DEF Spec
------------------------------------------------------------------------------
(* The calendar of the provider who lost the job *)

Freers == {"rescheduled", "announce", "replaced", "cancelled", "revoked", "fulfilled"}

\* Task k will take a, an ALLOCATED appointment, out of the calendar.
Frees(k, a) ==
  /\ k.name \in Freers
  /\ \/ k.name \in {"rescheduled", "announce"} /\ k.agent \in {NoAgent, a.dispatcher}
     \/ k.name = "replaced" /\ k.agent \in Independent \ {a.dispatcher}
     \/ k.name \in {"cancelled", "revoked"}
     \/ k.name = "fulfilled" /\ k.agent = a.dispatcher

Pending(k) == todo[k] > 0 \/ \E c \in calls : k \in c.then
Doomed(a)  == \E k \in Task : Frees(k, a) /\ Pending(k)

\* The appointment is one that a row of this content may have left in the calendar.
Fits(a, r) ==
  /\ r.order.executed /\ r.order.impacted \in {NoAgent, a.dispatcher} => a.start = r.start
  /\ r.service.dispatcher \in Independent => a.dispatcher = r.service.dispatcher

Calendar == \A a \in appointments :
              a.status = "ALLOCATED" => Doomed(a) \/ (Fits(a, row) /\ \A c \in calls : Fits(a, c.row))

\* What is going to free an appointment is not dropped.
Continues == \A k \in Task : k.name \in Freers /\ todo[k] > 0 => todo'[k] > 0

\* Publishing drops nothing.
LEMMA PublishContinues ==
  ASSUME Typed, NEW tasks, Publish(tasks)
  PROVE  Continues
<1>1. todo \in [Task -> Nat]
  BY DEF Typed, TypeOK
<1> QED
  BY <1>1, PublishIs DEF Continues

\* Nor does a task that frees nobody.
LEMMA TakeContinues ==
  ASSUME Typed, NEW k \in Task, Take(k), k.name \notin Freers
  PROVE  Continues
<1>1. todo \in [Task -> Nat]
  BY DEF Typed, TypeOK
<1> QED
  BY <1>1, TakeIs DEF Continues

\* A call that is made fits, or what it publishes frees.
LEMMA CalendarByMaking ==
  ASSUME Typed, Calendar, UNCHANGED <<row, appointments>>, Continues, NEW r, NEW tasks, Makes(r, tasks),
         \A a \in appointments : Fits(a, row) =>
            Fits(a, r) \/ \E k \in Task : Frees(k, a) /\ (k \in tasks \/ todo'[k] > 0)
  PROVE  Calendar'
<1> SUFFICES ASSUME NEW a \in appointments, a.status = "ALLOCATED", ~Doomed(a)'
             PROVE  Fits(a, row) /\ \A c \in calls' : Fits(a, c.row)
  BY DEF Calendar, Fits
<1>1. PICK d : d = [row |-> r, then |-> tasks]
  OBVIOUS
<1>2. d.row = r /\ d.then = tasks /\ calls' = calls \cup {d}
  BY <1>1 DEF Makes
<1>3. ~Doomed(a)
  BY <1>2 DEF Doomed, Pending, Continues, Frees
<1>4. Fits(a, row) /\ \A c \in calls : Fits(a, c.row)
  BY <1>3 DEF Calendar
<1>5. \A k \in Task : Frees(k, a) => k \notin tasks /\ ~(todo'[k] > 0)
  BY <1>2 DEF Doomed, Pending
<1> QED
  BY <1>2, <1>4, <1>5

\* A step that leaves calls, appointments, order, time and provider alone.
LEMMA CalendarQuietly ==
  ASSUME Typed, Calendar, UNCHANGED <<calls, appointments>>, Continues, NEW r \in Row, row' = r,
         r.order = row.order, r.start = row.start, r.service.dispatcher = row.service.dispatcher
  PROVE  Calendar'
<1> SUFFICES ASSUME NEW a \in appointments, a.status = "ALLOCATED", ~Doomed(a)'
             PROVE  Fits(a, row') /\ \A c \in calls : Fits(a, c.row)
  BY DEF Calendar
<1>1. ~Doomed(a)
  BY DEF Doomed, Pending, Continues, Frees
<1> QED
  BY <1>1 DEF Calendar, Fits

\* A handler that changes the status of what it frees.
LEMMA CalendarOfTables ==
  ASSUME Typed, Calendar, NEW k \in Task, NEW matching, matching \subseteq appointments, NEW status,
         status # "ALLOCATED", UpdateAppointments(k, matching, status),
         \A a \in appointments : Frees(k, a) => a \in matching
  PROVE  Calendar'
<1>1. /\ UNCHANGED <<row, calls>>
      /\ appointments' = (appointments \ matching) \cup {[a EXCEPT !.status = status] : a \in matching}
  BY DEF UpdateAppointments
<1>2. \A j \in Task : todo'[j] = IF j = k THEN todo[j] - 1 ELSE todo[j]
  BY TakeIs DEF UpdateAppointments, Typed, TypeOK
<1>3. ASSUME NEW a \in appointments', a.status = "ALLOCATED" PROVE a \in appointments /\ a \notin matching
  <2>1. ASSUME NEW b \in matching, a = [b EXCEPT !.status = status] PROVE FALSE
    <3>1. b \in Appointment
      BY DEF Typed, TypeOK
    <3>2. a.status = status
      BY <2>1, <3>1 DEF Appointment
    <3> QED
      BY <1>3, <3>2
  <2> QED
    BY <1>1, <1>3, <2>1
<1>4. ASSUME NEW a \in appointments', a.status = "ALLOCATED", Doomed(a) PROVE Doomed(a)'
  <2>1. PICK j \in Task : Frees(j, a) /\ Pending(j)
    BY <1>4 DEF Doomed
  <2>2. j # k
    BY <1>3, <1>4, <2>1
  <2> QED
    BY <1>1, <1>2, <2>1, <2>2 DEF Doomed, Pending
<1> QED
  BY <1>1, <1>3, <1>4 DEF Calendar

\* At rest nothing is going to free anything.
LEMMA QuietFits ==
  ASSUME Typed, Calendar, Quiet, NEW a \in appointments, a.status = "ALLOCATED"
  PROVE  calls = {} /\ Fits(a, row)
<1>1. calls = {} /\ \A k \in Task : todo[k] = 0
  BY DEF Quiet
<1> QED
  BY <1>1 DEF Calendar, Doomed, Pending

\* The steps that move the job: the provider of now is named by what is published.
LEMMA CalendarOfMoves ==
  ASSUME Typed, Calendar, NEW to \in Arrivals,
         RescheduleFree(to) \/ RescheduleAtSurcharge(to) \/ AdminChange(to)
  PROVE  Calendar'
<1> USE TaskTypes DEF TaskName
<1>0. \A p, a : a \in Appointment /\ p \in Independent \cup {NoAgent} /\ DispatcherIs(p) /\ Fits(a, row)
                  => p \in {NoAgent, a.dispatcher}
  BY DEF Fits, DispatcherIs
<1>1. CASE RescheduleFree(to)
  <2>1. PICK r, p : DispatcherIs(p) /\ Makes(r, {For("rescheduled", p), Plain("initiateAutoAssignment")})
    BY <1>1, RescheduleFreeMakes
  <2>2. PICK k \in Task : k = For("rescheduled", p) /\ k.name = "rescheduled" /\ k.agent = p
    BY <2>1 DEF DispatcherIs, For
  <2>3. \A a \in appointments : Fits(a, row) => Frees(k, a)
    BY <1>0, <2>1, <2>2 DEF Frees, Freers, Typed, TypeOK, DispatcherIs
  <2>4. UNCHANGED <<row, appointments>> /\ Continues
    BY <1>1 DEF RescheduleFree, tables, Continues
  <2> QED
    BY <2>1, <2>2, <2>3, <2>4, CalendarByMaking
<1>2. CASE RescheduleAtSurcharge(to)
  <2>1. PICK r : /\ Makes(r, {}) /\ r.order.executed = FALSE
                 /\ r.service.dispatcher = row.service.dispatcher
    BY <1>2, RescheduleAtSurchargeMakes
  <2>2. \A a \in appointments : Fits(a, row) => Fits(a, r)
    BY <2>1 DEF Fits
  <2>3. UNCHANGED <<row, appointments>> /\ Continues
    BY <1>2 DEF RescheduleAtSurcharge, tables, Continues
  <2> QED
    BY <2>1, <2>2, <2>3, CalendarByMaking
<1>3. CASE AdminChange(to)
  <2>1. PICK r, p : DispatcherIs(p) /\ Makes(r, {}) /\ Publish({For("announce", p)})
    BY <1>3, AdminChangeMakes
  <2>2. PICK k \in Task : k = For("announce", p) /\ k.name = "announce" /\ k.agent = p
    BY <2>1 DEF DispatcherIs, For
  <2>3. todo'[k] > 0
    <3>1. todo \in [Task -> Nat] /\ k \in {For("announce", p)}
      BY <2>2 DEF Typed, TypeOK
    <3>2. todo'[k] = todo[k] + 1
      BY <2>1, <3>1, PublishIs
    <3> QED
      BY <3>1, <3>2
  <2>4. \A a \in appointments : Fits(a, row) => Frees(k, a)
    BY <1>0, <2>1, <2>2 DEF Frees, Freers, Typed, TypeOK, DispatcherIs
  <2>5. UNCHANGED <<row, appointments>> /\ Continues
    BY <1>3, <2>1, PublishContinues DEF AdminChange, tables
  <2> QED
    BY <2>1, <2>3, <2>4, <2>5, CalendarByMaking
<1> QED
  BY <1>1, <1>2, <1>3
\* A provider named by an order that comes to count as executed is told of it.
LEMMA CalendarOfSurcharge ==
  ASSUME Typed, Calendar, SurchargeResponded
  PROVE  Calendar'
<1> USE DEF tables, after
<1>0. row \in Row
  BY DEF Typed, TypeOK
<1>1. Continues
  BY TaskTypes, TakeContinues DEF SurchargeResponded, Plain, For, Freers, TaskName
<1>2. CASE UNCHANGED calls
  BY <1>0, <1>1, <1>2, CalendarQuietly DEF SurchargeResponded
<1>3. ASSUME NEW r, NEW tasks, NEW i, r.order = Executed(row.order, responses[i].status),
             responses[i].status \in PaymentStatus, Makes(r, tasks),
             r.order.executed => For("rescheduled", row.order.impacted) \in tasks,
             r.service.dispatcher = NoAgent
      PROVE  Calendar'
  <2>1. PICK o \in Order, status \in PaymentStatus \cup {"NONE"} : o = row.order /\ status = responses[i].status
    BY <1>0, <1>3, RowFields
  <2>2. PICK x : x = Executed(o, status) /\ x = r.order
    BY <1>3, <2>1
  <2>3. x.impacted = o.impacted /\ o.impacted \in Independent \cup {NoAgent}
    BY <2>2, ExecutedFields
  <2>4. PICK k \in Task : k = For("rescheduled", o.impacted) /\ k.name = "rescheduled" /\ k.agent = o.impacted
    <3>1. For("rescheduled", o.impacted) \in Task
      BY <2>3, TaskTypes DEF TaskName
    <3> QED
      BY <3>1 DEF For
  <2>5. NoAgent \notin Independent
    BY ServiceAssumption DEF ServiceProvider
  <2>6. ASSUME NEW a \in appointments PROVE Fits(a, r) \/ (Frees(k, a) /\ k \in tasks)
    BY <1>3, <2>1, <2>2, <2>3, <2>4, <2>5 DEF Fits, Frees, Freers
  <2> QED
    BY <1>1, <1>3, <2>6, CalendarByMaking DEF SurchargeResponded
<1> QED
  BY <1>2, <1>3, SurchargeRespondedMakes

\* The steps about money, rating and restart.
LEMMA CalendarOfMoney ==
  ASSUME Typed, Calendar,
         \/ CancelByCustomer \/ Fail \/ Refund \/ InsertRefund
         \/ \E rating \in FeedbackResponse : Rate(rating)
         \/ FeeResponded \/ SurchargeResponded \/ InitiateAutoAssignment
  PROVE  Calendar'
<1> USE TaskTypes DEF TaskName
<1> USE DEF tables, after
<1>0. row \in Row
  BY DEF Typed, TypeOK
<1>1. CASE CancelByCustomer
  <2>1. PICK r : Makes(r, {Plain("cancelled")})
    BY <1>1, CancelByCustomerMakes
  <2>2. PICK k \in Task : k = Plain("cancelled") /\ k.name = "cancelled"
    BY DEF Plain, For
  <2>3. \A a \in appointments : Frees(k, a)
    BY <2>2 DEF Frees, Freers
  <2> QED
    BY <1>1, <2>1, <2>2, <2>3, CalendarByMaking DEF CancelByCustomer, Continues
<1>2. CASE Fail
  <2>1. PICK r : Makes(r, {Plain("revoked")})
    BY <1>2, FailMakes
  <2>2. PICK k \in Task : k = Plain("revoked") /\ k.name = "revoked"
    BY DEF Plain, For
  <2>3. \A a \in appointments : Frees(k, a)
    BY <2>2 DEF Frees, Freers
  <2> QED
    BY <1>2, <2>1, <2>2, <2>3, CalendarByMaking DEF Fail, Continues
<1>3. CASE Refund
  BY <1>0, <1>3, PublishContinues, CalendarQuietly DEF Refund
<1>4. CASE InsertRefund
  <2>1. Continues
    BY <1>4, TakeContinues DEF InsertRefund, Plain, For, Freers
  <2>2. CASE UNCHANGED calls
    BY <1>0, <1>4, <2>1, <2>2, CalendarQuietly DEF InsertRefund
  <2>3. ASSUME NEW r, Makes(r, {}), r.order = row.order, r.start = row.start,
               r.service.dispatcher = row.service.dispatcher
        PROVE  Calendar'
    <3>1. \A a \in appointments : Fits(a, row) => Fits(a, r)
      BY <2>3 DEF Fits
    <3> QED
      BY <1>4, <2>1, <2>3, <3>1, CalendarByMaking DEF InsertRefund
  <2> QED
    BY <1>4, <2>2, <2>3, InsertRefundMakes
<1>5. ASSUME NEW rating \in FeedbackResponse, Rate(rating) PROVE Calendar'
  <2>1. PICK r : /\ Makes(r, {}) /\ r.order = row.order /\ r.start = row.start
                 /\ r.service.dispatcher = row.service.dispatcher
    BY <1>5, RateMakes
  <2>2. \A a \in appointments : Fits(a, row) => Fits(a, r)
    BY <2>1 DEF Fits
  <2> QED
    BY <1>5, <2>1, <2>2, CalendarByMaking DEF Rate, Continues
<1>6. CASE FeeResponded
  <2>1. Continues
    BY <1>6, TakeContinues DEF FeeResponded, Plain, For, Freers
  <2>2. CASE UNCHANGED calls
    BY <1>0, <1>6, <2>1, <2>2, CalendarQuietly DEF FeeResponded
  <2>3. ASSUME NEW r, NEW tasks, Makes(r, tasks), Kept(r), r.service.dispatcher = row.service.dispatcher
        PROVE  Calendar'
    <3>1. \A a \in appointments : Fits(a, row) => Fits(a, r)
      BY <2>3 DEF Fits, Kept
    <3> QED
      BY <1>6, <2>1, <2>3, <3>1, CalendarByMaking DEF FeeResponded
  <2> QED
    BY <1>6, <2>2, <2>3, FeeRespondedMakes
<1>7. CASE SurchargeResponded
  BY <1>7, CalendarOfSurcharge
<1>8. CASE InitiateAutoAssignment
  <2>1. PICK r : Makes(r, {Plain("ticket")}) /\ Kept(r) /\ r.service.dispatcher = Unset
    BY <1>8, InitiateAutoAssignmentMakes
  <2>2. Unset \notin Independent
    BY ServiceAssumption DEF ServiceProvider
  <2>3. \A a \in appointments : Fits(a, row) => Fits(a, r)
    BY <2>1, <2>2 DEF Fits, Kept
  <2>4. Continues
    BY <1>8, TakeContinues DEF InitiateAutoAssignment, Plain, For, Freers
  <2> QED
    BY <1>8, <2>1, <2>3, <2>4, CalendarByMaking DEF InitiateAutoAssignment
<1> QED
  BY <1>1, <1>2, <1>3, <1>4, <1>5, <1>6, <1>7, <1>8

\* The handlers of the events change the status of every appointment their task frees.
LEMMA CalendarOfHandlers ==
  ASSUME Typed, Calendar,
         \/ Ticket
         \/ \E p \in Independent \cup {NoAgent} : Announce(p) \/ Rescheduled(p)
         \/ CancelledOrRevoked
         \/ \E p \in Independent : ReplacedOrFulfilled(p)
  PROVE  Calendar'
<1> USE TaskTypes DEF TaskName
<1> USE DEF tables, after
<1>0. row \in Row /\ appointments \subseteq Appointment /\ todo \in [Task -> Nat]
  BY DEF Typed, TypeOK
<1>1. CASE Ticket
  BY <1>0, <1>1, TakeContinues, CalendarQuietly DEF Ticket, Plain, For, Freers
<1>2. ASSUME NEW p \in Independent \cup {NoAgent}, Announce(p) PROVE Calendar'
  <2>1. PICK k \in Task, j \in Task : /\ k = For("announce", p) /\ k.name = "announce" /\ k.agent = p
                                      /\ j = For("rescheduled", p) /\ j.name = "rescheduled" /\ j.agent = p
    BY DEF For
  <2>2. PICK tasks : tasks = {j, Plain("initiateAutoAssignment")} /\ k \notin tasks /\ j \in tasks
    BY <2>1 DEF Plain, For
  <2>3. TakeAndPublish(k, tasks)
    BY <1>2, <2>1, <2>2 DEF Announce
  <2>4. \A i \in Task : todo'[i] = IF i = k THEN todo[i] - 1
                                   ELSE IF i \in tasks THEN todo[i] + 1 ELSE todo[i]
    BY <1>0, <2>2, <2>3, TakeAndPublishIs
  <2>5. UNCHANGED <<row, calls, appointments>>
    BY <1>2 DEF Announce
  <2>6. ASSUME NEW a \in appointments, Doomed(a) PROVE Doomed(a)'
    <3>1. PICK i \in Task : Frees(i, a) /\ Pending(i)
      BY <2>6 DEF Doomed
    <3>2. CASE i = k
      <4>1. Frees(j, a)
        BY <2>1, <3>1, <3>2 DEF Frees, Freers
      <4>2. todo'[j] > 0
        BY <1>0, <2>1, <2>2, <2>4
      <4> QED
        BY <4>1, <4>2 DEF Doomed, Pending
    <3>3. CASE i # k
      <4>1. Pending(i)'
        BY <1>0, <2>4, <2>5, <3>1, <3>3 DEF Pending
      <4> QED
        BY <3>1, <4>1 DEF Doomed
    <3> QED
      BY <3>2, <3>3
  <2> QED
    BY <2>5, <2>6 DEF Calendar
<1>3. ASSUME NEW p \in Independent \cup {NoAgent}, Rescheduled(p) PROVE Calendar'
  <2>1. PICK k \in Task : k = For("rescheduled", p) /\ k.name = "rescheduled" /\ k.agent = p
    BY DEF For
  <2>2. PICK matching : matching = IF p = NoAgent THEN appointments ELSE Of(p)
    OBVIOUS
  <2>3. matching \subseteq appointments /\ \A a \in appointments : Frees(k, a) => a \in matching
    BY <2>1, <2>2 DEF Frees, Of
  <2> QED
    BY <1>3, <2>1, <2>2, <2>3, CalendarOfTables DEF Rescheduled
<1>4. CASE CancelledOrRevoked
  BY <1>4, CalendarOfTables DEF CancelledOrRevoked
<1>5. ASSUME NEW p \in Independent, UpdateAppointments(For("replaced", p), appointments \ Of(p), "REPLACED")
      PROVE  Calendar'
  <2>0. For("replaced", p) \in Task
    BY TaskTypes
  <2>1. PICK k \in Task : k = For("replaced", p) /\ k.name = "replaced" /\ k.agent = p
    BY <2>0 DEF For
  <2>2. \A a \in appointments : Frees(k, a) => a \in appointments \ Of(p)
    BY <2>1 DEF Frees, Of
  <2> QED
    BY <1>5, <2>1, <2>2, CalendarOfTables
<1>6. ASSUME NEW p \in Independent, UpdateAppointments(For("fulfilled", p), Of(p), "FULFILLED")
      PROVE  Calendar'
  <2>0. For("fulfilled", p) \in Task
    BY TaskTypes
  <2>1. PICK k \in Task : k = For("fulfilled", p) /\ k.name = "fulfilled" /\ k.agent = p
    BY <2>0 DEF For
  <2>2. \A a \in appointments : Frees(k, a) => a \in Of(p)
    BY <2>1 DEF Frees, Of
  <2>3. Of(p) \subseteq appointments
    BY DEF Of
  <2> QED
    BY <1>6, <2>1, <2>2, <2>3, CalendarOfTables
<1> QED
  BY <1>1, <1>2, <1>3, <1>4, <1>5, <1>6 DEF ReplacedOrFulfilled

\* A save: its row fits, and so does the row it is merged into.
LEMMA CalendarOfSave ==
  ASSUME Typed, Calendar, NEW c \in calls, Save(c)
  PROVE  Calendar'
<1>1. PICK r \in Row : r = c.row /\ c.then \subseteq Task
  BY DEF Typed, CallsTyped
<1>2. PICK m : m = Merged(r) /\ row' = m /\ m.order = r.order /\ m.start = r.start
               /\ m.service.dispatcher = Or(r.service.dispatcher, Unset, row.service.dispatcher)
  BY <1>1, MergedIs DEF Save
<1>3. /\ calls' = calls \ {c} /\ appointments' = appointments
      /\ \A k \in Task : todo'[k] = IF k \in c.then THEN todo[k] + 1 ELSE todo[k]
  BY PublishIs DEF Save, tables, Typed, TypeOK
<1>4. ASSUME NEW a, Doomed(a) PROVE Doomed(a)'
  <2>1. PICK k \in Task : Frees(k, a) /\ Pending(k)
    BY <1>4 DEF Doomed
  <2>2. todo[k] \in Nat
    BY DEF Typed, TypeOK
  <2>3. Pending(k)'
    BY <1>3, <2>1, <2>2 DEF Pending
  <2> QED
    BY <2>1, <2>3 DEF Doomed
<1>5. ASSUME NEW a, Fits(a, row), Fits(a, r) PROVE Fits(a, m)
  BY <1>2, <1>5 DEF Fits, Or
<1> QED
  BY <1>1, <1>2, <1>3, <1>4, <1>5 DEF Calendar

\* A job is taken when nothing else is going on.
LEMMA CalendarOfAccept ==
  ASSUME Typed, Calendar, Quiet, NEW p \in Independent, Accept(p)
  PROVE  Calendar'
<1>1. PICK r : row' = r /\ Rewritten(r) /\ r.service.dispatcher = p
  BY AcceptRewrites
<1>2. PICK b : b = [dispatcher |-> p, start |-> row.start, status |-> "ALLOCATED"]
  OBVIOUS
<1>3. b.dispatcher = p /\ b.start = row.start /\ appointments' = appointments \cup {b}
  BY <1>2 DEF Accept
<1>4. PICK k \in Task : k = For("replaced", p) /\ k.name = "replaced" /\ k.agent = p
  <2>1. For("replaced", p) \in Task
    BY TaskTypes DEF TaskName
  <2> QED
    BY <2>1 DEF For
<1>5. todo'[k] > 0
  <2>1. todo \in [Task -> Nat] /\ k \in {For("replaced", p)} /\ Publish({For("replaced", p)})
    BY <1>4 DEF Typed, TypeOK, Accept
  <2>2. todo'[k] = todo[k] + 1
    BY <2>1, PublishIs
  <2> QED
    BY <2>1, <2>2
<1>6. calls' = {}
  BY DEF Quiet, Accept
<1>8. Fits(b, r)
  BY <1>1, <1>3 DEF Fits, Rewritten
<1>9. ASSUME NEW a \in appointments, a.status = "ALLOCATED" PROVE Doomed(a)' \/ Fits(a, r)
  <2>1. Fits(a, row)
    BY <1>9, QuietFits
  <2>2. CASE a.dispatcher = p
    BY <1>1, <2>1, <2>2 DEF Fits, Rewritten
  <2>3. CASE a.dispatcher # p
    <3>1. Frees(k, a)
      BY <1>4, <2>3 DEF Frees, Freers
    <3> QED
      BY <1>5, <3>1 DEF Doomed, Pending
  <2> QED
    BY <2>2, <2>3
<1> QED
  BY <1>1, <1>3, <1>6, <1>8, <1>9 DEF Calendar

\* Every step keeps the calendar, when requests do not overlap.
LEMMA CalendarStep == Serial /\ Typed /\ Calendar /\ [Next]_vars => Calendar'
<1> SUFFICES ASSUME Serial, Typed, Calendar, [Next]_vars PROVE Calendar'
  OBVIOUS
<1> USE DEF tables
<1>0. row \in Row
  BY DEF Typed, TypeOK
<1>1. ASSUME NEW purpose \in Purpose, NEW status \in AnswerStatus, Pay(purpose, status) PROVE Calendar'
  BY <1>0, <1>1, PublishContinues, CalendarQuietly DEF Pay
<1>2. ASSUME NEW i \in DOMAIN responses, NEW status \in AnswerStatus, Webhook(i, status) PROVE Calendar'
  BY <1>0, <1>2, PublishContinues, CalendarQuietly DEF Webhook
<1>3. ASSUME NEW p \in Independent, Accept(p) PROVE Calendar'
  <2>1. Quiet
    BY <1>3 DEF Accept, Request
  <2> QED
    BY <1>3, <2>1, CalendarOfAccept
<1>4. CASE Handle
  <2>1. PICK r : row' = r /\ Rewritten(r) /\ r.service.dispatcher = row.service.dispatcher
    BY <1>4, HandleRewrites
  <2>2. Continues
    BY <1>4, PublishContinues DEF Handle
  <2> QED
    BY <1>4, <2>1, <2>2, CalendarQuietly DEF Handle, Rewritten
<1>5. CASE TimePasses \/ UNCHANGED vars \/ \E reminder \in reminders : Remind(reminder)
  BY <1>0, <1>5, CalendarQuietly DEF TimePasses, vars, Remind, Continues
<1> QED
  BY <1>1, <1>2, <1>3, <1>4, <1>5, CalendarOfMoves, CalendarOfMoney, CalendarOfHandlers, CalendarOfSave
     DEF Next, Requested, Deliver, Wait

\* At rest, the provider who lost the job through an executed order keeps no appointment
\* at another time than the job's.
THEOREM ImpactedIsFreedInTime ==
  ASSUME Serial
  PROVE  Spec => []ImpactedIsFreed
<1>1. Init => Calendar
  BY DEF Init, Calendar
<1>2. Typed /\ Calendar => ImpactedIsFreed
  BY QuietFits DEF ImpactedIsFreed, Fits
<1>3. Typed /\ Calendar /\ [Next]_vars => Calendar'
  BY CalendarStep
<1> QED
  BY <1>1, <1>2, <1>3, Typing, PTL DEF Spec
------------------------------------------------------------------------------
(* What the request remembers, one request at a time *)

\* What is to do only while no call is in progress and nothing else is to do.
Exclusive == {Plain("surchargeResponded"), Plain("insertRefund")}

Idle     == \A k \in Task : todo[k] = 0
Alone(k) == calls = {} /\ todo[k] = 1 /\ \A j \in Task : j # k => todo[j] = 0

\* A save of r changes neither order nor rating nor the refund.
Agrees(r) == r.order = row.order /\ r.rating = row.rating /\ r.refunded \in {"UNSET", row.refunded}

LastPaid == \E i \in History(Surcharge) :
              responses[i].status = "SUCCEEDED" /\ \A j \in History(Surcharge) : j <= i

\* What r leaves in the row agrees with refunds, feedback, payments and reminders.
Refunded(r) == Or(r.refunded, "UNSET", row.refunded) = "YES" <=> refunds = 1
Rated(r)    == r.rating = IF feedbacks = <<>> THEN Unrated ELSE feedbacks[Len(feedbacks)]
Executes(r) == ~Multiple /\ LastPaid /\ todo[Plain("surchargeResponded")] = 0 => r.order.executed
Succeeds(r) == r.order.required /\ r.order.paid = "SUCCEEDED" => r.order.executed
Reminds(r)  == ~r.order.required => \/ \E reminder \in reminders : reminder.start = r.order.to
                                    \/ Surcharge \notin pages /\ ~r.order.executed
Remembered(r) == Refunded(r) /\ Rated(r) /\ Executes(r) /\ Succeeds(r) /\ Reminds(r)

AllAgree == Remembered(row) /\ \A c \in calls : Agrees(c.row)
OneDiffers == Idle /\ \E c : calls = {c} /\ Remembered(c.row)

Settled ==
  /\ \A k \in Exclusive : todo[k] > 0 => Alone(k)
  /\ AllAgree \/ OneDiffers
  /\ refunds \in {0, 1}
  /\ History(Surcharge) # {} => Surcharge \in pages

\* Which tasks are exclusive.
LEMMA ExclusiveTasks ==
  /\ Exclusive \subseteq Task /\ Exclusive \subseteq Started
  /\ Plain("surchargeResponded") \in Exclusive /\ Plain("insertRefund") \in Exclusive
  /\ \A name \in TaskName \ {"surchargeResponded", "insertRefund"} :
       Plain(name) \notin Exclusive /\ \A p : For(name, p) \notin Exclusive
BY TaskTypes DEF Exclusive, Started, Answers, Responded, Purpose, Plain, For, TaskName

\* While something else is to do, or nothing at all, all calls agree with the row.
LEMMA TakenAgrees ==
  ASSUME Typed, Settled, NEW k \in Task, k \notin Exclusive, todo[k] > 0
  PROVE  AllAgree /\ \A j \in Exclusive : todo[j] = 0
<1>1. todo \in [Task -> Nat] /\ Exclusive \subseteq Task
  BY ExclusiveTasks DEF Typed, TypeOK
<1>2. ~Idle
  BY DEF Idle
<1>3. ASSUME NEW j \in Exclusive PROVE todo[j] = 0
  BY <1>1 DEF Settled, Alone
<1> QED
  BY <1>2, <1>3 DEF Settled, OneDiffers

\* At rest there is no call.
LEMMA QuietAgrees ==
  ASSUME Typed, Settled, Quiet
  PROVE  AllAgree /\ Idle /\ calls = {}
BY DEF Quiet, Settled, OneDiffers, Idle

\* While an exclusive task is to do there is no call either.
LEMMA AloneAgrees ==
  ASSUME Typed, Settled, NEW k \in Exclusive, todo[k] > 0
  PROVE  AllAgree /\ Alone(k)
BY ExclusiveTasks DEF Settled, OneDiffers, Idle

\* A step that writes none of what is remembered.
LEMMA RememberedStays ==
  ASSUME Typed, NEW r, Remembered(r), row'.refunded = row.refunded,
         UNCHANGED <<refunds, feedbacks, responses, pages>>,
         \A q \in reminders : \E u \in reminders' : u.start = q.start,
         todo'[Plain("surchargeResponded")] = 0 => todo[Plain("surchargeResponded")] = 0
  PROVE  Remembered(r)'
<1>1. LastPaid' = LastPaid
  BY DEF LastPaid, History
<1>2. Executes(r)' /\ Succeeds(r)'
  BY <1>1 DEF Remembered, Executes, Succeeds
<1>3. Reminds(r)'
  BY DEF Remembered, Reminds
<1> QED
  BY <1>2, <1>3 DEF Remembered, Refunded, Rated

\* The same for a row that is the same in what is remembered.
LEMMA RememberedAlike ==
  ASSUME NEW r, NEW s, Remembered(r), s.order = r.order, s.rating = r.rating,
         Or(s.refunded, "UNSET", row.refunded) = Or(r.refunded, "UNSET", row.refunded)
  PROVE  Remembered(s)
BY DEF Remembered, Refunded, Rated, Executes, Succeeds, Reminds

\* A step of the calls that agree.
LEMMA AgreeingStep ==
  ASSUME Typed, Settled, AllAgree,
         row'.order = row.order, row'.rating = row.rating, row'.refunded = row.refunded,
         UNCHANGED <<refunds, feedbacks, responses, pages>>,
         \A q \in reminders : \E u \in reminders' : u.start = q.start,
         \A c \in calls' : c \in calls \/ Agrees(c.row),
         \A k \in Exclusive : todo[k] = 0 /\ todo'[k] = 0
  PROVE  Settled'
<1>1. Remembered(row)
  BY DEF AllAgree
<1>2. Remembered(row)'
  <2>1. PICK r, s : r = row /\ s = row'
    OBVIOUS
  <2>2. Remembered(r)'
    BY <1>1, <2>1, RememberedStays, ExclusiveTasks
  <2>3. Remembered(s)'
    <3>1. /\ s.order = r.order /\ s.rating = r.rating /\ s.refunded = r.refunded
      BY <2>1
    <3> QED
      BY <2>2, <3>1 DEF Remembered, Refunded, Rated, Executes, Succeeds, Reminds
  <2> QED
    BY <2>1, <2>3 DEF Remembered, Refunded, Rated, Executes, Succeeds, Reminds
<1>3. \A c \in calls' : Agrees(c.row)'
  BY DEF AllAgree, Agrees
<1>4. History(Surcharge)' = History(Surcharge)
  BY DEF History
<1> QED
  BY <1>2, <1>3, <1>4 DEF Settled, AllAgree

\* A step that leaves calls, row and what is to do alone.
LEMMA SettledStays ==
  ASSUME Typed, Settled, UNCHANGED <<row, calls, todo, refunds, feedbacks, responses, pages>>,
         \A q \in reminders : \E u \in reminders' : u.start = q.start
  PROVE  Settled'
<1>1. \A r : Remembered(r) => Remembered(r)'
  BY RememberedStays
<1>2. AllAgree => AllAgree'
  <2>1. PICK r : r = row
    OBVIOUS
  <2>2. Remembered(r) => Remembered(r)'
    BY <1>1
  <2> QED
    BY <2>1, <2>2 DEF AllAgree, Agrees, Remembered, Refunded, Rated, Executes, Succeeds, Reminds
<1>3. OneDiffers => OneDiffers'
  BY <1>1 DEF OneDiffers, Idle
<1>4. History(Surcharge)' = History(Surcharge)
  BY DEF History
<1> QED
  BY <1>2, <1>3, <1>4 DEF Settled, Alone

\* The one call in progress saves something new.
LEMMA DifferingStep ==
  ASSUME Typed, Settled, calls = {}, Idle', NEW r, NEW tasks, Makes(r, tasks), Remembered(r)',
         refunds' \in {0, 1}, History(Surcharge)' # {} => Surcharge \in pages'
  PROVE  Settled'
<1>1. PICK c : c = [row |-> r, then |-> tasks]
  OBVIOUS
<1>2. calls' = {c} /\ c.row = r
  BY <1>1 DEF Makes
<1>3. Remembered(c.row)'
  BY <1>2
<1>4. \A k \in Exclusive : ~(todo'[k] > 0)
  BY ExclusiveTasks DEF Idle
<1> QED
  BY <1>2, <1>3, <1>4 DEF Settled, OneDiffers
\* Of the tasks that are Exclusive only the one is left, or none.
LEMMA PublishSparing ==
  ASSUME Typed, Idle, NEW tasks, Publish(tasks)
  PROVE  \A k \in Task : todo'[k] = IF k \in tasks THEN 1 ELSE 0
BY PublishIs DEF Idle, Typed, TypeOK

\* Another task taken leaves no exclusive one to do.
LEMMA TakeSparing ==
  ASSUME Typed, NEW k \in Task, Take(k), \A j \in Exclusive : todo[j] = 0
  PROVE  k \notin Exclusive /\ \A j \in Exclusive : todo'[j] = 0
<1>1. todo \in [Task -> Nat] /\ Exclusive \subseteq Task
  BY ExclusiveTasks DEF Typed, TypeOK
<1> QED
  BY <1>1, TakeIs DEF Take

\* After the one task nothing is to do.
LEMMA TakeAlone ==
  ASSUME Typed, NEW k \in Task, Alone(k), Take(k)
  PROVE  Idle'
<1>1. todo \in [Task -> Nat]
  BY DEF Typed, TypeOK
<1> QED
  BY <1>1, TakeIs DEF Alone, Idle

\* The steps that move the job.
LEMMA SettledByMoves ==
  ASSUME Typed, Settled, Quiet, NEW to \in Arrivals,
         RescheduleFree(to) \/ RescheduleAtSurcharge(to) \/ AdminChange(to)
  PROVE  Settled'
<1> USE TaskTypes, ExclusiveTasks DEF TaskName
<1>0. AllAgree /\ Idle /\ calls = {} /\ Remembered(row) /\ row.refunded # "UNSET"
  BY QuietAgrees DEF AllAgree, Typed, TypeOK
<1>1. CASE RescheduleFree(to)
  <2>1. PICK r, p : /\ Makes(r, {For("rescheduled", p), Plain("initiateAutoAssignment")})
                    /\ r.order.to = to /\ ~r.order.required /\ r.order.executed = TRUE
                    /\ r.rating = row.rating /\ r.refunded = "UNSET"
    BY <1>1, RescheduleFreeMakes
  <2>2. UNCHANGED <<row, refunds, feedbacks, todo, responses, pages>>
    BY <1>1 DEF RescheduleFree, after, gateway
  <2>3. \E reminder \in reminders' : reminder.start = to
    <3>1. PICK d \in RemindBefore : TRUE
      BY RescheduleAssumption
    <3>2. PICK q : q = [start |-> to, due |-> to - d, outcome |-> "waiting"]
      OBVIOUS
    <3>3. q \in reminders' /\ q.start = to
      BY <1>1, <3>2 DEF RescheduleFree, AddToReminders, RemindersFor
    <3> QED
      BY <3>3
  <2>4. Refunded(r)' /\ Rated(r)' /\ Executes(r)' /\ Succeeds(r)' /\ Reminds(r)'
    BY <1>0, <2>1, <2>2, <2>3 DEF Remembered, Refunded, Rated, Executes, Succeeds, Reminds, Or
  <2>5. refunds' \in {0, 1} /\ (History(Surcharge)' # {} => Surcharge \in pages') /\ Idle'
    BY <1>0, <2>2 DEF Settled, History, Idle
  <2> QED
    BY <1>0, <2>1, <2>4, <2>5, DifferingStep DEF Remembered
<1>2. CASE RescheduleAtSurcharge(to)
  <2>1. PICK r : /\ Makes(r, {})
                 /\ r.order.required /\ r.order.executed = FALSE /\ r.order.paid = "AWAITING_PAYMENT"
                 /\ r.rating = row.rating /\ r.refunded = row.refunded
    BY <1>2, RescheduleAtSurchargeMakes
  <2>2. UNCHANGED <<row, refunds, feedbacks, todo, responses, reminders>> /\ pages' = pages \cup {Surcharge}
    BY <1>2 DEF RescheduleAtSurcharge, after, HandOut, Surcharge
  <2>3. ~Multiple => ~row.order.executed
    <3>1. PICK l : l = Loaded /\ l.order = row.order
      BY LoadedIs
    <3>2. AllowReschedule(l)
      BY <1>2, <3>1 DEF RescheduleAtSurcharge, Fileable
    <3> QED
      BY <3>1, <3>2 DEF AllowReschedule
  <2>4. LastPaid' = LastPaid
    BY <2>2 DEF LastPaid, History
  <2>5. ~Multiple => ~LastPaid
    BY <1>0, <2>3 DEF Remembered, Executes, Idle
  <2>6. Refunded(r)' /\ Rated(r)' /\ Executes(r)' /\ Succeeds(r)' /\ Reminds(r)'
    BY <1>0, <2>1, <2>2, <2>4, <2>5 DEF Remembered, Refunded, Rated, Executes, Succeeds, Reminds, Or
  <2>7. refunds' \in {0, 1} /\ Surcharge \in pages' /\ Idle'
    BY <1>0, <2>2 DEF Settled, Idle
  <2> QED
    BY <1>0, <2>1, <2>6, <2>7, DifferingStep DEF Remembered
<1>3. CASE AdminChange(to)
  <2>1. PICK r, p : /\ Publish({For("announce", p)}) /\ Makes(r, {})
                    /\ r.order = row.order /\ r.rating = row.rating /\ r.refunded = "UNSET"
    BY <1>3, AdminChangeMakes
  <2>2. \A c \in calls' : Agrees(c.row)
    BY <1>0, <2>1 DEF Makes, Agrees
  <2>3. \A k \in Exclusive : todo[k] = 0 /\ todo'[k] = 0
    <3>1. For("announce", p) \notin Exclusive
      OBVIOUS
    <3> QED
      BY <1>0, <2>1, <3>1, PublishSparing DEF Idle
  <2> QED
    BY <1>0, <1>3, <2>2, <2>3, AgreeingStep DEF AdminChange, after, gateway
<1> QED
  BY <1>1, <1>2, <1>3

\* The other requests but the answers of the gateway.
LEMMA SettledByRequests ==
  ASSUME Typed, Settled, Quiet,
         \/ CancelByCustomer \/ Fail \/ Refund
         \/ \E rating \in FeedbackResponse : Rate(rating)
         \/ \E p \in Independent : Accept(p)
         \/ Handle
  PROVE  Settled'
<1> USE TaskTypes, ExclusiveTasks DEF TaskName
<1> USE DEF tables, after, gateway
<1>0. AllAgree /\ Idle /\ calls = {} /\ Remembered(row) /\ row.refunded # "UNSET"
      /\ \A k \in Exclusive : todo[k] = 0
  BY QuietAgrees DEF AllAgree, Typed, TypeOK, Idle
<1>1. CASE CancelByCustomer
  <2>1. PICK r : Makes(r, {Plain("cancelled")}) /\ Kept(r)
    BY <1>1, CancelByCustomerMakes
  <2>2. \A c \in calls' : Agrees(c.row)
    BY <1>0, <2>1 DEF Makes, Agrees, Kept
  <2> QED
    BY <1>0, <1>1, <2>2, AgreeingStep DEF CancelByCustomer
<1>2. CASE Fail
  <2>1. PICK r : Makes(r, {Plain("revoked")}) /\ Kept(r)
    BY <1>2, FailMakes
  <2>2. \A c \in calls' : Agrees(c.row)
    BY <1>0, <2>1 DEF Makes, Agrees, Kept
  <2> QED
    BY <1>0, <1>2, <2>2, AgreeingStep DEF Fail
<1>3. CASE Refund
  <2>1. PICK k \in Exclusive : k = Plain("insertRefund") /\ k # Plain("surchargeResponded")
    BY DEF Plain, For
  <2>2. \A j \in Task : todo'[j] = IF j = k THEN 1 ELSE 0
    BY <1>0, <1>3, <2>1, PublishSparing DEF Refund
  <2>3. UNCHANGED <<row, calls, refunds, feedbacks, responses, pages, reminders>>
    BY <1>3 DEF Refund
  <2>4. \A j \in Exclusive : todo'[j] > 0 => Alone(j)'
    BY <1>0, <2>1, <2>2, <2>3 DEF Alone
  <2>5. LastPaid' = LastPaid /\ History(Surcharge)' = History(Surcharge)
    BY <2>3 DEF LastPaid, History
  <2>6. Refunded(row)' /\ Rated(row)' /\ Executes(row)' /\ Succeeds(row)' /\ Reminds(row)'
    BY <1>0, <2>3, <2>5 DEF Remembered, Refunded, Rated, Executes, Succeeds, Reminds
  <2> QED
    BY <1>0, <2>3, <2>4, <2>5, <2>6 DEF Settled, AllAgree, Remembered
<1>4. ASSUME NEW rating \in FeedbackResponse, Rate(rating) PROVE Settled'
  <2>1. PICK r : /\ Makes(r, {}) /\ r.order = row.order /\ r.rating = rating
                 /\ r.refunded = row.refunded
    BY <1>4, RateMakes
  <2>2. UNCHANGED <<row, refunds, todo, responses, pages, reminders>> /\ feedbacks' = Append(feedbacks, rating)
    BY <1>4 DEF Rate
  <2>3. feedbacks \in Seq(FeedbackResponse)
    BY DEF Typed, TypeOK
  <2>4. feedbacks' # <<>> /\ feedbacks'[Len(feedbacks')] = rating
    BY <2>2, <2>3
  <2>5. LastPaid' = LastPaid /\ History(Surcharge)' = History(Surcharge)
    BY <2>2 DEF LastPaid, History
  <2>6. Rated(r)'
    BY <2>1, <2>4 DEF Rated
  <2>7. Refunded(r)' /\ Executes(r)' /\ Succeeds(r)' /\ Reminds(r)'
    BY <1>0, <2>1, <2>2, <2>5 DEF Remembered, Refunded, Executes, Succeeds, Reminds
  <2>8. refunds' \in {0, 1} /\ (History(Surcharge)' # {} => Surcharge \in pages') /\ Idle'
    BY <1>0, <2>2, <2>5 DEF Settled, Idle
  <2> QED
    BY <1>0, <2>1, <2>6, <2>7, <2>8, DifferingStep DEF Remembered
<1>5. ASSUME NEW p \in Independent, Accept(p) PROVE Settled'
  <2>1. PICK r : row' = r /\ Rewritten(r)
    BY <1>5, AcceptRewrites
  <2>2. \A k \in Exclusive : todo'[k] = 0
    <3>1. PICK k : k = For("replaced", p) /\ k \notin Exclusive
      OBVIOUS
    <3>2. Publish({k})
      BY <1>5, <3>1 DEF Accept
    <3> QED
      BY <1>0, <3>1, <3>2, PublishSparing
  <2> QED
    BY <1>0, <1>5, <2>1, <2>2, AgreeingStep DEF Accept, Rewritten
<1>6. CASE Handle
  <2>1. PICK r : row' = r /\ Rewritten(r)
    BY <1>6, HandleRewrites
  <2>2. PICK tasks : Publish(tasks) /\ tasks \cap Exclusive = {}
    <3>1. \A p : For("fulfilled", p) \notin Exclusive
      OBVIOUS
    <3> QED
      BY <1>6, <3>1 DEF Handle
  <2>3. \A k \in Exclusive : todo'[k] = 0
    BY <1>0, <2>2, PublishSparing
  <2> QED
    BY <1>0, <1>6, <2>1, <2>3, AgreeingStep DEF Handle, Rewritten
<1> QED
  BY <1>1, <1>2, <1>3, <1>4, <1>5, <1>6
\* An answer about the surcharge is alone until it is handled; one about the fee
\* changes nothing that is remembered.
LEMMA SettledByAnswers ==
  ASSUME Typed, Settled, Quiet,
         \/ \E purpose \in Purpose, status \in AnswerStatus : Pay(purpose, status)
         \/ \E i \in DOMAIN responses, status \in AnswerStatus : Webhook(i, status)
  PROVE  Settled'
<1>0. AllAgree /\ Idle /\ calls = {} /\ Remembered(row)
  BY QuietAgrees DEF AllAgree
<1>1. responses \in Seq(GatewayResponse)
  BY DEF Typed, TypeOK, GatewayTypeOK
<1>2. ASSUME NEW purpose \in Purpose, Publish({Responded(purpose)}),
             UNCHANGED <<row, calls, refunds, feedbacks, reminders, pages>>,
             purpose = Surcharge => Surcharge \in pages,
             purpose # Surcharge => LastPaid' = LastPaid /\ History(Surcharge)' = History(Surcharge)
      PROVE  Settled'
  <2>1. PICK k \in Task : k = Responded(purpose)
    BY TaskTypes DEF Answers
  <2>2. \A j \in Task : todo'[j] = IF j = k THEN 1 ELSE 0
    BY <1>0, <1>2, <2>1, PublishSparing
  <2>3. \A j \in Exclusive : todo'[j] > 0 => Alone(j)'
    BY <1>0, <1>2, <2>2, ExclusiveTasks DEF Alone
  <2>4. Refunded(row)' /\ Rated(row)' /\ Succeeds(row)' /\ Reminds(row)'
    BY <1>0, <1>2 DEF Remembered, Refunded, Rated, Succeeds, Reminds
  <2>5. Executes(row)'
    <3>1. CASE purpose = Surcharge
      <4>1. k = Plain("surchargeResponded")
        BY <2>1, <3>1 DEF Responded, Surcharge
      <4> QED
        BY <2>2, <4>1 DEF Executes
    <3>2. CASE purpose # Surcharge
      BY <1>0, <1>2, <3>2, ExclusiveTasks DEF Remembered, Executes, Idle
    <3> QED
      BY <3>1, <3>2
  <2>6. History(Surcharge)' # {} => Surcharge \in pages'
    BY <1>2 DEF Settled
  <2> QED
    BY <1>0, <1>2, <2>3, <2>4, <2>5, <2>6 DEF Settled, AllAgree, Remembered
<1>3. ASSUME NEW purpose \in Purpose, NEW status \in AnswerStatus, Pay(purpose, status) PROVE Settled'
  <2>1. purpose = Surcharge => Surcharge \in pages
    BY <1>3 DEF Pay, Insert
  <2>2. PICK q : q = [purpose |-> purpose, status |-> status]
    OBVIOUS
  <2>3. q \in GatewayResponse /\ q.purpose = purpose
    BY <2>2 DEF GatewayResponse
  <2>4. responses' = Append(responses, q)
    BY <1>3, <2>2 DEF Pay, Insert
  <2>5. /\ DOMAIN responses' = DOMAIN responses \cup {Len(responses) + 1}
        /\ \A i \in DOMAIN responses : responses'[i] = responses[i]
        /\ responses'[Len(responses) + 1] = q
    BY <1>1, <2>3, <2>4
  <2>6. ASSUME purpose # Surcharge PROVE History(Surcharge)' = History(Surcharge)
    BY <2>3, <2>5, <2>6 DEF History
  <2>7. ASSUME purpose # Surcharge PROVE LastPaid' = LastPaid
    <3>1. \A i \in History(Surcharge) : responses'[i] = responses[i]
      BY <2>5 DEF History
    <3> QED
      BY <2>6, <2>7, <3>1 DEF LastPaid
  <2> QED
    BY <1>2, <1>3, <2>1, <2>6, <2>7 DEF Pay, after, tables
<1>4. ASSUME NEW i \in DOMAIN responses, NEW status \in AnswerStatus, Webhook(i, status) PROVE Settled'
  <2>1. PICK old \in GatewayResponse : old = responses[i]
    BY <1>1
  <2>2. PICK purpose \in Purpose : purpose = old.purpose
    BY DEF GatewayResponse
  <2>3. purpose = Surcharge => Surcharge \in pages
    BY <2>1, <2>2 DEF Settled, History
  <2>4. PICK q : q = [old EXCEPT !.status = status]
    OBVIOUS
  <2>5. q \in GatewayResponse /\ q.purpose = purpose
    BY <2>2, <2>4 DEF GatewayResponse
  <2>6. responses' = [responses EXCEPT ![i] = q]
    BY <1>4, <2>1, <2>4 DEF Webhook, Overwrite
  <2>7. /\ DOMAIN responses' = DOMAIN responses
        /\ \A j \in DOMAIN responses : j # i => responses'[j] = responses[j]
        /\ responses'[i] = q
    BY <1>1, <2>5, <2>6
  <2>8. ASSUME purpose # Surcharge PROVE History(Surcharge)' = History(Surcharge)
    BY <2>1, <2>2, <2>5, <2>7, <2>8 DEF History
  <2>9. ASSUME purpose # Surcharge PROVE LastPaid' = LastPaid
    <3>1. \A j \in History(Surcharge) : responses'[j] = responses[j]
      BY <2>1, <2>2, <2>7, <2>9 DEF History
    <3> QED
      BY <2>8, <2>9, <3>1 DEF LastPaid
  <2>10. Publish({Responded(purpose)}) /\ UNCHANGED <<row, calls, refunds, feedbacks, reminders, pages>>
    BY <1>4, <2>1, <2>2 DEF Webhook, after, tables
  <2> QED
    BY <1>2, <2>3, <2>8, <2>9, <2>10
<1> QED
  BY <1>3, <1>4

\* The handler of a surcharge's answer: the last answer executes the order if it succeeded.
LEMMA SettledByPayments ==
  ASSUME Typed, Settled, SurchargeResponded
  PROVE  Settled'
<1>1. PICK k \in Exclusive : k = Plain("surchargeResponded") /\ Take(k)
  BY ExclusiveTasks DEF SurchargeResponded
<1>2. AllAgree /\ Alone(k) /\ Remembered(row) /\ calls = {} /\ row.refunded # "UNSET"
  BY <1>1, AloneAgrees DEF Take, AllAgree, Alone, Typed, TypeOK
<1>3. Idle'
  BY <1>1, <1>2, TakeAlone, ExclusiveTasks
<1>4. UNCHANGED <<row, refunds, feedbacks, responses, pages, reminders>>
  BY DEF SurchargeResponded, after, gateway
<1>5. LastPaid' = LastPaid /\ History(Surcharge)' = History(Surcharge)
  BY <1>4 DEF LastPaid, History
<1>6. refunds' \in {0, 1} /\ (History(Surcharge)' # {} => Surcharge \in pages')
  BY <1>4, <1>5 DEF Settled
<1>7. CASE UNCHANGED calls /\ SurchargePaid(row)
  <2>1. row.order.executed
    BY <1>2, <1>7 DEF SurchargePaid, Remembered, Succeeds
  <2>2. Refunded(row)' /\ Rated(row)' /\ Executes(row)' /\ Succeeds(row)' /\ Reminds(row)'
    BY <1>2, <1>4, <2>1 DEF Remembered, Refunded, Rated, Executes, Succeeds, Reminds
  <2>3. \A j \in Exclusive : ~(todo'[j] > 0)
    BY <1>3, ExclusiveTasks DEF Idle
  <2> QED
    BY <1>2, <1>6, <1>7, <2>2, <2>3 DEF Settled, AllAgree, Remembered
<1>8. ASSUME NEW r, NEW tasks, NEW i \in History(Surcharge), \A j \in History(Surcharge) : j <= i,
             r.order = Executed(row.order, responses[i].status), responses[i].status \in PaymentStatus,
             Makes(r, tasks), r.rating = row.rating, r.refunded = "UNSET"
      PROVE  Settled'
  <2>1. PICK o \in Order, status \in PaymentStatus \cup {"NONE"} : o = row.order /\ status = responses[i].status
    BY <1>8, RowFields DEF Typed, TypeOK
  <2>2. PICK x : x = Executed(o, status) /\ x = r.order
    BY <1>8, <2>1
  <2>3. /\ x.required = o.required /\ x.to = o.to
        /\ IF o.required
           THEN x.paid = status /\ (x.executed <=> o.executed \/ status = "SUCCEEDED")
           ELSE x.paid = o.paid /\ x.executed = TRUE
    BY <2>2, ExecutedFields
  <2>4. LastPaid => status = "SUCCEEDED"
    <3>1. ASSUME NEW j \in History(Surcharge), responses[j].status = "SUCCEEDED",
                 \A h \in History(Surcharge) : h <= j
          PROVE  status = "SUCCEEDED"
      <4>1. i \in Nat /\ j \in Nat /\ i <= j /\ j <= i
        BY <1>8, <3>1 DEF History, Typed, TypeOK, GatewayTypeOK
      <4>2. i = j
        BY <4>1
      <4> QED
        BY <2>1, <3>1, <4>2
    <3> QED
      BY <3>1 DEF LastPaid
  <2>5. Surcharge \in pages
    BY <1>8 DEF Settled
  <2>6. Refunded(r)' /\ Rated(r)'
    BY <1>2, <1>4, <1>8 DEF Remembered, Refunded, Rated, Or
  <2>7. Executes(r)'
    BY <1>5, <2>2, <2>3, <2>4 DEF Executes
  <2>8. Succeeds(r)'
    BY <2>2, <2>3 DEF Succeeds
  <2>9. Reminds(r)'
    BY <1>2, <1>4, <2>1, <2>2, <2>3, <2>5 DEF Reminds, Remembered
  <2> QED
    BY <1>2, <1>3, <1>6, <1>8, <2>6, <2>7, <2>8, <2>9, DifferingStep DEF Remembered
<1> QED
  BY <1>7, <1>8, SurchargeRespondedMakes DEF Surcharge

\* The row of refunds and the flag.
LEMMA SettledByRefund ==
  ASSUME Typed, Settled, InsertRefund
  PROVE  Settled'
<1>1. PICK k \in Exclusive : k = Plain("insertRefund") /\ Take(k)
  BY ExclusiveTasks DEF InsertRefund
<1>2. /\ AllAgree /\ Alone(k) /\ Remembered(row) /\ calls = {} /\ row.refunded # "UNSET"
      /\ todo[Plain("surchargeResponded")] = 0
  <2>1. k # Plain("surchargeResponded")
    BY <1>1 DEF Plain, For
  <2> QED
    BY <1>1, <2>1, AloneAgrees, ExclusiveTasks DEF Take, AllAgree, Alone, Typed, TypeOK
<1>3. Idle'
  BY <1>1, <1>2, TakeAlone, ExclusiveTasks
<1>4. UNCHANGED <<row, feedbacks, responses, pages, reminders>>
  BY DEF InsertRefund, gateway
<1>5. LastPaid' = LastPaid /\ History(Surcharge)' = History(Surcharge)
  BY <1>4 DEF LastPaid, History
<1>6. CASE refunds # 0 /\ UNCHANGED <<refunds, calls>>
  <2>1. Refunded(row)' /\ Rated(row)' /\ Executes(row)' /\ Succeeds(row)' /\ Reminds(row)'
    BY <1>2, <1>4, <1>5, <1>6 DEF Remembered, Refunded, Rated, Executes, Succeeds, Reminds
  <2>2. \A j \in Exclusive : ~(todo'[j] > 0)
    BY <1>3, ExclusiveTasks DEF Idle
  <2> QED
    BY <1>2, <1>4, <1>5, <1>6, <2>1, <2>2 DEF Settled, AllAgree, Remembered
<1>7. ASSUME NEW r, refunds = 0, refunds' = 1, Makes(r, {}), r.order = row.order, r.rating = row.rating,
             r.refunded = "YES"
      PROVE  Settled'
  <2>1. Refunded(r)' /\ Rated(r)' /\ Executes(r)' /\ Succeeds(r)' /\ Reminds(r)'
    BY <1>2, <1>4, <1>5, <1>7 DEF Remembered, Refunded, Rated, Executes, Succeeds, Reminds, Or
  <2>2. refunds' \in {0, 1} /\ (History(Surcharge)' # {} => Surcharge \in pages')
    BY <1>4, <1>5, <1>7 DEF Settled
  <2> QED
    BY <1>2, <1>3, <1>7, <2>1, <2>2, DifferingStep DEF Remembered
<1> QED
  BY <1>6, <1>7, InsertRefundMakes
\* The handlers that write neither order nor rating nor refund.
LEMMA SettledByDeliveries ==
  ASSUME Typed, Settled,
         \/ FeeResponded \/ InitiateAutoAssignment \/ Ticket
         \/ \E p \in Independent \cup {NoAgent} : Announce(p) \/ Rescheduled(p)
         \/ CancelledOrRevoked
         \/ \E p \in Independent : ReplacedOrFulfilled(p)
  PROVE  Settled'
<1> USE TaskTypes, ExclusiveTasks DEF TaskName
<1> USE DEF tables, after, gateway
<1>0. todo \in [Task -> Nat] /\ row.refunded # "UNSET"
  BY DEF Typed, TypeOK
<1>1. ASSUME NEW k \in Task \ Exclusive, Take(k)
      PROVE  AllAgree /\ \A j \in Exclusive : todo[j] = 0 /\ todo'[j] = 0
  <2>1. AllAgree /\ \A j \in Exclusive : todo[j] = 0
    BY <1>1, TakenAgrees DEF Take
  <2> QED
    BY <1>1, <2>1, TakeSparing
<1>2. CASE FeeResponded
  <2>1. PICK k \in Task \ Exclusive : Take(k)
    BY <1>2 DEF FeeResponded
  <2>2. \A c \in calls' : c \in calls \/ Agrees(c.row)
    <3>1. CASE UNCHANGED calls
      BY <3>1
    <3>2. ASSUME NEW r, NEW tasks, Makes(r, tasks), Kept(r) PROVE \A c \in calls' : c \in calls \/ Agrees(c.row)
      BY <3>2 DEF Makes, Kept, Agrees
    <3> QED
      BY <1>2, <3>1, <3>2, FeeRespondedMakes
  <2> QED
    BY <1>1, <1>2, <2>1, <2>2, AgreeingStep DEF FeeResponded
<1>3. CASE InitiateAutoAssignment
  <2>1. PICK k \in Task \ Exclusive : Take(k)
    BY <1>3 DEF InitiateAutoAssignment
  <2>2. PICK r : Makes(r, {Plain("ticket")}) /\ Kept(r)
    BY <1>3, InitiateAutoAssignmentMakes
  <2>3. \A c \in calls' : c \in calls \/ Agrees(c.row)
    BY <2>2 DEF Makes, Kept, Agrees
  <2> QED
    BY <1>1, <1>3, <2>1, <2>3, AgreeingStep DEF InitiateAutoAssignment
<1>4. CASE Ticket
  <2>1. PICK k \in Task \ Exclusive : Take(k)
    BY <1>4 DEF Ticket
  <2> QED
    BY <1>1, <1>4, <2>1, AgreeingStep DEF Ticket
<1>5. ASSUME NEW p \in Independent \cup {NoAgent}, Announce(p) PROVE Settled'
  <2>1. PICK k \in Task \ Exclusive : k = For("announce", p)
    OBVIOUS
  <2>2. PICK tasks : tasks = {For("rescheduled", p), Plain("initiateAutoAssignment")}
    OBVIOUS
  <2>3. k \notin tasks /\ tasks \cap Exclusive = {}
    BY <2>1, <2>2 DEF For, Plain
  <2>4. TakeAndPublish(k, tasks)
    BY <1>5, <2>1, <2>2 DEF Announce
  <2>5. todo[k] > 0 /\ \A j \in Task : todo'[j] = IF j = k THEN todo[j] - 1
                                                  ELSE IF j \in tasks THEN todo[j] + 1 ELSE todo[j]
    BY <1>0, <2>3, <2>4, TakeAndPublishIs
  <2>6. AllAgree /\ \A j \in Exclusive : todo[j] = 0
    BY <2>1, <2>5, TakenAgrees
  <2>7. \A j \in Exclusive : todo'[j] = 0
    BY <2>1, <2>3, <2>5, <2>6
  <2>8. \A q \in reminders : \E u \in reminders' : u.start = q.start
    BY <1>5 DEF Announce, AddToReminders
  <2> QED
    BY <1>5, <2>6, <2>7, <2>8, AgreeingStep DEF Announce
<1>6. ASSUME NEW k \in Task \ Exclusive, NEW matching, NEW status, UpdateAppointments(k, matching, status)
      PROVE  Settled'
  <2>1. Take(k) /\ UNCHANGED <<row, reminders, refunds, feedbacks, calls, responses, pages>>
    BY <1>6 DEF UpdateAppointments
  <2> QED
    BY <1>1, <2>1, AgreeingStep
<1>7. ASSUME NEW p \in Independent \cup {NoAgent}, Rescheduled(p) PROVE Settled'
  <2>1. PICK k \in Task \ Exclusive : k = For("rescheduled", p)
    OBVIOUS
  <2> QED
    BY <1>6, <1>7, <2>1 DEF Rescheduled
<1>8. CASE CancelledOrRevoked
  <2>1. Plain("cancelled") \in Task \ Exclusive /\ Plain("revoked") \in Task \ Exclusive
    OBVIOUS
  <2> QED
    BY <1>6, <1>8, <2>1 DEF CancelledOrRevoked
<1>9. ASSUME NEW p \in Independent, ReplacedOrFulfilled(p) PROVE Settled'
  <2>1. For("replaced", p) \in Task \ Exclusive /\ For("fulfilled", p) \in Task \ Exclusive
    OBVIOUS
  <2> QED
    BY <1>6, <1>9, <2>1 DEF ReplacedOrFulfilled
<1> QED
  BY <1>2, <1>3, <1>4, <1>5, <1>7, <1>8, <1>9

\* A save leaves what the call was to save; nothing Exclusive is published by it.
LEMMA SettledBySave ==
  ASSUME Typed, Settled, NEW c \in calls, Save(c)
  PROVE  Settled'
<1>1. PICK r \in Row : r = c.row /\ c.then \subseteq Task /\ c.then \cap Started = {}
  BY DEF Typed, CallsTyped
<1>2. PICK m : m = Merged(r) /\ row' = m /\ m.order = r.order /\ m.rating = r.rating
               /\ m.refunded = Or(r.refunded, "UNSET", row.refunded)
  BY <1>1, MergedIs DEF Save
<1>3. UNCHANGED <<refunds, feedbacks, responses, pages, reminders>> /\ calls' = calls \ {c}
  BY DEF Save, after, gateway
<1>4. \A k \in Exclusive : todo[k] = 0 /\ todo'[k] = 0
  <2>1. todo \in [Task -> Nat]
    BY DEF Typed, TypeOK
  <2>2. \A k \in Exclusive : todo[k] = 0
    BY <2>1, ExclusiveTasks DEF Settled, Alone
  <2>3. Publish(c.then)
    BY DEF Save
  <2> QED
    BY <1>1, <2>1, <2>2, <2>3, PublishIs, ExclusiveTasks
<1>5. CASE AllAgree
  <2>1. Agrees(r) /\ row.refunded # "UNSET"
    BY <1>1, <1>5 DEF AllAgree, Typed, TypeOK
  <2>2. m.order = row.order /\ m.rating = row.rating /\ m.refunded = row.refunded
    BY <1>2, <2>1 DEF Agrees, Or
  <2> QED
    BY <1>2, <1>3, <1>4, <1>5, <2>2, AgreeingStep
<1>6. CASE OneDiffers
  <2>1. calls' = {} /\ Remembered(r)
    BY <1>1, <1>3, <1>6 DEF OneDiffers
  <2>2. LastPaid' = LastPaid /\ History(Surcharge)' = History(Surcharge)
    BY <1>3 DEF LastPaid, History
  <2>3. m.refunded # "UNSET"
    BY <1>2 DEF Or, Typed, TypeOK
  <2>4. Refunded(row)' /\ Rated(row)' /\ Executes(row)' /\ Succeeds(row)' /\ Reminds(row)'
    <3>1. todo[Plain("surchargeResponded")] = 0
      BY <1>4, ExclusiveTasks
    <3> QED
      BY <1>2, <1>3, <2>1, <2>2, <2>3, <3>1 DEF Remembered, Refunded, Rated, Executes, Succeeds, Reminds, Or
  <2> QED
    BY <1>3, <1>4, <2>1, <2>2, <2>4 DEF Settled, AllAgree, Remembered
<1> QED
  BY <1>5, <1>6 DEF Settled

\* Every step, when requests do not overlap.
LEMMA SettledStep == Serial /\ Typed /\ Settled /\ [Next]_vars => Settled'
<1> SUFFICES ASSUME Serial, Typed, Settled, [Next]_vars PROVE Settled'
  OBVIOUS
<1>1. ASSUME NEW to \in Arrivals, RescheduleFree(to) \/ RescheduleAtSurcharge(to) \/ AdminChange(to)
      PROVE  Settled'
  <2>1. Quiet
    BY <1>1 DEF RescheduleFree, RescheduleAtSurcharge, AdminChange, Request
  <2> QED
    BY <1>1, <2>1, SettledByMoves
<1>2. CASE \/ CancelByCustomer \/ Fail \/ Refund
           \/ \E rating \in FeedbackResponse : Rate(rating)
           \/ \E p \in Independent : Accept(p)
           \/ Handle
  <2>1. Quiet
    BY <1>2 DEF CancelByCustomer, Fail, Refund, Rate, Accept, Handle, Request
  <2> QED
    BY <1>2, <2>1, SettledByRequests
<1>3. CASE \/ \E purpose \in Purpose, status \in AnswerStatus : Pay(purpose, status)
           \/ \E i \in DOMAIN responses, status \in AnswerStatus : Webhook(i, status)
  <2>1. Quiet
    BY <1>3 DEF Pay, Webhook, Request
  <2> QED
    BY <1>3, <2>1, SettledByAnswers
<1>4. CASE TimePasses \/ UNCHANGED vars
  BY <1>4, SettledStays DEF TimePasses, vars, after, gateway
<1>5. ASSUME NEW reminder \in reminders, Remind(reminder) PROVE Settled'
  <2>1. PICK q : q = [reminder EXCEPT !.outcome = OutcomeOf(reminder)]
    OBVIOUS
  <2>2. reminder \in Reminder
    BY DEF Typed, TypeOK
  <2>3. q.start = reminder.start
    BY <2>1, <2>2 DEF Reminder
  <2>4. reminders' = (reminders \ {reminder}) \cup {q}
    BY <1>5, <2>1 DEF Remind
  <2>5. \A u \in reminders : \E v \in reminders' : v.start = u.start
    BY <2>3, <2>4
  <2> QED
    BY <1>5, <2>5, SettledStays DEF Remind, after, gateway
<1> QED
  BY <1>1, <1>2, <1>3, <1>4, <1>5, SettledByPayments, SettledByRefund, SettledByDeliveries, SettledBySave
     DEF Next, Requested, Deliver, Wait

\* Nothing was paid, moved, refunded or rated yet.
LEMMA SettledInit == Init => Settled
<1> SUFFICES ASSUME Init PROVE Settled
  OBVIOUS
<1>1. /\ row.order = EmptyOrder /\ row.refunded = "NO" /\ row.rating = Unrated
      /\ refunds = 0 /\ feedbacks = <<>> /\ calls = {} /\ pages = {"FEE"} /\ responses = <<>>
  BY DEF Init, GatewayInit
<1>2. \A k \in Exclusive : todo[k] = 0
  <2>1. Plain("initiateAutoAssignment") \notin Exclusive
    BY ExclusiveTasks DEF TaskName
  <2> QED
    BY <2>1, ExclusiveTasks DEF Init
<1>3. History(Surcharge) = {} /\ ~LastPaid /\ Surcharge \notin pages
  BY <1>1 DEF History, LastPaid, Surcharge
<1>4. Refunded(row) /\ Rated(row) /\ Executes(row) /\ Succeeds(row) /\ Reminds(row)
  BY <1>1, <1>3 DEF Refunded, Rated, Executes, Succeeds, Reminds, EmptyOrder, Or
<1> QED
  BY <1>1, <1>2, <1>3, <1>4 DEF Settled, AllAgree, Remembered

\* It holds always.
LEMMA Settling == ASSUME Serial PROVE Spec => []Settled
<1>1. Typed /\ Settled /\ [Next]_vars => Settled'
  BY SettledStep
<1> QED
  BY <1>1, SettledInit, Typing, PTL DEF Spec

\* What is known at rest.
LEMMA AtRest ==
  ASSUME Typed, Settled, Quiet
  PROVE  Remembered(row) /\ row.refunded # "UNSET" /\ todo[Plain("surchargeResponded")] = 0
BY QuietAgrees, ExclusiveTasks DEF AllAgree, Idle, Typed, TypeOK

\* At rest, the request says that it was refunded if and only if there is a refund, and
\* shows the customer's last rating.
THEOREM RequestsAreRemembered ==
  ASSUME Serial
  PROVE  Spec => []RequestRemembers
<1>1. Typed /\ Settled => RequestRemembers
  BY AtRest DEF RequestRemembers, Remembered, Refunded, Rated, Or
<1> QED
  BY <1>1, Typing, Settling, PTL

\* At rest, a surcharge whose last answer succeeded has executed the order, when a job is
\* moved by its customer once at most (ecRescheduleMultipleOccurrencesAllowed is off).
THEOREM PaidIsMoved ==
  ASSUME Serial, ~Multiple
  PROVE  Spec => []PaidSurchargeMoves
<1>1. Typed /\ Settled => PaidSurchargeMoves
  BY AtRest DEF PaidSurchargeMoves, Remembered, Executes, LastPaid, Surcharge
<1> QED
  BY <1>1, Typing, Settling, PTL

\* At rest, a job moved free of charge has a reminder for its new time among those in the
\* queue.
THEOREM MovedIsReminded ==
  ASSUME Serial
  PROVE  Spec => []ReminderFollows
<1>1. Typed /\ Settled => ReminderFollows
  BY AtRest DEF ReminderFollows, Remembered, Reminds
<1> QED
  BY <1>1, Typing, Settling, PTL
=============================================================================
