-------------------------- MODULE JobDispatch_proof --------------------------
(***************************************************************************)
(* Theorems about JobDispatch, for any number of providers, threads,       *)
(* requests, responses, handling events and restarts.                      *)
(*                                                                         *)
(* What a call does to the row is the object it has built, column by       *)
(* column; so each invariant is stated of the row and of the objects of    *)
(* all calls in progress at once (Typed, Unsold, Truthful below), and the  *)
(* lemma Steps says how a step can change either.  What holds only when    *)
(* requests do not overlap (Serial) is in the second half: Orderly says    *)
(* who is at work and what is in hand, Settled what the tables then show.  *)
(***************************************************************************)
EXTENDS JobDispatch, FiniteSetTheorems, TLAPS

------------------------------------------------------------------------------
(* The Service value object: what its constructor and its changes return.     *)

\* The constructor keeps what it is given and computes the rest within its types.
LEMMA NewServiceType ==
  ASSUME NEW lastEvent \in LastEvent,
         NEW dispatcher \in Dispatcher \cup {NoAgent, Unset},
         NEW worker \in Worker \cup Independent \cup {NoAgent, Unset},
         NEW response \in Response,
         NEW cancellation \in Cancelled \cup {"NONE"}
  PROVE  LET s == NewService(lastEvent, dispatcher, worker, response, cancellation)
         IN  /\ s \in ServiceObject
             /\ s.lastEvent = lastEvent /\ s.response = response
             /\ s.dispatcher = dispatcher /\ s.worker = worker
             /\ s.paymentStatus = response.status
<1> DEFINE allocation == CalculateAllocationStatus(dispatcher, worker)
           status     == IF cancellation \in Cancelled THEN cancellation
                         ELSE CalculateStatus(lastEvent, response.status, allocation)
<1>1. allocation \in AllocationStatus
  BY DEF CalculateAllocationStatus, AllocationStatus
<1>2. status \in Status
  BY <1>1 DEF CalculateStatus, StatusOfEvent, Status, Cancelled, Closed, InProgress,
              AllocationStatus, HandlingEventType
<1> HIDE DEF allocation, status
<1>3. CalculateNextActionType(status, allocation) \in ActionType
  BY <1>1, <1>2 DEF CalculateNextActionType, ActionType, HandlingEventType, AllocationStatus
<1>4. response.status \in PaymentStatus
  BY DEF Response
<1>5. NewService(lastEvent, dispatcher, worker, response, cancellation) =
        [lastEvent |-> lastEvent, response |-> response,
         dispatcher |-> dispatcher, worker |-> worker,
         paymentStatus |-> response.status, allocationStatus |-> allocation,
         status |-> status, nextActionType |-> CalculateNextActionType(status, allocation)]
  BY DEF NewService, allocation, status
<1> QED
  BY <1>1, <1>2, <1>3, <1>4, <1>5 DEF ServiceObject

\* A new request has no event, and two Agent objects without an id.
LEMMA CreatedServiceType ==
  /\ CreatedService \in ServiceObject
  /\ CreatedService.lastEvent = "NULL"
  /\ CreatedService.dispatcher = NoAgent /\ CreatedService.worker = NoAgent
BY NewServiceType DEF CreatedService, NoResponse, Response, PaymentStatus, LastEvent

\* Assigned to p: p is its dispatcher and, when it is independent, its worker.
LEMMA AssignedType ==
  ASSUME NEW s \in ServiceObject, NEW p \in Dispatcher
  PROVE  /\ AssignedToDispatcher(s, p) \in ServiceObject
         /\ AssignedToDispatcher(s, p).dispatcher = p
         /\ AssignedToDispatcher(s, p).worker \in {Unset} \cup (Independent \cap {p})
<1> DEFINE assigned == NewService(s.lastEvent, p, Unset, s.response, "NONE")
<1>1. assigned \in ServiceObject /\ assigned.dispatcher = p /\ assigned.worker = Unset
  BY NewServiceType DEF ServiceObject
<1> HIDE DEF assigned
<1>2. CASE p \in Independent
  <2>1. /\ AllocatedToWorker(assigned, p) \in ServiceObject
        /\ AllocatedToWorker(assigned, p).dispatcher = p
        /\ AllocatedToWorker(assigned, p).worker = p
    BY <1>1, <1>2, NewServiceType DEF AllocatedToWorker, ServiceObject
  <2> QED
    BY <1>2, <2>1 DEF AssignedToDispatcher, assigned
<1>3. CASE p \notin Independent
  BY <1>1, <1>3 DEF AssignedToDispatcher, assigned
<1> QED
  BY <1>2, <1>3

\* Allocated to w by its dealer: the dispatcher stays.
LEMMA AllocatedType ==
  ASSUME NEW s \in ServiceObject, NEW w \in Worker
  PROVE  /\ AllocatedToWorker(s, w) \in ServiceObject
         /\ AllocatedToWorker(s, w).dispatcher = s.dispatcher
         /\ AllocatedToWorker(s, w).worker = w
<1>1. /\ s.lastEvent \in LastEvent /\ s.response \in Response
      /\ s.dispatcher \in Dispatcher \cup {NoAgent, Unset}
  BY DEF ServiceObject
<1> QED
  BY <1>1, NewServiceType DEF AllocatedToWorker

------------------------------------------------------------------------------
(* The objects *)

\* What a call starts with, or goes on with after a lookup: an object rebuilt
\* from the row, or from the object it had and the newest response or event.
Begun(s) ==
  \/ s = Loaded
  \/ \E p \in ServiceProvider : CanAssignToDispatcher(Loaded, p) /\ s = AssignedToDispatcher(Loaded, p)
  \/ \E dealer \in Dispatcher, w \in Worker :
       CanAllocateToWorker(Loaded, dealer) /\ s = AllocatedToWorker(Loaded, w)
  \/ \E loaded \in {Loaded, LoadedByGet}, status \in Cancelled : s = ProviderTerminated(loaded, status)
  \/ \E markAsFailed \in BOOLEAN : s = Revoked(Loaded, markAsFailed)
  \/ s = ExpiredBySystem(LoadedByGet)
  \/ s = Restarted(Loaded)
  \/ \E t \in Thread :
       s = DerivedFromPaymentHistory(thread[t].service, LoadResponse(Len(responses)))
  \/ \E t \in Thread : /\ history # <<>>
                      /\ s = DerivedFromHandlingHistory(thread[t].service, history[Len(history)])

\* A response that is looked up is one, or that of an unknown id.
LEMMA LoadResponseType ==
  ASSUME TypeOK, NEW id \in Nat
  PROVE  LoadResponse(id) \in Response
BY DEF TypeOK, LoadResponse, Response, NoResponse, PaymentStatus

\* What is loaded from the row is an object, in either way.
LEMMA LoadedType ==
  ASSUME TypeOK
  PROVE  /\ Loaded \in ServiceObject /\ LoadedByGet \in ServiceObject
         /\ Loaded.dispatcher \in Dispatcher \cup {NoAgent}
         /\ Loaded.worker \in Worker \cup Independent \cup {NoAgent}
<1>1. LoadResponse(row.response) \in Response
  BY LoadResponseType DEF TypeOK, Row
<1> QED
  BY <1>1 DEF TypeOK, Row, Loaded, LoadedByGet, ServiceObject, LastEvent

\* What a call builds from the row or an event is an object.
LEMMA BegunType ==
  ASSUME TypeOK, NEW s, Begun(s)
  PROVE  s \in ServiceObject
<1> USE LoadedType, NewServiceType DEF ServiceObject
<1>1. CASE s = Loaded
  BY <1>1
<1>2. ASSUME NEW p \in ServiceProvider, CanAssignToDispatcher(Loaded, p),
             s = AssignedToDispatcher(Loaded, p)
      PROVE  s \in ServiceObject
  BY <1>2, AssignedType DEF CanAssignToDispatcher, ServiceProvider, Dispatcher
<1>3. ASSUME NEW w \in Worker, s = AllocatedToWorker(Loaded, w)
      PROVE  s \in ServiceObject
  BY <1>3, AllocatedType
<1>4. ASSUME NEW loaded \in {Loaded, LoadedByGet}, NEW status \in Cancelled,
             s = ProviderTerminated(loaded, status)
      PROVE  s \in ServiceObject
  BY <1>4 DEF ProviderTerminated
<1>5. ASSUME NEW markAsFailed \in BOOLEAN, s = Revoked(Loaded, markAsFailed)
      PROVE  s \in ServiceObject
  BY <1>5 DEF Revoked, ProviderTerminated, Cancelled
<1>6. CASE s = ExpiredBySystem(LoadedByGet)
  <2> DEFINE expired == NewService("NULL", NoAgent, NoAgent, LoadedByGet.response, "NONE")
  <2>1. expired \in ServiceObject
    BY DEF LastEvent
  <2>2. s = [expired EXCEPT !.paymentStatus = "FAILED", !.status = "FAILED_PAYMENT"]
    BY <1>6 DEF ExpiredBySystem
  <2> HIDE DEF expired
  <2>3. "FAILED" \in PaymentStatus /\ "FAILED_PAYMENT" \in Status
    BY DEF PaymentStatus, Status, Closed
  <2> QED
    BY <2>1, <2>2, <2>3
<1>7. CASE s = Restarted(Loaded)
  BY <1>7 DEF Restarted, LastEvent
<1>8. ASSUME NEW t \in Thread,
             s = DerivedFromPaymentHistory(thread[t].service, LoadResponse(Len(responses)))
      PROVE  s \in ServiceObject
  <2>1. LoadResponse(Len(responses)) \in Response
    BY LoadResponseType DEF TypeOK
  <2>2. thread[t].service \in ServiceObject
    BY DEF TypeOK, Process
  <2> QED
    BY <1>8, <2>1, <2>2 DEF DerivedFromPaymentHistory
<1>9. ASSUME NEW t \in Thread, history # <<>>,
             s = DerivedFromHandlingHistory(thread[t].service, history[Len(history)])
      PROVE  s \in ServiceObject
  <2>1. history[Len(history)] \in LastEvent
    BY <1>9 DEF TypeOK, LastEvent
  <2>2. thread[t].service \in ServiceObject
    BY DEF TypeOK, Process
  <2> QED
    BY <1>9, <2>1, <2>2 DEF DerivedFromHandlingHistory
<1> QED
  BY <1>1, <1>2, <1>3, <1>4, <1>5, <1>6, <1>7, <1>8, <1>9 DEF Begun

\* Whichever columns of an object are saved, the row is one.
LEMMA SavedType ==
  ASSUME TypeOK, NEW s \in ServiceObject, NEW changed
  PROVE  Saved(s, changed) \in Row
BY DEF TypeOK, Saved, Written, Or, Row, ServiceObject, Response, LastEvent

------------------------------------------------------------------------------
(* Types.  To append a typed appointment, the calls that allocate must carry a *)
(* dispatcher and a worker: ProcessOK is what TypeOK lacks to be inductive.    *)

TakePC == {"saveAccept", "saveManual", "insertManual", "acceptMine", "failOthers"}

ProcessOK(q) ==
  /\ q.pc \in TakePC => /\ q.agent \in Dispatcher
                        /\ q.service.dispatcher = q.agent
                        /\ q.service.worker \in {Unset} \cup (Independent \cap {q.agent})
  /\ q.pc \in {"saveAllocate", "appoint"} => /\ q.service.dispatcher \in Dispatcher
                                             /\ q.service.worker \in Worker \cup Independent

Threads ==
  /\ thread \in [Thread -> Process]
  /\ \A t \in Thread : ProcessOK(thread[t])
  /\ \A t \in Thread : Running(t, "lookupHandling") => history # <<>>

Typed == TypeOK /\ Threads

\* A thread moves to another pc, with another object.
LEMMA MoveType ==
  ASSUME Threads, history # <<>> => history' # <<>>,
         NEW t \in Thread, NEW pc \in PC, NEW p \in ServiceProvider \cup {NoAgent},
         NEW s \in ServiceObject,
         ProcessOK(At(pc, p, s)), pc = "lookupHandling" => history' # <<>>,
         thread' = [thread EXCEPT ![t] = At(pc, p, s)]
  PROVE  Threads'
<1> DEFINE q == At(pc, p, s)
<1>1. q \in Process /\ q.pc = pc
  BY DEF At, Process
<1> HIDE DEF q
<1>2. thread' \in [Thread -> Process]
  BY <1>1 DEF Threads, q
<1>3. ASSUME NEW u \in Thread
      PROVE  ProcessOK(thread'[u]) /\ (thread'[u].pc = "lookupHandling" => history' # <<>>)
  <2>1. thread'[u] = IF u = t THEN q ELSE thread[u]
    BY DEF Threads, q
  <2> QED
    BY <1>1, <2>1 DEF Threads, Running, q
<1> QED
  BY <1>2, <1>3 DEF Threads, Running, ProcessOK

\* When a call ends, calls keep their types.
LEMMA IdleType ==
  ASSUME Threads, UNCHANGED history, NEW t \in Thread, Finish(t)
  PROVE  Threads'
<1>1. "idle" \in PC /\ NoAgent \in ServiceProvider \cup {NoAgent}
  BY DEF PC
<1>2. ProcessOK(At("idle", NoAgent, CreatedService))
  BY DEF ProcessOK, At, TakePC
<1>3. thread' = [thread EXCEPT ![t] = At("idle", NoAgent, CreatedService)]
  BY DEF Finish, Idle
<1> QED
  BY <1>1, <1>2, <1>3, CreatedServiceType, MoveType

\* What a call has in hand is of its type.
LEMMA ThreadType ==
  ASSUME Threads, NEW t \in Thread
  PROVE  /\ thread[t].agent \in ServiceProvider \cup {NoAgent}
         /\ thread[t].service \in ServiceObject
         /\ thread[t].pc \in PC
         /\ ProcessOK(thread[t])
BY DEF Threads, Process

\* Handlers that become due are counted,
LEMMA PublishType ==
  ASSUME TypeOK, NEW tasks, Publish(tasks)
  PROVE  todo' \in [Task -> Nat]
BY DEF TypeOK, Publish

\* and so are those that are taken.
LEMMA TakeType ==
  ASSUME TypeOK, NEW k \in Task, Take(k)
  PROVE  todo' \in [Task -> Nat]
BY DEF TypeOK, Take

\* Each handler is a task, with its worker or without.
LEMMA TaskType ==
  /\ \A name \in TaskName : TaskOf(name) \in Task
  /\ \A name \in TaskName, w \in ServiceProvider \cup {NoAgent} :
       [name |-> name, worker |-> w] \in Task
BY DEF TaskOf, Task

\* The save of a handler that goes on.
LEMMA SaveThenType ==
  ASSUME Typed, NEW t \in Thread, NEW pc, NEW next \in PC, SaveThen(t, pc, next),
         next # "lookupHandling",
         next \in TakePC => pc \in TakePC,
         next \in {"saveAllocate", "appoint"} => pc \in {"saveAllocate", "appoint"}
  PROVE  Typed'
<1> DEFINE s == thread[t].service
           p == thread[t].agent
<1>1. /\ s \in ServiceObject /\ p \in ServiceProvider \cup {NoAgent}
      /\ ProcessOK(thread[t]) /\ thread[t].pc = pc
  BY ThreadType DEF Typed, SaveThen, Update, Running
<1>2. ProcessOK(At(next, p, s))
  BY <1>1 DEF ProcessOK, At
<1>3. thread' = [thread EXCEPT ![t] = At(next, p, s)] /\ UNCHANGED history
  BY DEF SaveThen, Goto, Continue, events
<1>4. Threads'
  BY <1>1, <1>2, <1>3, MoveType DEF Typed
<1>5. row' \in Row
  BY <1>1, SavedType DEF SaveThen, Update, Typed
<1> QED
  BY <1>4, <1>5 DEF Typed, TypeOK, Threads, SaveThen, events, tables, bounds

\* The save of a handler that publishes and ends.
LEMMA SaveAndPublishType ==
  ASSUME Typed, NEW t \in Thread, NEW pc, NEW tasks, SaveAndPublish(t, pc, tasks)
  PROVE  Typed'
<1>1. Threads'
  BY IdleType DEF Typed, SaveAndPublish, events
<1>2. row' \in Row
  BY ThreadType, SavedType DEF SaveAndPublish, Update, Typed
<1>3. todo' \in [Task -> Nat]
  BY PublishType DEF Typed, SaveAndPublish
<1> QED
  BY <1>1, <1>2, <1>3 DEF Typed, TypeOK, Threads, SaveAndPublish, events, tables, bounds

\* A call begins, with an object rebuilt from the row.
LEMMA StartType ==
  ASSUME Typed, NEW t \in Thread, NEW pc \in PC, NEW p \in ServiceProvider \cup {NoAgent},
         NEW s \in ServiceObject, Start(t, pc, p, s), UNCHANGED history,
         ProcessOK(At(pc, p, s)), pc # "lookupHandling"
  PROVE  Threads'
BY MoveType DEF Typed, Start

\* The calls of customers, workers and administrators keep the types,
LEMMA RequestedType ==
  ASSUME Typed, Requested
  PROVE  Typed'
<1> USE DEF Typed
<1>1. ASSUME NEW t \in Thread, NEW p \in ServiceProvider, NEW pc \in {"saveAccept", "saveManual"},
             BeginTake(t, p, pc), requests' = requests + 1
      PROVE  Typed'
  <2> DEFINE s == AssignedToDispatcher(Loaded, p)
  <2>1. p \in Dispatcher
    BY <1>1 DEF BeginTake, CanAssignToDispatcher, ServiceProvider, Dispatcher
  <2>2. /\ s \in ServiceObject /\ s.dispatcher = p
        /\ s.worker \in {Unset} \cup (Independent \cap {p})
    BY <2>1, LoadedType, AssignedType
  <2> HIDE DEF s
  <2>3. ProcessOK(At(pc, p, s)) /\ pc \in PC /\ pc # "lookupHandling"
    BY <2>1, <2>2 DEF ProcessOK, At, PC
  <2>4. Start(t, pc, p, s)
    BY <1>1 DEF BeginTake, s
  <2>5. Threads'
    BY <1>1, <2>2, <2>3, <2>4, StartType DEF BeginTake, events
  <2> QED
    BY <1>1, <2>5 DEF TypeOK, Threads, BeginTake, events, tables
<1>2. ASSUME NEW t \in Thread, NEW dealer \in Dispatcher, NEW w \in Worker, Allocate(t, dealer, w)
      PROVE  Typed'
  <2> DEFINE s == AllocatedToWorker(Loaded, w)
  <2>1. Loaded.dispatcher \in Dispatcher
    BY <1>2, LoadedType, ServiceAssumption DEF Allocate, CanAllocateToWorker, ServiceProvider
  <2>2. s \in ServiceObject /\ s.dispatcher \in Dispatcher /\ s.worker = w
    BY <2>1, LoadedType, AllocatedType
  <2> HIDE DEF s
  <2>3. ProcessOK(At("saveAllocate", dealer, s)) /\ "saveAllocate" \in PC
    BY <2>2 DEF ProcessOK, At, PC, TakePC
  <2>4. Start(t, "saveAllocate", dealer, s) /\ dealer \in ServiceProvider
    BY <1>2 DEF Allocate, s, ServiceProvider, Dispatcher
  <2>5. Threads'
    BY <1>2, <2>2, <2>3, <2>4, StartType DEF Allocate, events
  <2> QED
    BY <1>2, <2>5 DEF TypeOK, Threads, Allocate, Request, events, tables
<1>3. ASSUME NEW t \in Thread, NEW pc \in {"saveCancel", "saveRevoke", "saveCancelByCustomer"},
             NEW s, Begun(s), BeginGiveUp(t, pc, s), requests' = requests + 1
      PROVE  Typed'
  <2>1. s \in ServiceObject
    BY <1>3, BegunType
  <2>2. ProcessOK(At(pc, NoAgent, s)) /\ pc \in PC /\ pc # "lookupHandling"
    BY DEF ProcessOK, At, PC, TakePC
  <2>3. Threads'
    BY <1>3, <2>1, <2>2, StartType DEF BeginGiveUp, events
  <2> QED
    BY <1>3, <2>3 DEF TypeOK, Threads, BeginGiveUp, events, tables
<1>4. ASSUME NEW t \in Thread, NEW p \in ServiceProvider, Cancel(t, p)
      PROVE  Typed'
  BY <1>3, <1>4 DEF Cancel, Request, Begun, Cancelled
<1>5. ASSUME NEW t \in Thread, Revoke(t) \/ Fail(t)
      PROVE  Typed'
  BY <1>3, <1>5 DEF Revoke, Fail, Request, Begun
<1>6. ASSUME NEW t \in Thread, CancelByCustomer(t)
      PROVE  Typed'
  BY <1>3, <1>6 DEF CancelByCustomer, Request, Begun, Cancelled
<1>7. ASSUME NEW t \in Thread, Handle(t)
      PROVE  Typed'
  <2>1. ProcessOK(At("record", NoAgent, Loaded)) /\ "record" \in PC
    BY DEF ProcessOK, At, PC, TakePC
  <2>2. Threads'
    BY <1>7, <2>1, LoadedType, StartType DEF Handle, events
  <2> QED
    BY <1>7, <2>2 DEF TypeOK, Threads, Handle, Request, events, tables
<1>8. CASE FindTimedOut
  <2>1. todo' \in [Task -> Nat]
    BY <1>8, PublishType DEF FindTimedOut
  <2> QED
    BY <1>8, <2>1 DEF TypeOK, Threads, Running, FindTimedOut, Request, events, tables
<1>9. ASSUME NEW status \in {"FAILED", "SUCCEEDED"}, Pay(status)
      PROVE  Typed'
  <2>1. todo' \in [Task -> Nat]
    BY <1>9, PublishType DEF Pay
  <2> QED
    BY <1>9, <2>1 DEF TypeOK, Threads, Running, Pay, Request, tables
<1>10. ASSUME NEW i \in DOMAIN responses, NEW status \in {"FAILED", "SUCCEEDED"},
              Override(i, status)
       PROVE  Typed'
  <2>1. todo' \in [Task -> Nat]
    BY <1>10, PublishType DEF Override
  <2> QED
    BY <1>10, <2>1 DEF TypeOK, Threads, Running, Override, Request, tables
<1> QED
  BY <1>1, <1>2, <1>4, <1>5, <1>6, <1>7, <1>8, <1>9, <1>10
     DEF Requested, Accept, ManualAssign, Request

\* as do the steps of a call,
LEMMA ResumeType ==
  ASSUME Typed, NEW t \in Thread, Resume(t)
  PROVE  Typed'
<1> USE DEF Typed
<1> DEFINE s == thread[t].service
           p == thread[t].agent
<1>t. /\ s \in ServiceObject /\ p \in ServiceProvider \cup {NoAgent}
      /\ ProcessOK(thread[t])
  BY ThreadType
<1> HIDE DEF s, p
<1>1. CASE Compare(t)
  <2> DEFINE q == [thread[t] EXCEPT !.compared = TRUE, !.changed = Changed(s)]
  <2>1. thread' = [thread EXCEPT ![t].compared = TRUE, ![t].changed = Changed(s)]
    BY <1>1 DEF Compare, s
  <2>2. thread' = [thread EXCEPT ![t] = q] /\ q \in Process
        /\ q.pc = thread[t].pc /\ q.agent = thread[t].agent /\ q.service = thread[t].service
    BY <2>1 DEF Threads, Process, Changed
  <2> HIDE DEF q
  <2>3. Threads'
    BY <1>1, <2>2 DEF Compare, Threads, Running, ProcessOK, events
  <2> QED
    BY <1>1, <2>3 DEF TypeOK, Threads, Compare, events, tables, bounds
<1>2. CASE SaveAccept(t) \/ SaveManual(t)
  BY <1>2, SaveThenType DEF SaveAccept, SaveManual, PC, TakePC
<1>3. CASE SaveAllocate(t)
  BY <1>3, SaveThenType DEF SaveAllocate, PC, TakePC
<1>4. CASE SaveExpire(t) \/ SaveRestart(t) \/ SavePayment(t) \/ SaveHandling(t)
  BY <1>4, SaveThenType DEF SaveExpire, SaveRestart, SavePayment, SaveHandling, PC, TakePC
<1>5. CASE SaveCancel(t) \/ SaveRevoke(t) \/ SaveCancelByCustomer(t) \/ SavePatch(t)
  BY <1>5, SaveAndPublishType DEF SaveCancel, SaveRevoke, SaveCancelByCustomer, SavePatch
<1>6. CASE InsertManual(t)
  <2>1. p \in Dispatcher /\ ProcessOK(At("acceptMine", p, s))
    BY <1>t, <1>6 DEF InsertManual, Running, ProcessOK, At, TakePC, s, p
  <2>2. Threads'
    BY <1>t, <1>6, <2>1, MoveType DEF InsertManual, Goto, Continue, PC, events, s, p
  <2> QED
    BY <1>6, <2>1, <2>2 DEF TypeOK, Threads, InsertManual, Assignment, AssignmentStatus,
                            events, bounds, p
<1>7. CASE AcceptMine(t)
  <2>1. ProcessOK(At("failOthers", p, s))
    BY <1>t, <1>7 DEF AcceptMine, Running, ProcessOK, At, TakePC, s, p
  <2>2. Threads'
    BY <1>t, <1>7, <2>1, MoveType DEF AcceptMine, Goto, Continue, PC, events, s, p
  <2>3. assignments' \subseteq Assignment
    BY <1>7 DEF TypeOK, AcceptMine, WithStatus, Assignment, AssignmentStatus
  <2> QED
    BY <1>7, <2>2, <2>3 DEF TypeOK, Threads, AcceptMine, events, bounds
<1>8. CASE FailOthers(t)
  <2>1. ASSUME s.worker = p
        PROVE  Threads'
    <3>1. ProcessOK(At("appoint", p, s))
      BY <1>t, <1>8, <2>1, ServiceAssumption
         DEF FailOthers, Running, ProcessOK, At, TakePC, s, p, ServiceProvider, Dispatcher
    <3> QED
      BY <1>t, <1>8, <2>1, <3>1, MoveType DEF FailOthers, Goto, Continue, PC, events, s, p
  <2>2. ASSUME s.worker # p
        PROVE  Threads'
    BY <1>8, <2>2, IdleType DEF FailOthers, events, s, p
  <2>3. assignments' \subseteq Assignment
    BY <1>8 DEF TypeOK, FailOthers, WithStatus, Assignment, AssignmentStatus
  <2> QED
    BY <1>8, <2>1, <2>2, <2>3 DEF TypeOK, Threads, FailOthers, events, bounds
<1>9. CASE Appoint(t)
  <2>1. s.dispatcher \in Dispatcher /\ s.worker \in Worker \cup Independent
    BY <1>t, <1>9 DEF Appoint, Running, ProcessOK, s
  <2>2. appointments' \subseteq Appointment
    BY <1>9, <2>1 DEF TypeOK, Appoint, Appointment, AppointmentStatus, s
  <2>3. todo' \in [Task -> Nat] /\ Threads'
    BY <1>9, PublishType, IdleType DEF Appoint, events
  <2> QED
    BY <1>9, <2>2, <2>3 DEF TypeOK, Threads, Appoint, events, bounds
<1>10. CASE FailPending(t)
  <2>1. assignments' \subseteq Assignment
    BY <1>10 DEF TypeOK, FailPending, WithStatus, Assignment, AssignmentStatus
  <2> QED
    BY <1>10, <2>1, IdleType DEF TypeOK, Threads, FailPending, events, bounds
<1>11. CASE Enqueue(t)
  BY <1>11, IdleType DEF TypeOK, Threads, Enqueue, events, tables, bounds
<1>12. CASE Offer(t)
  <2>1. assignments' \subseteq Assignment
    BY <1>12 DEF TypeOK, Offer, Candidates, Assignment, AssignmentStatus
  <2> QED
    BY <1>12, <2>1, IdleType DEF TypeOK, Threads, Offer, events, bounds
<1>13. CASE LookupPayment(t)
  <2> DEFINE n == DerivedFromPaymentHistory(s, LoadResponse(Len(responses)))
  <2>1. Begun(n)
    BY DEF Begun, s
  <2>2. n \in ServiceObject /\ ProcessOK(At("savePayment", p, n))
    BY <2>1, BegunType DEF ProcessOK, At, TakePC
  <2> HIDE DEF n
  <2>3. thread' = [thread EXCEPT ![t] = At("savePayment", p, n)]
    BY <1>13 DEF LookupPayment, Continue, n, s, p
  <2>4. Threads'
    BY <1>t, <1>13, <2>2, <2>3, MoveType DEF LookupPayment, PC, events
  <2> QED
    BY <1>13, <2>4 DEF TypeOK, Threads, LookupPayment, events, tables, bounds
<1>14. CASE RefetchPayment(t) \/ RefetchHandling(t)
  <2>1. todo' \in [Task -> Nat] /\ Threads'
    BY <1>14, PublishType, IdleType DEF RefetchPayment, RefetchHandling, events
  <2> QED
    BY <1>14, <2>1 DEF TypeOK, Threads, RefetchPayment, RefetchHandling, events, tables, bounds
<1>15. CASE Record(t)
  <2>1. NextHandlingEventType(s) \in HandlingEventType
    BY DEF NextHandlingEventType, HandlingEventType
  <2>2. history' \in Seq(HandlingEventType) /\ history' # <<>>
    BY <1>15, <2>1 DEF Record, TypeOK, s
  <2>3. ProcessOK(At("lookupHandling", p, s))
    BY DEF ProcessOK, At, TakePC
  <2>4. Threads'
    BY <1>t, <1>15, <2>2, <2>3, MoveType DEF Record, Goto, Continue, PC, s, p
  <2> QED
    BY <1>15, <2>2, <2>4 DEF TypeOK, Threads, Record, tables, bounds
<1>16. CASE LookupHandling(t)
  <2> DEFINE n == DerivedFromHandlingHistory(s, history[Len(history)])
  <2>1. Begun(n)
    BY <1>16 DEF LookupHandling, Threads, Begun, s
  <2>2. n \in ServiceObject /\ ProcessOK(At("saveHandling", p, n))
    BY <2>1, BegunType DEF ProcessOK, At, TakePC
  <2> HIDE DEF n
  <2>3. thread' = [thread EXCEPT ![t] = At("saveHandling", p, n)]
    BY <1>16 DEF LookupHandling, Continue, n, s, p
  <2>4. Threads'
    BY <1>t, <1>16, <2>2, <2>3, MoveType DEF LookupHandling, PC, events
  <2> QED
    BY <1>16, <2>4 DEF TypeOK, Threads, LookupHandling, events, tables, bounds
<1> QED
  BY <1>1, <1>2, <1>3, <1>4, <1>5, <1>6, <1>7, <1>8, <1>9, <1>10, <1>11, <1>12, <1>13,
     <1>14, <1>15, <1>16 DEF Resume

\* the handlers and tickets that a thread takes up,
LEMMA TakeUpType ==
  ASSUME Typed, NEW t \in Thread, TakeUp(t)
  PROVE  Typed'
<1> USE DEF Typed
<1>1. ASSUME NEW name \in TaskName, Take(TaskOf(name))
      PROVE  todo' \in [Task -> Nat]
  BY <1>1, TakeType, TaskType
<1>2. ASSUME NEW pc \in {"saveRestart", "lookupPayment", "saveExpire", "savePatch", "offer"},
             NEW s, Begun(s), Start(t, pc, NoAgent, s), UNCHANGED history
      PROVE  Threads'
  <2>1. s \in ServiceObject
    BY <1>2, BegunType
  <2>2. ProcessOK(At(pc, NoAgent, s)) /\ pc \in PC /\ pc # "lookupHandling"
    BY DEF ProcessOK, At, PC, TakePC
  <2> QED
    BY <1>2, <2>1, <2>2, StartType
<1>3. Begun(Loaded) /\ Begun(Restarted(Loaded)) /\ Begun(ExpiredBySystem(LoadedByGet))
  BY DEF Begun
<1>4. CASE InitiateAutoAssignment(t)
  <2>1. todo' \in [Task -> Nat] /\ Threads'
    BY <1>1, <1>2, <1>3, <1>4 DEF InitiateAutoAssignment, TaskName, events
  <2> QED
    BY <1>4, <2>1 DEF TypeOK, Threads, InitiateAutoAssignment, events, tables, bounds
<1>5. CASE PaymentResponded(t)
  <2>1. todo' \in [Task -> Nat] /\ Threads'
    BY <1>1, <1>2, <1>3, <1>5 DEF PaymentResponded, TaskName, events
  <2> QED
    BY <1>5, <2>1 DEF TypeOK, Threads, PaymentResponded, events, tables, bounds
<1>6. CASE Expire(t)
  <2>1. todo' \in [Task -> Nat] /\ Threads'
    BY <1>1, <1>2, <1>3, <1>6 DEF Expire, TaskName, events
  <2> QED
    BY <1>6, <2>1 DEF TypeOK, Threads, Expire, events, tables, bounds
<1>7. CASE PatchCRM(t)
  <2>1. todo' \in [Task -> Nat] /\ Threads'
    BY <1>1, <1>2, <1>3, <1>7 DEF PatchCRM, TaskName, events
  <2> QED
    BY <1>7, <2>1 DEF TypeOK, Threads, PatchCRM, events, tables, bounds
<1>8. CASE ReadTicket(t)
  <2>1. Threads'
    BY <1>2, <1>3, <1>8 DEF ReadTicket, events
  <2> QED
    BY <1>8, <2>1 DEF TypeOK, Threads, ReadTicket, TicketReady, events, tables, bounds
<1> QED
  BY <1>4, <1>5, <1>6, <1>7, <1>8 DEF TakeUp

\* the handlers that need no thread,
LEMMA DeliverType ==
  ASSUME Typed, Deliver
  PROVE  Typed'
<1> USE DEF Typed, events, bounds
<1>1. CASE DismissPayment
  <2>1. todo' \in [Task -> Nat]
    BY <1>1, TakeType, TaskType DEF DismissPayment, TaskName
  <2> QED
    BY <1>1, <2>1 DEF TypeOK, Threads, Running, DismissPayment, tables
<1>2. CASE DropTicket
  BY <1>2 DEF TypeOK, Threads, Running, DropTicket, TicketReady, tables
<1>3. CASE CancelAssignments
  <2>1. TaskOf("cancelAssignments") \in Task /\ TaskOf("cancelAppointments") \in Task
    BY TaskType DEF TaskName
  <2>2. assignments' \subseteq Assignment
    BY <1>3 DEF CancelAssignments, UpdateAssignments, WithStatus, TypeOK, Assignment, AssignmentStatus
  <2>3. todo' \in [Task -> Nat]
    BY <1>3, <2>1 DEF CancelAssignments, UpdateAssignments, TypeOK
  <2> QED
    BY <1>3, <2>2, <2>3 DEF TypeOK, Threads, Running, CancelAssignments, UpdateAssignments
<1>4. CASE RevokeAssignments
  <2>1. TaskOf("revokeAssignments") \in Task /\ TaskOf("revokeAppointments") \in Task
    BY TaskType DEF TaskName
  <2>2. assignments' \subseteq Assignment
    BY <1>4 DEF RevokeAssignments, UpdateAssignments, WithStatus, TypeOK, Assignment, AssignmentStatus
  <2>3. todo' \in [Task -> Nat]
    BY <1>4, <2>1 DEF RevokeAssignments, UpdateAssignments, TypeOK
  <2> QED
    BY <1>4, <2>2, <2>3 DEF TypeOK, Threads, Running, RevokeAssignments, UpdateAssignments
<1>5. CASE CancelAppointments
  <2>1. todo' \in [Task -> Nat]
    BY <1>5, TakeType, TaskType DEF CancelAppointments, UpdateAppointments, TaskName
  <2>2. appointments' \subseteq Appointment
    BY <1>5 DEF CancelAppointments, UpdateAppointments, WithStatus, TypeOK, Appointment,
                AppointmentStatus
  <2> QED
    BY <1>5, <2>1, <2>2 DEF TypeOK, Threads, Running, CancelAppointments, UpdateAppointments
<1>6. CASE RevokeAppointments
  <2>1. todo' \in [Task -> Nat]
    BY <1>6, TakeType, TaskType DEF RevokeAppointments, UpdateAppointments, TaskName
  <2>2. appointments' \subseteq Appointment
    BY <1>6 DEF RevokeAppointments, UpdateAppointments, WithStatus, TypeOK, Appointment,
                AppointmentStatus
  <2> QED
    BY <1>6, <2>1, <2>2 DEF TypeOK, Threads, Running, RevokeAppointments, UpdateAppointments
<1>7. ASSUME NEW w \in ServiceProvider, ReplaceOthers(w)
      PROVE  Typed'
  <2>1. todo' \in [Task -> Nat]
    BY <1>7, TakeType, TaskType DEF ReplaceOthers, UpdateAppointments, TaskName
  <2>2. appointments' \subseteq Appointment
    BY <1>7 DEF ReplaceOthers, UpdateAppointments, WithStatus, TypeOK, Appointment,
                AppointmentStatus
  <2> QED
    BY <1>7, <2>1, <2>2 DEF TypeOK, Threads, Running, ReplaceOthers, UpdateAppointments
<1>8. ASSUME NEW w \in ServiceProvider \cup {NoAgent}, FulfilAppointments(w)
      PROVE  Typed'
  <2>1. todo' \in [Task -> Nat]
    BY <1>8, TakeType, TaskType DEF FulfilAppointments, UpdateAppointments, TaskName
  <2>2. appointments' \subseteq Appointment
    BY <1>8 DEF FulfilAppointments, UpdateAppointments, WithStatus, TypeOK, Appointment,
                AppointmentStatus
  <2> QED
    BY <1>8, <2>1, <2>2 DEF TypeOK, Threads, Running, FulfilAppointments, UpdateAppointments
<1> QED
  BY <1>1, <1>2, <1>3, <1>4, <1>5, <1>6, <1>7, <1>8 DEF Deliver

\* and a restart.
LEMMA CrashType ==
  ASSUME Typed, Crash
  PROVE  Typed'
<1> USE DEF Typed
<1>1. Idle \in Process /\ ProcessOK(Idle) /\ Idle.pc = "idle"
  BY CreatedServiceType DEF Idle, At, Process, PC, ProcessOK, TakePC
<1>2. Threads'
  BY <1>1 DEF Crash, Threads, Running
<1>3. Cardinality({t \in Thread : Running(t, "offer")}) \in Nat
  BY DispatchAssumption, FS_Subset, FS_CardinalityType
<1> QED
  BY <1>2, <1>3 DEF TypeOK, Threads, Crash, events, tables

\* Every step keeps the types.
LEMMA StepType ==
  ASSUME Typed, [Next]_vars
  PROVE  Typed'
<1>1. CASE TimePasses
  BY <1>1 DEF Typed, TypeOK, Threads, Running, TimePasses, tables, bounds
<1>2. CASE UNCHANGED vars
  BY <1>2 DEF Typed, TypeOK, Threads, Running, vars
<1> QED
  BY <1>1, <1>2, RequestedType, ResumeType, TakeUpType, DeliverType, CrashType DEF Next, Wait

\* At the start everything is typed.
LEMMA InitType == Init => Typed
<1> SUFFICES ASSUME Init PROVE Typed
  OBVIOUS
<1>1. Idle \in Process /\ ProcessOK(Idle) /\ Idle.pc = "idle"
  BY CreatedServiceType DEF Idle, At, Process, PC, ProcessOK, TakePC
<1>2. Threads
  BY <1>1 DEF Init, Threads, Running
<1>3. row \in Row
  BY CreatedServiceType DEF Init, Row, ServiceObject
<1>4. todo \in [Task -> Nat]
  BY DEF Init
<1>5. responses \in Seq({"FAILED", "SUCCEEDED"}) /\ history \in Seq(HandlingEventType)
  BY DEF Init
<1>6. assignments \subseteq Assignment /\ appointments \subseteq Appointment
  BY DEF Init
<1> QED
  BY <1>2, <1>3, <1>4, <1>5, <1>6 DEF Init, Typed, TypeOK, Threads

\* Every reachable state is typed: what the handlers rebuild, save, publish and
\* append always fits the row's columns and the tables.
THEOREM TypeCorrect == Spec => []TypeOK
<1>1. Spec => []Typed
  BY InitType, StepType, PTL DEF Spec
<1>2. Typed => TypeOK
  BY DEF Typed
<1> QED
  BY <1>1, <1>2, PTL

------------------------------------------------------------------------------
(* What a step can do to the row, the objects, the responses and the history   *)

RowSaved ==
  row' = row \/ \E t \in Thread : row' = Saved(thread[t].service, thread[t].changed)

ObjectsRebuilt ==
  \A t \in Thread : \/ thread'[t].service \in {thread[t].service, CreatedService}
                    \/ Begun(thread'[t].service)

ResponsesKeepSuccess ==
  \/ responses' = responses
  \/ \E status \in {"FAILED", "SUCCEEDED"} : responses' = Append(responses, status)
  \/ \E i \in DOMAIN responses, status \in {"FAILED", "SUCCEEDED"} :
       /\ responses[i] = "SUCCEEDED" => status = "SUCCEEDED"
       /\ responses' = [responses EXCEPT ![i] = status]

HistoryGrows ==
  \/ history' = history
  \/ \E t \in Thread : history' = Append(history, NextHandlingEventType(thread[t].service))

Stepped == RowSaved /\ ObjectsRebuilt /\ ResponsesKeepSuccess /\ HistoryGrows

\* An object in hand stays, is created, or is built from row and events.
LEMMA MoveRebuilds ==
  ASSUME Typed, NEW t \in Thread, NEW pc, NEW p, NEW s,
         thread' = [thread EXCEPT ![t] = At(pc, p, s)],
         s \in {thread[t].service, CreatedService} \/ Begun(s)
  PROVE  ObjectsRebuilt
<1>1. At(pc, p, s).service = s
  BY DEF At
<1>2. ASSUME NEW u \in Thread
      PROVE  thread'[u].service = IF u = t THEN s ELSE thread[u].service
  BY <1>1 DEF Typed, Threads
<1> QED
  BY <1>2 DEF ObjectsRebuilt

\* So it is whichever way a call goes on.
LEMMA MovesRebuild ==
  ASSUME Typed, NEW t \in Thread,
         \/ Finish(t)
         \/ \E pc \in PC : Goto(t, pc)
         \/ \E pc \in PC, p \in ServiceProvider \cup {NoAgent}, s \in ServiceObject :
              Begun(s) /\ Start(t, pc, p, s)
         \/ UNCHANGED thread
  PROVE  ObjectsRebuilt
BY MoveRebuilds DEF Finish, Idle, Goto, Continue, Start, ObjectsRebuilt

\* The calls make such steps,
LEMMA RequestedSteps ==
  ASSUME Typed, Requested
  PROVE  Stepped
<1> USE DEF Typed, Stepped, RowSaved, ResponsesKeepSuccess, HistoryGrows
<1>1. ASSUME NEW t \in Thread, NEW pc \in PC, NEW p \in ServiceProvider \cup {NoAgent}, NEW s,
             Begun(s), Start(t, pc, p, s), UNCHANGED <<row, events>>
      PROVE  Stepped
  <2>1. ObjectsRebuilt
    BY <1>1, MoveRebuilds DEF Start
  <2> QED
    BY <1>1, <2>1 DEF events
<1>2. ASSUME NEW t \in Thread, NEW p \in ServiceProvider, Accept(t, p) \/ ManualAssign(t, p)
      PROVE  Stepped
  BY <1>1, <1>2 DEF Accept, ManualAssign, BeginTake, Begun, PC
<1>3. ASSUME NEW t \in Thread, NEW dealer \in Dispatcher, NEW w \in Worker, Allocate(t, dealer, w)
      PROVE  Stepped
  BY <1>1, <1>3 DEF Allocate, Begun, PC, ServiceProvider, Dispatcher
<1>4. ASSUME NEW t \in Thread, NEW p \in ServiceProvider, Cancel(t, p)
      PROVE  Stepped
  BY <1>1, <1>4 DEF Cancel, BeginGiveUp, Begun, PC, Cancelled
<1>5. ASSUME NEW t \in Thread, Revoke(t) \/ Fail(t)
      PROVE  Stepped
  BY <1>1, <1>5 DEF Revoke, Fail, BeginGiveUp, Begun, PC
<1>6. ASSUME NEW t \in Thread, CancelByCustomer(t)
      PROVE  Stepped
  BY <1>1, <1>6 DEF CancelByCustomer, BeginGiveUp, Begun, PC, Cancelled
<1>7. ASSUME NEW t \in Thread, Handle(t)
      PROVE  Stepped
  BY <1>1, <1>7 DEF Handle, Begun, PC
<1>8. CASE FindTimedOut
  BY <1>8 DEF FindTimedOut, ObjectsRebuilt, events
<1>9. ASSUME NEW status \in {"FAILED", "SUCCEEDED"}, Pay(status)
      PROVE  Stepped
  BY <1>9 DEF Pay, ObjectsRebuilt
<1>10. ASSUME NEW i \in DOMAIN responses, NEW status \in {"FAILED", "SUCCEEDED"},
              Override(i, status)
       PROVE  Stepped
  BY <1>10 DEF Override, ObjectsRebuilt
<1> QED
  BY <1>2, <1>3, <1>4, <1>5, <1>6, <1>7, <1>8, <1>9, <1>10 DEF Requested

\* and so does what follows of them.
LEMMA ResumeSteps ==
  ASSUME Typed, NEW t \in Thread, Resume(t)
  PROVE  Stepped
<1> USE DEF Stepped, RowSaved, ResponsesKeepSuccess, HistoryGrows, events
<1>1. CASE Compare(t)
  <2>1. ASSUME NEW u \in Thread
        PROVE  thread'[u].service = thread[u].service
    BY <1>1 DEF Compare, Typed, Threads, Process
  <2> QED
    BY <1>1, <2>1 DEF Compare, ObjectsRebuilt
<1>2. ASSUME NEW pc \in PC, NEW next \in PC, SaveThen(t, pc, next)
      PROVE  Stepped
  BY <1>2, MovesRebuild DEF SaveThen, Update
<1>3. ASSUME NEW pc, NEW tasks, SaveAndPublish(t, pc, tasks)
      PROVE  Stepped
  BY <1>3, MovesRebuild DEF SaveAndPublish, Update
<1>4. CASE \/ SaveAccept(t) \/ SaveManual(t) \/ SaveAllocate(t) \/ SaveExpire(t)
           \/ SaveRestart(t) \/ SavePayment(t) \/ SaveHandling(t)
  BY <1>2, <1>4 DEF SaveAccept, SaveManual, SaveAllocate, SaveExpire, SaveRestart,
                    SavePayment, SaveHandling, PC
<1>5. CASE SaveCancel(t) \/ SaveRevoke(t) \/ SaveCancelByCustomer(t) \/ SavePatch(t)
  BY <1>3, <1>5 DEF SaveCancel, SaveRevoke, SaveCancelByCustomer, SavePatch
<1>6. CASE InsertManual(t) \/ AcceptMine(t)
  BY <1>6, MovesRebuild DEF InsertManual, AcceptMine, PC
<1>7. CASE FailOthers(t)
  BY <1>7, MovesRebuild DEF FailOthers, PC
<1>8. CASE Appoint(t) \/ FailPending(t) \/ Enqueue(t) \/ Offer(t)
  BY <1>8, MovesRebuild DEF Appoint, FailPending, Enqueue, Offer
<1>9. CASE RefetchPayment(t) \/ RefetchHandling(t)
  BY <1>9, MovesRebuild DEF RefetchPayment, RefetchHandling
<1>10. CASE LookupPayment(t)
  <2>1. ObjectsRebuilt
    BY <1>10, MoveRebuilds DEF LookupPayment, Continue, Begun
  <2> QED
    BY <1>10, <2>1 DEF LookupPayment
<1>11. CASE Record(t)
  BY <1>11, MovesRebuild DEF Record, PC
<1>12. CASE LookupHandling(t)
  <2>1. history # <<>>
    BY <1>12 DEF LookupHandling, Typed, Threads
  <2>2. ObjectsRebuilt
    BY <1>12, <2>1, MoveRebuilds DEF LookupHandling, Continue, Begun
  <2> QED
    BY <1>12, <2>2 DEF LookupHandling
<1> QED
  BY <1>1, <1>4, <1>5, <1>6, <1>7, <1>8, <1>9, <1>10, <1>11, <1>12 DEF Resume

\* Every step leaves the row or writes columns of one object, and builds objects anew.
LEMMA Steps ==
  ASSUME Typed, [Next]_vars
  PROVE  Stepped
<1> USE DEF Stepped, RowSaved, ResponsesKeepSuccess, HistoryGrows, events
<1>1. ASSUME NEW t \in Thread, TakeUp(t)
      PROVE  Stepped
  <2>1. Begun(Loaded) /\ Begun(Restarted(Loaded)) /\ Begun(ExpiredBySystem(LoadedByGet))
    BY DEF Begun
  <2>2. UNCHANGED <<row, events>>
    BY <1>1 DEF TakeUp, InitiateAutoAssignment, PaymentResponded, Expire, PatchCRM, ReadTicket
  <2>3. \E pc, s : Begun(s) /\ Start(t, pc, NoAgent, s)
    BY <1>1, <2>1 DEF TakeUp, InitiateAutoAssignment, PaymentResponded, Expire, PatchCRM,
                      ReadTicket
  <2>4. ObjectsRebuilt
    BY <2>3, MoveRebuilds DEF Start
  <2> QED
    BY <2>2, <2>4
<1>2. CASE Deliver
  <2>1. UNCHANGED <<row, events, thread>>
    BY <1>2 DEF Deliver, DismissPayment, DropTicket, CancelAssignments, CancelAppointments,
                RevokeAssignments, RevokeAppointments, ReplaceOthers, FulfilAppointments,
                UpdateAssignments, UpdateAppointments
  <2> QED
    BY <2>1 DEF ObjectsRebuilt
<1>3. CASE TimePasses
  BY <1>3 DEF TimePasses, ObjectsRebuilt
<1>4. CASE Crash
  BY <1>4 DEF Crash, Idle, At, ObjectsRebuilt
<1>5. CASE UNCHANGED vars
  BY <1>5 DEF vars, ObjectsRebuilt
<1> QED
  BY <1>1, <1>2, <1>3, <1>4, <1>5, RequestedSteps, ResumeSteps DEF Next, Wait

------------------------------------------------------------------------------
(* No dispatch before payment.  While no payment has succeeded, neither the    *)
(* row nor any object in memory knows of a payment or of a provider: a stale   *)
(* object is harmless because it was unsold when it was read.                  *)

UnsoldObject(s) ==
  /\ s.response.status # "SUCCEEDED" /\ s.paymentStatus # "SUCCEEDED"
  /\ s.dispatcher \in {NoAgent, Unset}
  /\ s.allocationStatus = "UNASSIGNED"

UnsoldRow ==
  /\ row.paymentStatus # "SUCCEEDED"
  /\ row.dispatcher = NoAgent
  /\ row.allocationStatus = "UNASSIGNED"

Unsold == UnsoldRow /\ \A t \in Thread : UnsoldObject(thread[t].service)

SoldWhenPaid == PaymentGatewayEnabled => MoneyReceived \/ Unsold

\* The constructor sells nothing unless its response is a success.
LEMMA NewServiceUnsold ==
  ASSUME NEW lastEvent, NEW dispatcher \in {NoAgent, Unset}, NEW worker,
         NEW response \in Response, response.status # "SUCCEEDED", NEW cancellation
  PROVE  UnsoldObject(NewService(lastEvent, dispatcher, worker, response, cancellation))
<1>1. CalculateAllocationStatus(dispatcher, worker) = "UNASSIGNED"
  BY ServiceAssumption DEF CalculateAllocationStatus
<1> QED
  BY <1>1 DEF NewService, UnsoldObject

\* Nor does what is built from a row that is not sold.
LEMMA BegunUnsold ==
  ASSUME Typed, PaymentGatewayEnabled, ~MoneyReceived, Unsold, NEW s, Begun(s)
  PROVE  UnsoldObject(s)
<1> USE DEF Typed
<1>1. ASSUME NEW id \in Nat
      PROVE  LoadResponse(id) \in Response /\ LoadResponse(id).status # "SUCCEEDED"
  BY LoadResponseType DEF LoadResponse, MoneyReceived, NoResponse
<1>2. /\ UnsoldObject(Loaded) /\ UnsoldObject(LoadedByGet)
      /\ Loaded.response \in Response /\ LoadedByGet.response \in Response
      /\ Loaded.dispatcher = NoAgent
  BY <1>1 DEF Unsold, UnsoldRow, UnsoldObject, Loaded, LoadedByGet, TypeOK, Row
<1>3. ASSUME NEW p \in ServiceProvider
      PROVE  ~CanAssignToDispatcher(Loaded, p)
  BY <1>2 DEF CanAssignToDispatcher, HasCustomerPaid, UnsoldObject
<1>4. ASSUME NEW dealer \in Dispatcher
      PROVE  ~CanAllocateToWorker(Loaded, dealer)
  BY <1>2, ServiceAssumption DEF CanAllocateToWorker
<1>5. ASSUME NEW loaded \in {Loaded, LoadedByGet}, NEW status,
             s = ProviderTerminated(loaded, status)
      PROVE  UnsoldObject(s)
  BY <1>2, <1>5, NewServiceUnsold DEF ProviderTerminated, UnsoldObject
<1>6. ASSUME NEW markAsFailed \in BOOLEAN, s = Revoked(Loaded, markAsFailed)
      PROVE  UnsoldObject(s)
  BY <1>2, <1>6, NewServiceUnsold DEF Revoked, ProviderTerminated, UnsoldObject
<1>7. CASE s = ExpiredBySystem(LoadedByGet)
  <2> DEFINE expired == NewService("NULL", NoAgent, NoAgent, LoadedByGet.response, "NONE")
  <2>1. UnsoldObject(expired)
    BY <1>2, NewServiceUnsold DEF UnsoldObject
  <2>2. expired \in ServiceObject
    BY <1>2, NewServiceType DEF LastEvent
  <2>3. s = [expired EXCEPT !.paymentStatus = "FAILED", !.status = "FAILED_PAYMENT"]
    BY <1>7 DEF ExpiredBySystem
  <2> HIDE DEF expired
  <2> QED
    BY <2>1, <2>2, <2>3 DEF UnsoldObject, ServiceObject
<1>8. CASE s = Restarted(Loaded)
  BY <1>2, <1>8, NewServiceUnsold DEF Restarted, UnsoldObject
<1>9. ASSUME NEW t \in Thread,
             s = DerivedFromPaymentHistory(thread[t].service, LoadResponse(Len(responses)))
      PROVE  UnsoldObject(s)
  <2>1. LoadResponse(Len(responses)) \in Response /\ LoadResponse(Len(responses)).status # "SUCCEEDED"
    BY <1>1 DEF TypeOK
  <2> QED
    BY <1>9, <2>1, NewServiceUnsold DEF DerivedFromPaymentHistory, Unsold, UnsoldObject
<1>10. ASSUME NEW t \in Thread,
              s = DerivedFromHandlingHistory(thread[t].service, history[Len(history)])
       PROVE  UnsoldObject(s)
  <2>1. thread[t].service.response \in Response
    BY ThreadType DEF ServiceObject
  <2> QED
    BY <1>10, <2>1, NewServiceUnsold DEF DerivedFromHandlingHistory, Unsold, UnsoldObject
<1> QED
  BY <1>2, <1>3, <1>4, <1>5, <1>6, <1>7, <1>8, <1>9, <1>10 DEF Begun

\* A new request is not sold.
LEMMA CreatedUnsold == UnsoldObject(CreatedService)
BY NewServiceUnsold DEF CreatedService, NoResponse, Response, PaymentStatus

\* The gateway's success is kept.
LEMMA SuccessIsKept ==
  ASSUME Typed, ResponsesKeepSuccess, MoneyReceived
  PROVE  MoneyReceived'
<1>1. PICK i \in DOMAIN responses : responses[i] = "SUCCEEDED"
  BY DEF MoneyReceived
<1>2. responses \in Seq({"FAILED", "SUCCEEDED"})
  BY DEF Typed, TypeOK
<1>3. i \in DOMAIN responses' /\ responses'[i] = "SUCCEEDED"
  BY <1>1, <1>2 DEF ResponsesKeepSuccess
<1> QED
  BY <1>3 DEF MoneyReceived

\* No step sells what is not paid for.
LEMMA SoldStep ==
  ASSUME Typed, [Next]_vars, SoldWhenPaid
  PROVE  SoldWhenPaid'
<1> SUFFICES ASSUME PaymentGatewayEnabled, ~MoneyReceived'
             PROVE  Unsold'
  BY DEF SoldWhenPaid
<1>1. Stepped
  BY Steps
<1>2. ~MoneyReceived /\ Unsold
  BY <1>1, SuccessIsKept DEF Stepped, SoldWhenPaid
<1>3. UnsoldRow'
  <2>1. ASSUME NEW t \in Thread, row' = Saved(thread[t].service, thread[t].changed)
        PROVE  UnsoldRow'
    BY <1>2, <2>1, ServiceAssumption DEF Unsold, UnsoldRow, UnsoldObject, Saved, Written, Or,
       Typed, Threads, Process, ServiceObject
  <2> QED
    BY <1>1, <1>2, <2>1 DEF Stepped, RowSaved, Unsold, UnsoldRow
<1>4. ASSUME NEW t \in Thread
      PROVE  UnsoldObject(thread'[t].service)
  BY <1>1, <1>2, BegunUnsold, CreatedUnsold DEF Stepped, ObjectsRebuilt, Unsold
<1> QED
  BY <1>3, <1>4 DEF Unsold, UnsoldObject

\* A prepaid job reaches a provider only after a payment of its fee succeeded,
\* however the calls overlap: the guard of assignToDispatcher is enough although
\* it looks at what may be an old reading.
THEOREM PaidBeforeDispatched == Spec => []NoDispatchBeforePayment
<1> DEFINE Inv == Typed /\ SoldWhenPaid
<1>1. Init => Inv
  <2> SUFFICES ASSUME Init PROVE SoldWhenPaid
    BY InitType
  <2>1. UnsoldRow
    BY CreatedUnsold, CreatedServiceType, NewServiceType, ServiceAssumption
       DEF Init, UnsoldRow, UnsoldObject, ServiceObject
  <2>2. \A t \in Thread : thread[t].service = CreatedService
    BY DEF Init, Idle, At
  <2> QED
    BY <2>1, <2>2, CreatedUnsold DEF SoldWhenPaid, Unsold
<1>2. Inv /\ [Next]_vars => Inv'
  BY StepType, SoldStep
<1>3. Inv => NoDispatchBeforePayment
  BY DEF NoDispatchBeforePayment, SoldWhenPaid, Unsold, UnsoldRow
<1> QED
  BY <1>1, <1>2, <1>3, PTL DEF Spec

------------------------------------------------------------------------------
(* The progress of the work.  Whatever status the row or an object shows, and   *)
(* whatever event it holds as the last one, is in the handling history, which   *)
(* only grows: so a status that an old object brings back is old, never false.  *)

Recorded(e) == \E i \in DOMAIN history : history[i] = e

Truthful(s) ==
  /\ s.status = "STARTED"     => Recorded("START")
  /\ s.status = "IN_PROGRESS" => Recorded("IN_PROGRESS")
  /\ s.status = "FULFILLED"   => Recorded("FULLFIL")
  /\ s.lastEvent \in HandlingEventType => Recorded(s.lastEvent)

AllTruthful == Truthful(row) /\ \A t \in Thread : Truthful(thread[t].service)

\* The constructor shows an event only if it was recorded.
LEMMA NewServiceTruthful ==
  ASSUME NEW lastEvent, lastEvent \in HandlingEventType => Recorded(lastEvent),
         NEW dispatcher, NEW worker, NEW response, NEW cancellation
  PROVE  Truthful(NewService(lastEvent, dispatcher, worker, response, cancellation))
<1> DEFINE allocation == CalculateAllocationStatus(dispatcher, worker)
           status == CalculateStatus(lastEvent, response.status, allocation)
           s == NewService(lastEvent, dispatcher, worker, response, cancellation)
<1>1. allocation \in {"UNASSIGNED", "ASSIGNED", "ALLOCATED"}
  BY DEF CalculateAllocationStatus
<1>2. \/ lastEvent \in HandlingEventType /\ status = StatusOfEvent[lastEvent]
      \/ status \in {"AWAITING_PAYMENT", "UNASSIGNED", "ASSIGNED", "ALLOCATED"}
  BY <1>1 DEF CalculateStatus
<1>3. s.lastEvent = lastEvent /\ s.status \in Cancelled \cup {status}
  BY DEF NewService
<1> HIDE DEF allocation, status, s
<1>4. /\ status = "STARTED"     => lastEvent = "START"
      /\ status = "IN_PROGRESS" => lastEvent = "IN_PROGRESS"
      /\ status = "FULFILLED"   => lastEvent = "FULLFIL"
  BY <1>2 DEF StatusOfEvent, HandlingEventType
<1> QED
  BY <1>2, <1>3, <1>4 DEF Truthful, Cancelled, HandlingEventType, s

\* What is built from a truthful row is truthful.
LEMMA BegunTruthful ==
  ASSUME Typed, AllTruthful, NEW s, Begun(s)
  PROVE  Truthful(s)
<1>1. Truthful(Loaded) /\ Truthful(LoadedByGet)
  BY DEF AllTruthful, Truthful, Loaded, LoadedByGet, Typed, TypeOK, Row, HandlingEventType
<1>2. ASSUME NEW p, s = AssignedToDispatcher(Loaded, p)
      PROVE  Truthful(s)
  <2> DEFINE assigned == NewService(Loaded.lastEvent, p, Unset, Loaded.response, "NONE")
  <2>1. Truthful(assigned)
    BY <1>1, NewServiceTruthful DEF Truthful
  <2> HIDE DEF assigned
  <2>2. Truthful(AllocatedToWorker(assigned, p))
    BY <2>1, NewServiceTruthful DEF AllocatedToWorker, Truthful
  <2> QED
    BY <1>2, <2>1, <2>2 DEF AssignedToDispatcher, assigned
<1>3. ASSUME NEW w, s = AllocatedToWorker(Loaded, w)
      PROVE  Truthful(s)
  BY <1>1, <1>3, NewServiceTruthful DEF AllocatedToWorker, Truthful
<1>4. ASSUME NEW loaded \in {Loaded, LoadedByGet}, NEW status,
             s = ProviderTerminated(loaded, status)
      PROVE  Truthful(s)
  BY <1>1, <1>4, NewServiceTruthful DEF ProviderTerminated, Truthful
<1>5. ASSUME NEW markAsFailed, s = Revoked(Loaded, markAsFailed)
      PROVE  Truthful(s)
  BY <1>1, <1>5, NewServiceTruthful DEF Revoked, ProviderTerminated, Truthful
<1>6. CASE s = ExpiredBySystem(LoadedByGet)
  <2> DEFINE expired == NewService("NULL", NoAgent, NoAgent, LoadedByGet.response, "NONE")
  <2>r. LoadedByGet.response \in Response
    BY LoadedType DEF Typed, ServiceObject
  <2>1. expired \in ServiceObject /\ expired.lastEvent = "NULL"
    BY <2>r, NewServiceType DEF LastEvent
  <2>2. s = [expired EXCEPT !.paymentStatus = "FAILED", !.status = "FAILED_PAYMENT"]
    BY <1>6 DEF ExpiredBySystem
  <2> HIDE DEF expired
  <2> QED
    BY <2>1, <2>2 DEF Truthful, ServiceObject, HandlingEventType
<1>7. CASE s = Restarted(Loaded)
  BY <1>7, NewServiceTruthful DEF Restarted, HandlingEventType
<1>8. ASSUME NEW t \in Thread,
             s = DerivedFromPaymentHistory(thread[t].service, LoadResponse(Len(responses)))
      PROVE  Truthful(s)
  BY <1>8, NewServiceTruthful DEF DerivedFromPaymentHistory, AllTruthful, Truthful
<1>9. ASSUME NEW t \in Thread, history # <<>>,
             s = DerivedFromHandlingHistory(thread[t].service, history[Len(history)])
      PROVE  Truthful(s)
  <2>1. Recorded(history[Len(history)])
    BY <1>9 DEF Recorded, Typed, TypeOK
  <2> QED
    BY <1>9, <2>1, NewServiceTruthful DEF DerivedFromHandlingHistory
<1> QED
  BY <1>1, <1>2, <1>3, <1>4, <1>5, <1>6, <1>7, <1>8, <1>9 DEF Begun

\* The history only grows.
LEMMA RecordIsKept ==
  ASSUME Typed, HistoryGrows, NEW e, Recorded(e)
  PROVE  Recorded(e)'
<1>1. PICK i \in DOMAIN history : history[i] = e
  BY DEF Recorded
<1>2. i \in DOMAIN history' /\ history'[i] = e
  BY <1>1 DEF HistoryGrows, Typed, TypeOK
<1> QED
  BY <1>2 DEF Recorded

\* What was recorded stays recorded.
LEMMA TruthIsKept ==
  ASSUME Typed, HistoryGrows, NEW s, Truthful(s)
  PROVE  Truthful(s)'
<1>1. s.status = "STARTED" => Recorded("START")'
  BY RecordIsKept DEF Truthful
<1>2. s.status = "IN_PROGRESS" => Recorded("IN_PROGRESS")'
  BY RecordIsKept DEF Truthful
<1>3. s.status = "FULFILLED" => Recorded("FULLFIL")'
  BY RecordIsKept DEF Truthful
<1>4. s.lastEvent \in HandlingEventType => Recorded(s.lastEvent)'
  BY RecordIsKept DEF Truthful
<1> QED
  BY <1>1, <1>2, <1>3, <1>4 DEF Truthful

\* Every step keeps row and objects truthful.
LEMMA TruthfulStep ==
  ASSUME Typed, [Next]_vars, AllTruthful
  PROVE  AllTruthful'
<1>1. Stepped
  BY Steps
<1>2. Truthful(CreatedService)
  BY NewServiceTruthful DEF CreatedService, HandlingEventType
<1>3. Truthful(row')
  <2>1. ASSUME NEW t \in Thread, row' = Saved(thread[t].service, thread[t].changed)
        PROVE  Truthful(row')
    <3> DEFINE s == thread[t].service
    <3>1. row'.status \in {s.status, row.status} /\ row'.lastEvent \in {s.lastEvent, row.lastEvent}
      BY <2>1, ThreadType DEF Saved, Written, Or, Typed, ServiceObject
    <3>2. Truthful(s) /\ Truthful(row)
      BY DEF AllTruthful
    <3> HIDE DEF s
    <3> QED
      BY <3>1, <3>2 DEF Truthful
  <2> QED
    BY <1>1, <2>1 DEF Stepped, RowSaved, AllTruthful
<1>4. ASSUME NEW t \in Thread
      PROVE  Truthful(thread'[t].service)
  BY <1>1, <1>2, BegunTruthful DEF Stepped, ObjectsRebuilt, AllTruthful
<1> QED
  BY <1>1, <1>3, <1>4, TruthIsKept DEF Stepped, AllTruthful, Truthful

\* Work is recorded after travel only.
LEMMA TravelStep ==
  ASSUME Typed, [Next]_vars, AllTruthful, WorkFollowsTravel
  PROVE  WorkFollowsTravel'
<1>1. CASE history' = history
  BY <1>1 DEF WorkFollowsTravel
<1>2. ASSUME NEW t \in Thread, history' = Append(history, NextHandlingEventType(thread[t].service))
      PROVE  WorkFollowsTravel'
  <2> DEFINE e == NextHandlingEventType(thread[t].service)
  <2>1. e = "IN_PROGRESS" => Recorded("START")
    BY DEF NextHandlingEventType, AllTruthful, Truthful
  <2> HIDE DEF e
  <2>2. history \in Seq(HandlingEventType) /\ history' = Append(history, e)
    BY <1>2 DEF Typed, TypeOK, e
  <2> SUFFICES ASSUME NEW j \in DOMAIN history', history'[j] = "IN_PROGRESS"
               PROVE  \E i \in 1..(j - 1) : history'[i] = "START"
    BY DEF WorkFollowsTravel
  <2>3. CASE j \in DOMAIN history
    BY <2>2, <2>3 DEF WorkFollowsTravel
  <2>4. CASE j = Len(history) + 1
    BY <2>1, <2>2, <2>4 DEF Recorded
  <2> QED
    BY <2>2, <2>3, <2>4
<1>3. Stepped
  BY Steps
<1> QED
  BY <1>1, <1>2, <1>3 DEF Stepped, HistoryGrows

\* The status never shows a progress that was not recorded, and work is never
\* recorded as commenced before travel was, however cancellation, reassignment
\* and completion overlap.
THEOREM ProgressIsRecorded == Spec => []StatusTellsTruth
<1> DEFINE Inv == Typed /\ AllTruthful /\ WorkFollowsTravel
<1>1. Init => Inv
  <2> SUFFICES ASSUME Init PROVE AllTruthful /\ WorkFollowsTravel
    BY InitType
  <2>1. Truthful(CreatedService)
    BY NewServiceTruthful DEF CreatedService, HandlingEventType
  <2>2. Truthful(row)
    BY <2>1, CreatedServiceType DEF Init, Truthful, ServiceObject
  <2>3. \A t \in Thread : thread[t].service = CreatedService
    BY DEF Init, Idle, At
  <2> QED
    BY <2>1, <2>2, <2>3 DEF Init, AllTruthful, WorkFollowsTravel
<1>2. Inv /\ [Next]_vars => Inv'
  BY StepType, TruthfulStep, TravelStep
<1>3. Inv => StatusTellsTruth
  BY DEF AllTruthful, Truthful, Recorded, StatusTellsTruth
<1> QED
  BY <1>1, <1>2, <1>3, PTL DEF Spec

------------------------------------------------------------------------------
(* One request after the other.  When a request is made only at rest (Serial),  *)
(* one piece of work is under way at a time, apart from the clearing of the two *)
(* tables after a cancellation: a leading task, a ticket or a call.  So what a  *)
(* call has in hand was built from the row as it still is, and its save writes  *)
(* the whole object.                                                            *)

Leading  == {TaskOf(name) : name \in {"initiateAutoAssignment", "paymentResponded", "expire",
                                      "patchCRM"}}
Clearing == {TaskOf(name) : name \in {"cancelAssignments", "cancelAppointments",
                                      "revokeAssignments", "revokeAppointments"}}
ForWorker == [name : {"replaceOthers", "fulfilAppointments"}, worker : ServiceProvider \cup {NoAgent}]
Following == Clearing \cup ForWorker

Due(k)  == todo[k] > 0
Busy(t) == thread[t].pc # "idle"

Reoffering == {"saveRestart", "enqueue", "offer"}

OneLeads ==
  /\ \A t, u \in Thread : Busy(t) /\ Busy(u) => t = u
  /\ \A t \in Thread : Busy(t) => tickets = 0 /\ \A k \in Leading : todo[k] = 0
  /\ tickets \in {0, 1} /\ (tickets = 1 => \A k \in Leading : todo[k] = 0)
  /\ \A k, l \in Leading : Due(k) /\ Due(l) => k = l
  /\ \A k \in Leading : todo[k] \in {0, 1}

\* Beside the clearing a job is only offered again; beside the rest nothing goes on.
OneFollows ==
  /\ \A k, l \in Following : Due(k) /\ Due(l) => k = l
  /\ \A k \in Following : todo[k] \in {0, 1}
  /\ \A k \in Clearing : Due(k) =>
       /\ \A t \in Thread : Busy(t) => thread[t].pc \in Reoffering
       /\ \A l \in Leading : Due(l) => l = TaskOf("initiateAutoAssignment")
  /\ \A k \in ForWorker : Due(k) =>
       AllIdle /\ tickets = 0 /\ \A l \in Leading : todo[l] = 0

\* The columns of the row agree with each other.
RowAgrees ==
  /\ row.dispatcher \in Dispatcher <=> row.allocationStatus # "UNASSIGNED"
  /\ row.allocationStatus = "ALLOCATED" => row.worker \in Worker \cup Independent
  /\ row.allocationStatus # "UNASSIGNED" => HasCustomerPaid(row)
  /\ HasCustomerPaid(row) => row.response \in DOMAIN responses
                             /\ responses[row.response] = "SUCCEEDED"
  /\ row.response \in {0} \cup DOMAIN responses
  /\ row.status = "AWAITING_PAYMENT" => ~HasCustomerPaid(row)
  /\ row.status \in Cancelled \ {"FAILED"} => row.allocationStatus = "UNASSIGNED"

\* What a call is about to save was built from the row as it is.
Fresh(q) ==
  LET s == q.service
  IN  /\ q.pc \in {"saveAccept", "saveManual"} =>
           CanAssignToDispatcher(Loaded, q.agent) /\ s = AssignedToDispatcher(Loaded, q.agent)
      /\ q.pc = "saveAllocate" =>
           \E dealer \in Dispatcher, w \in Worker :
             /\ Loaded.worker # w /\ CanAllocateToWorker(Loaded, dealer)
             /\ s = AllocatedToWorker(Loaded, w)
      /\ q.pc = "saveCancel" => s = ProviderTerminated(Loaded, "CANCELLED_BY_SERVICE_PROVIDER")
      /\ q.pc = "saveRevoke" => \E failed \in BOOLEAN : s = Revoked(Loaded, failed)
      /\ q.pc = "saveCancelByCustomer" =>
           s = ProviderTerminated(LoadedByGet, "CANCELLED_BY_CUSTOMER")
      /\ q.pc = "saveExpire"  => s = ExpiredBySystem(LoadedByGet)
      /\ q.pc = "saveRestart" => s = Restarted(Loaded)
      /\ q.pc \in {"savePatch", "lookupPayment"} => s = Loaded
      /\ q.pc = "savePayment" => s = DerivedFromPaymentHistory(Loaded, LoadResponse(Len(responses)))
      /\ q.pc \in {"lookupPayment", "savePayment"} => ~HasCustomerPaid(row)
      /\ q.pc \in {"record", "lookupHandling", "saveHandling"} => CanHandle(Loaded)
      /\ q.pc \in {"record", "lookupHandling"} => s = Loaded
      /\ q.pc \in {"lookupHandling", "saveHandling"} =>
           history # <<>> /\ history[Len(history)] = NextHandlingEventType(Loaded)
      /\ q.pc = "saveHandling" => s = DerivedFromHandlingHistory(Loaded, history[Len(history)])
      /\ q.pc \in Saving /\ q.compared => q.changed = Changed(s)

\* What a call has saved the row still shows.
Placed(q) ==
  /\ q.pc \in {"insertManual", "acceptMine", "failOthers"} =>
       /\ row.dispatcher = q.agent /\ row.status # "FAILED"
       /\ IF q.service.worker = q.agent
          THEN row.worker = q.agent /\ row.allocationStatus = "ALLOCATED"
          ELSE row.allocationStatus = "ASSIGNED"
  /\ q.pc = "appoint" =>
       /\ row.dispatcher = q.service.dispatcher /\ row.worker = q.service.worker
       /\ row.status # "FAILED" /\ row.allocationStatus = "ALLOCATED"
  /\ q.pc = "refetchPayment" => row.allocationStatus = "UNASSIGNED"

RowFits ==
  /\ (\E k \in Clearing : Due(k)) => row.allocationStatus = "UNASSIGNED" \/ row.status = "FAILED"
  /\ (\/ Due(TaskOf("initiateAutoAssignment"))
      \/ \E t \in Thread : thread[t].pc = "saveRestart")
       => row.allocationStatus = "UNASSIGNED"

Hands == \A t \in Thread, q \in Process : q = thread[t] => Fresh(q) /\ Placed(q)

Orderly == OneLeads /\ OneFollows /\ RowAgrees /\ RowFits /\ Hands

\* The tables and the payment, until the process restarts.
Blocked == {a \in appointments : a.status = "ALLOCATED"}
OfRow   == [dispatcher |-> row.dispatcher, worker |-> row.worker, status |-> "ALLOCATED"]

Placing == {"insertManual", "acceptMine", "failOthers"}
Replacing(w)  == [name |-> "replaceOthers", worker |-> w]
Fulfilling(w) == [name |-> "fulfilAppointments", worker |-> w]
Appointee     == ServiceProvider \cup {NoAgent}

OffersAgree ==
  \A a \in assignments : a.status = "ACCEPTED" => a.provider = row.dispatcher

OffersSure ==
  /\ \A t \in Thread : thread[t].pc \notin Placing
  /\ ~Due(TaskOf("cancelAssignments")) /\ ~Due(TaskOf("revokeAssignments"))

NoneAccepted == \A a \in assignments : a.status # "ACCEPTED"
HalfCleared  == Due(TaskOf("cancelAppointments")) \/ Due(TaskOf("revokeAppointments"))

OffersKept == (OffersSure => OffersAgree) /\ (HalfCleared => NoneAccepted)

BlockedAgree ==
  /\ Blocked \subseteq (IF row.allocationStatus = "ALLOCATED" /\ row.status # "FAILED"
                        THEN {OfRow} ELSE {})
  /\ row.allocationStatus = "ALLOCATED" /\ row.status \notin {"FAILED", "FULFILLED"}
       => OfRow \in Blocked

BlockedSure ==
  /\ \A t \in Thread : thread[t].pc \notin Placing \cup {"appoint"}
  /\ \A k \in Clearing : ~Due(k)
  /\ \A w \in Appointee : ~Due(Replacing(w))

\* The new appointment is the only one of its worker; the others are replaced.
ReplacedNext(w) ==
  /\ w = row.worker /\ OfRow \in Blocked
  /\ row.allocationStatus = "ALLOCATED" /\ row.status # "FAILED"
  /\ \A a \in Blocked : a.worker = w => a = OfRow

Appointing ==
  /\ \A t \in Thread : thread[t].pc \in Placing => Blocked = {}
  /\ \A t \in Thread : thread[t].pc = "appoint" => \A a \in Blocked : a.worker # row.worker
  /\ \A w \in Appointee : Due(Replacing(w)) => ReplacedNext(w)
  /\ \A w \in Appointee : Due(Fulfilling(w)) => row.status = "FULFILLED"

BlockedKept == (BlockedSure => BlockedAgree) /\ Appointing

LastSucceeded == responses # <<>> /\ responses[Len(responses)] = "SUCCEEDED"

PaymentSure ==
  /\ \A t \in Thread : thread[t].pc \notin {"lookupPayment", "savePayment"}
  /\ ~Due(TaskOf("paymentResponded"))

Expiring == Due(TaskOf("expire")) \/ \E t \in Thread : thread[t].pc = "saveExpire"

PaymentKept ==
  /\ PaymentSure => (LastSucceeded => HasCustomerPaid(row))
  /\ Expiring => ~LastSucceeded /\ ~HasCustomerPaid(row)

TablesAgree == OffersKept /\ BlockedKept /\ PaymentKept

Settled == crashes = 0 => TablesAgree

------------------------------------------------------------------------------
(* Who is at work *)

\* Call t is alone, whatever is being cleared; Solo, nothing is.
Alone(t) ==
  /\ \A u \in Thread : u # t => ~Busy(u)
  /\ tickets = 0 /\ \A k \in Leading : todo[k] = 0

Solo(t) == Alone(t) /\ \A k \in Following : todo[k] = 0

Moved(t, pc) == \A u \in Thread : thread'[u].pc = IF u = t THEN pc ELSE thread[u].pc

\* Tasks of different names differ, and each leads, clears or follows.
LEMMA TaskNames ==
  /\ \A m, n : TaskOf(m) = TaskOf(n) => m = n
  /\ Leading \subseteq Task /\ Clearing \subseteq Task /\ ForWorker \subseteq Task
  /\ Leading \cap Following = {} /\ Clearing \cap ForWorker = {}
  /\ \A n : TaskOf(n) \in Leading <=> n \in {"initiateAutoAssignment", "paymentResponded",
                                             "expire", "patchCRM"}
  /\ \A n : TaskOf(n) \in Clearing <=> n \in {"cancelAssignments", "cancelAppointments",
                                              "revokeAssignments", "revokeAppointments"}
<1>1. \A m, n : TaskOf(m) = TaskOf(n) => m = n
  BY DEF TaskOf
<1>2. \A n \in TaskName : TaskOf(n) \in Task
  BY TaskType
<1>3. Leading \subseteq Task
  BY <1>2 DEF Leading, TaskName
<1>4. Clearing \subseteq Task
  BY <1>2 DEF Clearing, TaskName
<1>5. ForWorker \subseteq Task
  BY DEF ForWorker, Task, TaskName
<1>6. \A n : TaskOf(n) \in Leading <=> n \in {"initiateAutoAssignment", "paymentResponded",
                                             "expire", "patchCRM"}
  BY <1>1 DEF Leading
<1>7. \A n : TaskOf(n) \in Clearing <=> n \in {"cancelAssignments", "cancelAppointments",
                                              "revokeAssignments", "revokeAppointments"}
  BY <1>1 DEF Clearing
<1>8. \A k \in Leading : k \notin Clearing
  BY <1>7 DEF Leading
<1>9. \A k \in ForWorker : k.name \in {"replaceOthers", "fulfilAppointments"}
  BY DEF ForWorker
<1>10. \A k \in Leading : k.name \notin {"replaceOthers", "fulfilAppointments"}
  BY DEF Leading, TaskOf
<1>11. \A k \in Clearing : k.name \notin {"replaceOthers", "fulfilAppointments"}
  BY DEF Clearing, TaskOf
<1> QED
  BY <1>1, <1>3, <1>4, <1>5, <1>6, <1>7, <1>8, <1>9, <1>10, <1>11 DEF Following

\* A call that is put somewhere is there, and the others are where they were.
LEMMA MovedBy ==
  ASSUME Threads, NEW t \in Thread, NEW pc, NEW p, NEW s,
         thread' = [thread EXCEPT ![t] = At(pc, p, s)]
  PROVE  Moved(t, pc) /\ thread'[t] = At(pc, p, s)
BY DEF Threads, At, Moved

\* A call that ends is idle.
LEMMA FinishMoves ==
  ASSUME Threads, NEW t \in Thread, Finish(t)
  PROVE  Moved(t, "idle")
BY MovedBy DEF Finish, Idle

\* A busy call is alone, and tables are being cleared only while it offers the job anew.
LEMMA BusyAlone ==
  ASSUME OneLeads, OneFollows, NEW t \in Thread, Busy(t)
  PROVE  /\ Alone(t)
         /\ \A k \in ForWorker : ~Due(k)
         /\ thread[t].pc \notin Reoffering => \A k \in Clearing : ~Due(k)
BY DEF OneLeads, OneFollows, Alone, Busy, AllIdle, Running

\* Unless it does, nothing follows.
LEMMA BusySolo ==
  ASSUME Typed, OneLeads, OneFollows, NEW t \in Thread, Busy(t), thread[t].pc \notin Reoffering
  PROVE  Solo(t)
<1>1. \A k \in Following : todo[k] \in Nat /\ ~Due(k)
  BY BusyAlone, TaskNames DEF Following, Typed, TypeOK
<1>2. \A k \in Following : todo[k] = 0
  BY <1>1 DEF Due
<1> QED
  BY <1>2, BusyAlone DEF Solo

\* Where all is quiet a call that starts is the only one.
LEMMA QuietSolo ==
  ASSUME Quiet, NEW t \in Thread
  PROVE  Solo(t)
BY TaskNames DEF Quiet, NothingTodo, AllIdle, Running, Solo, Alone, Busy, Following

\* The call goes on, and nothing is published or queued.
LEMMA AloneGoesOn ==
  ASSUME Typed, OneFollows, NEW t \in Thread, NEW pc, Moved(t, pc), Alone(t),
         UNCHANGED <<todo, tickets>>,
         pc \in Reoffering, \A k \in ForWorker : ~Due(k)
  PROVE  OneLeads' /\ OneFollows'
<1>1. \A u \in Thread : u # t => thread'[u].pc = "idle"
  BY DEF Moved, Alone, Busy
<1>2. thread'[t].pc = pc
  BY DEF Moved
<1>3. OneLeads'
  BY <1>1 DEF OneLeads, Alone, Busy, Due
<1>4. OneFollows'
  BY <1>1, <1>2 DEF OneFollows, Alone, Busy, Due
<1> QED
  BY <1>3, <1>4

\* The only call goes on as the only one.
LEMMA SoloGoesOn ==
  ASSUME NEW t \in Thread, NEW pc, Moved(t, pc), Solo(t), UNCHANGED <<todo, tickets>>
  PROVE  OneLeads' /\ OneFollows'
<1>1. \A u \in Thread : u # t => thread'[u].pc = "idle"
  BY DEF Moved, Solo, Alone, Busy
<1>2. \A k \in Leading \cup Following : todo'[k] = 0
  BY DEF Solo, Alone
<1>3. OneLeads'
  BY <1>1, <1>2 DEF OneLeads, Solo, Alone, Busy, Due
<1>4. OneFollows'
  BY <1>2 DEF OneFollows, Due, Following
<1> QED
  BY <1>3, <1>4

\* It ends, and publishes at most one task that leads and one that follows.
LEMMA SoloEnds ==
  ASSUME Typed, NEW t \in Thread, Moved(t, "idle"), Solo(t), UNCHANGED tickets,
         NEW tasks, Publish(tasks),
         \A k, l \in Leading \cap tasks : k = l,
         \A k, l \in Following \cap tasks : k = l,
         ForWorker \cap tasks # {} => Leading \cap tasks = {},
         Clearing \cap tasks # {} => Leading \cap tasks \subseteq {TaskOf("initiateAutoAssignment")}
  PROVE  OneLeads' /\ OneFollows'
<1>1. \A u \in Thread : thread'[u].pc = "idle"
  BY DEF Moved, Solo, Alone, Busy
<1>2. \A k \in Leading \cup Following : todo'[k] = IF k \in tasks THEN 1 ELSE 0
  BY TaskNames DEF Solo, Alone, Publish, Following
<1>3. tickets' = 0
  BY DEF Solo, Alone
<1>4. OneLeads'
  BY <1>1, <1>2, <1>3 DEF OneLeads, Busy, Due
<1>5. \A k, l \in Following : Due(k)' /\ Due(l)' => k = l
  BY <1>2 DEF Due
<1>6. \A k \in Clearing : Due(k)' =>
       \A l \in Leading : Due(l)' => l = TaskOf("initiateAutoAssignment")
  BY <1>2 DEF Due, Following
<1>7. \A k \in ForWorker : Due(k)' => \A l \in Leading : todo'[l] = 0
  BY <1>2 DEF Due, Following
<1>8. AllIdle'
  BY <1>1 DEF AllIdle, Running
<1> QED
  BY <1>1, <1>2, <1>3, <1>4, <1>5, <1>6, <1>7, <1>8 DEF OneFollows, Busy

\* An offer round ends, with a ticket or without.
LEMMA ReofferEnds ==
  ASSUME Typed, OneFollows, NEW t \in Thread, Moved(t, "idle"), Alone(t),
         tickets' \in {0, 1}, UNCHANGED todo, \A k \in ForWorker : ~Due(k)
  PROVE  OneLeads' /\ OneFollows'
<1>1. \A u \in Thread : thread'[u].pc = "idle"
  BY DEF Moved, Alone, Busy
<1>2. \A k \in Leading : todo'[k] = 0
  BY DEF Alone
<1>3. OneLeads'
  BY <1>1, <1>2 DEF OneLeads, Busy, Due
<1>4. OneFollows'
  BY <1>1, <1>2 DEF OneFollows, Busy, Due
<1> QED
  BY <1>3, <1>4

\* Nobody is at work while a leading task or a ticket waits.
LEMMA WaitingAlone ==
  ASSUME Typed, OneLeads, NEW t \in Thread,
         \/ \E k \in Leading : /\ Due(k) /\ todo'[k] = todo[k] - 1 /\ UNCHANGED tickets
                              /\ \A l \in Leading : l # k => todo'[l] = todo[l]
         \/ tickets > 0 /\ tickets' = tickets - 1 /\ UNCHANGED todo
  PROVE  /\ \A u \in Thread : ~Busy(u)
         /\ tickets' = 0 /\ \A k \in Leading : todo'[k] = 0
<1>1. CASE tickets > 0 /\ tickets' = tickets - 1 /\ UNCHANGED todo
  BY <1>1 DEF OneLeads, Busy
<1>2. ASSUME NEW k \in Leading, Due(k), todo'[k] = todo[k] - 1, UNCHANGED tickets,
             \A l \in Leading : l # k => todo'[l] = todo[l]
      PROVE  /\ \A u \in Thread : ~Busy(u)
             /\ tickets' = 0 /\ \A l \in Leading : todo'[l] = 0
  <2>1. \A l \in Leading : todo[l] \in {0, 1}
    BY DEF OneLeads
  <2>2. todo[k] = 1
    BY <1>2, <2>1 DEF Due
  <2>3. \A l \in Leading : l # k => ~Due(l)
    BY <1>2 DEF OneLeads
  <2>4. \A l \in Leading : l # k => todo[l] = 0
    BY <2>1, <2>3 DEF Due
  <2>5. \A l \in Leading : todo'[l] = 0
    BY <1>2, <2>2, <2>4
  <2>6. \A u \in Thread : ~Busy(u)
    BY <2>2 DEF OneLeads, Due
  <2>7. tickets = 0
    BY <2>2 DEF OneLeads
  <2> QED
    BY <1>2, <2>5, <2>6, <2>7
<1>3. CASE \E k \in Leading : /\ Due(k) /\ todo'[k] = todo[k] - 1 /\ UNCHANGED tickets
                             /\ \A l \in Leading : l # k => todo'[l] = todo[l]
  <2>1. PICK k \in Leading : /\ Due(k) /\ todo'[k] = todo[k] - 1 /\ UNCHANGED tickets
                             /\ \A l \in Leading : l # k => todo'[l] = todo[l]
    BY <1>3
  <2> QED
    BY <1>2, <2>1
<1> QED
  BY <1>1, <1>3

\* A call takes up a task or a ticket; or one of them is dropped.
LEMMA TakenUp ==
  ASSUME Typed, OneFollows, NEW t \in Thread, NEW pc, Moved(t, pc),
         \A u \in Thread : ~Busy(u),
         tickets' = 0, \A k \in Leading : todo'[k] = 0,
         \A k \in Following : todo'[k] = todo[k],
         pc \in Reoffering \cup {"idle"} \/ \A k \in Following : ~Due(k),
         \A k \in ForWorker : ~Due(k)
  PROVE  OneLeads' /\ OneFollows'
<1>1. \A u \in Thread : u # t => thread'[u].pc = "idle"
  BY DEF Moved, Busy
<1>2. thread'[t].pc = pc
  BY DEF Moved
<1>3. OneLeads'
  BY <1>1 DEF OneLeads, Busy, Due
<1>4. \A k \in Following : Due(k)' <=> Due(k)
  BY DEF Due
<1>5. \A k, l \in Following : Due(k)' /\ Due(l)' => k = l
  BY <1>4 DEF OneFollows
<1>6. \A k \in Following : todo'[k] \in {0, 1}
  BY DEF OneFollows
<1>7. \A k \in Clearing : Due(k)' => \A u \in Thread : Busy(u)' => thread'[u].pc \in Reoffering
  BY <1>1, <1>2, <1>4 DEF Busy, Following
<1>8. \A k \in Leading : ~Due(k)'
  BY DEF Due
<1>9. \A k \in ForWorker : ~Due(k)'
  BY <1>4 DEF Following
<1> QED
  BY <1>3, <1>5, <1>6, <1>7, <1>8, <1>9 DEF OneFollows

\* While something waits that leads to a call, nothing is due for a worker, and tables
\* are cleared only if what waits is the search that begins anew.
LEMMA WaitingFollows ==
  ASSUME OneFollows, NEW k \in Leading, Due(k)
  PROVE  /\ \A l \in ForWorker : ~Due(l)
         /\ k # TaskOf("initiateAutoAssignment") => \A l \in Following : ~Due(l)
BY DEF OneFollows, Due, Following

\* What followed is done, or gives way to the other clearing.
LEMMA FollowerDone ==
  ASSUME Typed, OneLeads, OneFollows, NEW k \in Following, Due(k), UNCHANGED <<thread, tickets>>,
         \A l \in Leading : todo'[l] = todo[l],
         \/ \A l \in Following : todo'[l] = 0
         \/ /\ k \in Clearing
            /\ \E m \in Clearing : \A l \in Following : todo'[l] = IF l = m THEN 1 ELSE 0
  PROVE  OneLeads' /\ OneFollows'
<1>1. OneLeads'
  BY DEF OneLeads, Busy, Due
<1>2. CASE \A l \in Following : todo'[l] = 0
  <2>1. \A l \in Following : ~Due(l)'
    BY <1>2 DEF Due
  <2> QED
    BY <1>1, <1>2, <2>1 DEF OneFollows, Following
<1>3. ASSUME k \in Clearing, NEW m \in Clearing,
             \A l \in Following : todo'[l] = IF l = m THEN 1 ELSE 0
      PROVE  OneFollows'
  <2>1. \A l \in Following : Due(l)' => l = m
    BY <1>3 DEF Due
  <2>2. \A l \in ForWorker : ~Due(l)'
    BY <2>1, TaskNames DEF Following
  <2>3. /\ \A t \in Thread : Busy(t)' => thread'[t].pc \in Reoffering
        /\ \A l \in Leading : Due(l)' => l = TaskOf("initiateAutoAssignment")
    BY <1>3 DEF OneFollows, Busy, Due
  <2>4. \A l \in Following : todo'[l] \in {0, 1}
    BY <1>3
  <2> QED
    BY <2>1, <2>2, <2>3, <2>4 DEF OneFollows
<1> QED
  BY <1>1, <1>2, <1>3

\* What follows is due once, and alone.
LEMMA OthersFollow ==
  ASSUME Typed, OneFollows, NEW k \in Following, Due(k)
  PROVE  todo[k] = 1 /\ \A l \in Following : l # k => todo[l] = 0
<1>1. \A l \in Following : todo[l] \in {0, 1}
  BY DEF OneFollows
<1>2. \A l \in Following : l # k => ~Due(l)
  BY DEF OneFollows
<1> QED
  BY <1>1, <1>2 DEF Due

\* After a restart no handler and no call is left.
LEMMA CrashLeads ==
  ASSUME Typed, OneLeads, Crash
  PROVE  OneLeads' /\ OneFollows'
<1> DEFINE offering == {t \in Thread : Running(t, "offer")}
<1>1. \A u \in Thread : thread'[u].pc = "idle"
  BY DEF Crash, Idle, At
<1>2. \A k \in Leading \cup Following : todo'[k] = 0
  BY TaskNames DEF Crash, Following
<1>3. tickets' \in {0, 1}
  <2>1. CASE offering = {}
    <3>1. Cardinality(offering) = 0
      BY <2>1, FS_EmptySet
    <3> HIDE DEF offering
    <3>2. tickets' = tickets + 0
      BY <3>1 DEF Crash, offering
    <3> QED
      BY <3>2 DEF OneLeads
  <2>2. ASSUME NEW t \in offering
        PROVE  tickets' \in {0, 1}
    <3>1. t \in Thread /\ Busy(t) /\ tickets = 0
      BY DEF OneLeads, Busy, Running
    <3>2. offering = {t}
      BY <3>1 DEF OneLeads, Busy, Running
    <3>3. Cardinality(offering) = 1
      BY <3>2, FS_Singleton
    <3> HIDE DEF offering
    <3>4. tickets' = 0 + 1
      BY <3>1, <3>3 DEF Crash, offering
    <3> QED
      BY <3>4
  <2> QED
    BY <2>1, <2>2
<1>4. OneLeads'
  BY <1>1, <1>2, <1>3 DEF OneLeads, Busy, Due
<1>5. OneFollows'
  BY <1>2 DEF OneFollows, Due, Following
<1> QED
  BY <1>4, <1>5

------------------------------------------------------------------------------
(* What a save makes of the row *)

Became(lastEvent, dispatcher, worker, response, cancellation) ==
  /\ row'.dispatcher = Or(dispatcher, Unset, row.dispatcher)
  /\ row'.worker = Or(worker, Unset, row.worker)
  /\ row'.allocationStatus = CalculateAllocationStatus(dispatcher, worker)
  /\ row'.paymentStatus = response.status
  /\ row'.response = response.id
  /\ row'.status = IF cancellation \in Cancelled THEN cancellation
                   ELSE CalculateStatus(lastEvent, response.status,
                                        CalculateAllocationStatus(dispatcher, worker))

\* A save that compares with the row its object was built from writes the object.
LEMMA SavedWhole ==
  ASSUME Typed, NEW s \in ServiceObject
  PROVE  LET new == Saved(s, Changed(s))
         IN  /\ new.dispatcher = Or(s.dispatcher, Unset, row.dispatcher)
             /\ new.worker = Or(s.worker, Unset, row.worker)
             /\ new.response = s.response.id
             /\ new.allocationStatus = s.allocationStatus
             /\ new.paymentStatus = s.paymentStatus
             /\ new.status = s.status
<1>1. Column = {"lastEvent", "response", "dispatcher", "worker", "paymentStatus",
                "allocationStatus", "status", "nextActionType"}
  BY CreatedServiceType DEF Column, ServiceObject
<1>2. /\ Written(s).dispatcher = Or(s.dispatcher, Unset, row.dispatcher)
      /\ Written(s).worker = Or(s.worker, Unset, row.worker)
      /\ Written(s).response = s.response.id
      /\ Written(s).allocationStatus = s.allocationStatus
      /\ Written(s).paymentStatus = s.paymentStatus
      /\ Written(s).status = s.status
  BY DEF Written, ServiceObject
<1> DEFINE W == Written(s)
           new == Saved(s, Changed(s))
<1>3. \A c \in Column : c \notin Changed(s) => W[c] = row[c]
  BY DEF Changed
<1>4. /\ new.dispatcher = IF "dispatcher" \in Changed(s) THEN W.dispatcher ELSE row.dispatcher
      /\ new.worker = IF "worker" \in Changed(s) THEN W.worker ELSE row.worker
      /\ new.response = IF "response" \in Changed(s) THEN W.response ELSE row.response
      /\ new.allocationStatus = IF "allocationStatus" \in Changed(s) THEN W.allocationStatus
                                ELSE row.allocationStatus
      /\ new.paymentStatus = IF "paymentStatus" \in Changed(s) THEN W.paymentStatus
                             ELSE row.paymentStatus
      /\ new.status = IF "status" \in Changed(s) THEN W.status ELSE row.status
  BY DEF Saved
<1> HIDE DEF W, new
<1>5. /\ new.dispatcher = W.dispatcher /\ new.worker = W.worker /\ new.response = W.response
      /\ new.allocationStatus = W.allocationStatus /\ new.paymentStatus = W.paymentStatus
      /\ new.status = W.status
  BY <1>1, <1>3, <1>4
<1> QED
  BY <1>2, <1>5 DEF W, new

\* How the constructor computes its derived columns.
LEMMA NewServiceIs ==
  ASSUME NEW lastEvent, NEW dispatcher, NEW worker, NEW response, NEW cancellation
  PROVE  LET s == NewService(lastEvent, dispatcher, worker, response, cancellation)
         IN  /\ s.allocationStatus = CalculateAllocationStatus(dispatcher, worker)
             /\ s.status = IF cancellation \in Cancelled THEN cancellation
                           ELSE CalculateStatus(lastEvent, response.status,
                                                CalculateAllocationStatus(dispatcher, worker))
BY DEF NewService

\* What a whole object that is saved makes of the row.
LEMMA SavedBecomes ==
  ASSUME Typed,
         NEW lastEvent \in LastEvent,
         NEW dispatcher \in Dispatcher \cup {NoAgent, Unset},
         NEW worker \in Worker \cup Independent \cup {NoAgent, Unset},
         NEW response \in Response,
         NEW cancellation \in Cancelled \cup {"NONE"},
         NEW s, s = NewService(lastEvent, dispatcher, worker, response, cancellation),
         row' = Saved(s, Changed(s))
  PROVE  Became(lastEvent, dispatcher, worker, response, cancellation)
<1>1. /\ s \in ServiceObject
      /\ s.dispatcher = dispatcher /\ s.worker = worker
      /\ s.response = response /\ s.paymentStatus = response.status
  <2> DEFINE new == NewService(lastEvent, dispatcher, worker, response, cancellation)
  <2>2. /\ new \in ServiceObject /\ new.lastEvent = lastEvent /\ new.response = response
        /\ new.dispatcher = dispatcher /\ new.worker = worker
        /\ new.paymentStatus = response.status
    BY ONLY NewServiceType, lastEvent \in LastEvent, response \in Response,
       dispatcher \in Dispatcher \cup {NoAgent, Unset},
       worker \in Worker \cup Independent \cup {NoAgent, Unset},
       cancellation \in Cancelled \cup {"NONE"}
  <2> HIDE DEF new
  <2>1. s = new
    BY DEF new
  <2> QED
    BY <2>1, <2>2
<1>2. /\ s.allocationStatus = CalculateAllocationStatus(dispatcher, worker)
      /\ s.status = IF cancellation \in Cancelled THEN cancellation
                    ELSE CalculateStatus(lastEvent, response.status,
                                         CalculateAllocationStatus(dispatcher, worker))
  BY NewServiceIs
<1>3. /\ row'.dispatcher = Or(s.dispatcher, Unset, row.dispatcher)
      /\ row'.worker = Or(s.worker, Unset, row.worker)
      /\ row'.response = s.response.id
      /\ row'.allocationStatus = s.allocationStatus
      /\ row'.paymentStatus = s.paymentStatus
      /\ row'.status = s.status
  BY <1>1, SavedWhole
<1> QED
  BY <1>1, <1>2, <1>3 DEF Became

\* The status a computation returns.
LEMMA CalculatedStatus ==
  ASSUME NEW lastEvent, NEW paymentStatus, NEW allocation \in AllocationStatus
  PROVE  LET status == CalculateStatus(lastEvent, paymentStatus, allocation)
         IN  /\ status \notin Cancelled
             /\ PaymentGatewayEnabled /\ status = "AWAITING_PAYMENT" => paymentStatus # "SUCCEEDED"
             /\ lastEvent \notin HandlingEventType =>
                  status = IF PaymentGatewayEnabled /\ paymentStatus # "SUCCEEDED"
                           THEN "AWAITING_PAYMENT" ELSE allocation
             /\ lastEvent = "FULLFIL" => status = "FULFILLED"
<1> DEFINE status == CalculateStatus(lastEvent, paymentStatus, allocation)
<1>1. CASE lastEvent \in HandlingEventType
  <2>1. status = StatusOfEvent[lastEvent]
    BY <1>1 DEF CalculateStatus
  <2>2. /\ lastEvent = "START" => status = "STARTED"
        /\ lastEvent = "IN_PROGRESS" => status = "IN_PROGRESS"
        /\ lastEvent = "FULLFIL" => status = "FULFILLED"
    BY <2>1 DEF StatusOfEvent
  <2> HIDE DEF status
  <2>3. status \in {"STARTED", "IN_PROGRESS", "FULFILLED"}
    BY <1>1, <2>2 DEF HandlingEventType
  <2> QED
    BY <1>1, <2>2, <2>3 DEF Cancelled, status
<1>2. CASE lastEvent \notin HandlingEventType
  <2>1. status = IF PaymentGatewayEnabled /\ paymentStatus # "SUCCEEDED"
                 THEN "AWAITING_PAYMENT" ELSE allocation
    BY <1>2 DEF CalculateStatus
  <2> HIDE DEF status
  <2>2. lastEvent # "FULLFIL"
    BY <1>2 DEF HandlingEventType
  <2> QED
    BY <1>2, <2>1, <2>2 DEF Cancelled, AllocationStatus, status
<1> QED
  BY <1>1, <1>2

\* A row that became what a constructor returned agrees with itself.
LEMMA BecameAgrees ==
  ASSUME Typed, PaymentGatewayEnabled, UNCHANGED responses,
         NEW lastEvent,
         NEW dispatcher \in Dispatcher \cup {NoAgent, Unset},
         NEW worker \in Worker \cup Independent \cup {NoAgent, Unset},
         NEW cancellation \in Cancelled \cup {"NONE"},
         NEW id \in Nat, NEW response, response = LoadResponse(id),
         Became(lastEvent, dispatcher, worker, response, cancellation),
         dispatcher = Unset => row.dispatcher \notin Dispatcher,
         dispatcher \in Dispatcher => response.status = "SUCCEEDED",
         cancellation \in Cancelled \ {"FAILED"} => dispatcher = NoAgent
  PROVE  RowAgrees'
<1> DEFINE allocation == CalculateAllocationStatus(dispatcher, worker)
<1>1. /\ NoAgent \notin ServiceProvider /\ Unset \notin ServiceProvider /\ NoAgent # Unset
      /\ \A d \in Dispatcher : d \in ServiceProvider
      /\ \A w \in Worker \cup Independent : w \in ServiceProvider
  BY ServiceAssumption DEF ServiceProvider, Dispatcher
<1>2. /\ allocation \in AllocationStatus
      /\ allocation = "UNASSIGNED" <=> dispatcher \notin ServiceProvider
      /\ allocation = "ALLOCATED" => worker \in ServiceProvider
  BY DEF CalculateAllocationStatus, AllocationStatus
<1> HIDE DEF allocation
<1>3. /\ row'.allocationStatus = allocation
      /\ row'.dispatcher = Or(dispatcher, Unset, row.dispatcher)
      /\ row'.worker = Or(worker, Unset, row.worker)
      /\ row'.paymentStatus = response.status /\ row'.response = response.id
      /\ row'.status = IF cancellation \in Cancelled THEN cancellation
                       ELSE CalculateStatus(lastEvent, response.status, allocation)
  BY DEF Became, allocation
<1>4. row'.dispatcher \in Dispatcher <=> row'.allocationStatus # "UNASSIGNED"
  BY <1>1, <1>2, <1>3 DEF Or
<1>5. row'.allocationStatus = "ALLOCATED" => row'.worker \in Worker \cup Independent
  BY <1>1, <1>2, <1>3 DEF Or
<1>6. row'.allocationStatus # "UNASSIGNED" => HasCustomerPaid(row')
  BY <1>1, <1>2, <1>3 DEF HasCustomerPaid
<1>7. /\ response.status = "SUCCEEDED" => response.id \in DOMAIN responses
                                          /\ responses[response.id] = "SUCCEEDED"
      /\ response.id \in {0} \cup DOMAIN responses
  BY DEF LoadResponse, NoResponse
<1>8. /\ HasCustomerPaid(row') => row'.response \in DOMAIN responses'
                                  /\ responses'[row'.response] = "SUCCEEDED"
      /\ row'.response \in {0} \cup DOMAIN responses'
  BY <1>3, <1>7 DEF HasCustomerPaid
<1>9. /\ CalculateStatus(lastEvent, response.status, allocation) \notin Cancelled
      /\ CalculateStatus(lastEvent, response.status, allocation) = "AWAITING_PAYMENT"
           => response.status # "SUCCEEDED"
  BY <1>2, CalculatedStatus
<1>10. row'.status = "AWAITING_PAYMENT" => ~HasCustomerPaid(row')
  BY <1>3, <1>9 DEF HasCustomerPaid, Cancelled
<1>11. row'.status \in Cancelled \ {"FAILED"} => row'.allocationStatus = "UNASSIGNED"
  BY <1>1, <1>2, <1>3, <1>9
<1> QED
  BY <1>4, <1>5, <1>6, <1>8, <1>10, <1>11 DEF RowAgrees

------------------------------------------------------------------------------
(* The objects in hand *)

\* The columns of what is loaded from the row, in either way.
LEMMA LoadedIs ==
  ASSUME Typed
  PROVE  /\ Loaded.lastEvent = row.lastEvent /\ Loaded.response = LoadResponse(row.response)
         /\ Loaded.dispatcher = row.dispatcher /\ Loaded.worker = row.worker
         /\ Loaded.paymentStatus = row.paymentStatus /\ Loaded.status = row.status
         /\ Loaded.allocationStatus = row.allocationStatus
         /\ LoadedByGet.lastEvent = "UNDEFINED" /\ LoadedByGet.response = LoadResponse(row.response)
         /\ LoadedByGet.dispatcher = row.dispatcher
BY DEF Typed, TypeOK, Row, Loaded, LoadedByGet

\* An idle thread has nothing in hand.
LEMMA IdleHand ==
  ASSUME NEW q, q.pc = "idle"
  PROVE  Fresh(q) /\ Placed(q) /\ Fresh(q)' /\ Placed(q)'
BY DEF Fresh, Placed, Saving

\* What is in hand stays fresh while what it was built from stays.
LEMMA FreshKept ==
  ASSUME NEW q, Fresh(q), UNCHANGED <<row, responses, history>>
  PROVE  Fresh(q)'
<1>1. /\ Loaded' = Loaded /\ LoadedByGet' = LoadedByGet
      /\ LoadResponse(Len(responses))' = LoadResponse(Len(responses))
      /\ Changed(q.service)' = Changed(q.service)
  BY DEF Loaded, LoadedByGet, LoadResponse, Changed, Written
<1> QED
  BY <1>1 DEF Fresh

\* What a call has placed stays so while the row is as it is.
LEMMA PlacedKept ==
  ASSUME NEW q, Placed(q), UNCHANGED row
  PROVE  Placed(q)'
BY DEF Placed

\* What calls have in hand stays right when one goes on and the others are idle,
LEMMA HandsMove ==
  ASSUME Typed, NEW t \in Thread, NEW q \in Process, thread' = [thread EXCEPT ![t] = q],
         \A u \in Thread : u # t => ~Busy(u),
         Fresh(q)', Placed(q)'
  PROVE  Hands'
<1> SUFFICES ASSUME NEW u \in Thread, NEW p \in Process, p = thread'[u]
             PROVE  Fresh(p)' /\ Placed(p)'
  BY DEF Hands
<1>1. CASE u = t
  <2>1. p = q
    BY <1>1 DEF Typed, Threads
  <2> QED
    BY <2>1
<1>2. CASE u # t
  <2>1. p.pc = "idle"
    BY <1>2 DEF Typed, Threads, Busy
  <2> QED
    BY <2>1, IdleHand
<1> QED
  BY <1>1, <1>2

\* when nothing changes,
LEMMA HandsKept ==
  ASSUME Hands, UNCHANGED <<row, responses, history, thread>>
  PROVE  Hands'
<1> SUFFICES ASSUME NEW u \in Thread, NEW p \in Process, p = thread'[u]
             PROVE  Fresh(p)' /\ Placed(p)'
  BY DEF Hands
<1>1. Fresh(p) /\ Placed(p)
  BY DEF Hands
<1> QED
  BY <1>1, FreshKept, PlacedKept

\* and when all are idle.
LEMMA HandsIdle ==
  ASSUME \A u \in Thread : thread'[u].pc = "idle"
  PROVE  Hands'
BY IdleHand DEF Hands

\* What assigning the request to a dispatcher builds.
LEMMA AssignedIs ==
  ASSUME NEW s, NEW p
  PROVE  AssignedToDispatcher(s, p) =
           NewService(s.lastEvent, p, IF p \in Independent THEN p ELSE Unset, s.response, "NONE")
<1> DEFINE assigned == NewService(s.lastEvent, p, Unset, s.response, "NONE")
<1>1. assigned.lastEvent = s.lastEvent /\ assigned.dispatcher = p /\ assigned.response = s.response
  BY DEF NewService
<1> HIDE DEF assigned
<1>2. AllocatedToWorker(assigned, p) = NewService(s.lastEvent, p, p, s.response, "NONE")
  BY <1>1 DEF AllocatedToWorker
<1>3. AssignedToDispatcher(s, p) = IF p \in Independent THEN AllocatedToWorker(assigned, p) ELSE assigned
  BY DEF AssignedToDispatcher, assigned
<1> QED
  BY <1>2, <1>3 DEF assigned

------------------------------------------------------------------------------
(* The saves, one by one.  The row is paid afterwards if it was before: the    *)
(* response it is linked to has succeeded.                                     *)

Updated(t) == thread[t].compared /\ row' = Saved(thread[t].service, thread[t].changed)

InHand(t) ==
  /\ Typed /\ RowAgrees /\ Fresh(thread[t]) /\ PaymentGatewayEnabled
  /\ UNCHANGED responses

StaysPaid == HasCustomerPaid(row) => HasCustomerPaid(row')

\* What agreeing columns say of the row.
LEMMA RowFacts ==
  ASSUME Typed, RowAgrees
  PROVE  /\ LoadResponse(row.response) \in Response
         /\ HasCustomerPaid(row) => LoadResponse(row.response).status = "SUCCEEDED"
         /\ row.response \in Nat
         /\ row.dispatcher \in Dispatcher \cup {NoAgent} /\ NoAgent \notin Dispatcher
         /\ row.worker \in Worker \cup Independent \cup {NoAgent}
         /\ row.lastEvent \in LastEvent
<1>1. row.response \in Nat
  BY DEF Typed, TypeOK, Row
<1>2. HasCustomerPaid(row) => LoadResponse(row.response).status = "SUCCEEDED"
  BY DEF RowAgrees, LoadResponse
<1> QED
  BY <1>1, <1>2, LoadResponseType, ServiceAssumption
     DEF Typed, TypeOK, Row, LastEvent, Dispatcher, ServiceProvider

\* Every changed column of the object in hand is saved.
LEMMA SaveWhole ==
  ASSUME NEW t \in Thread, InHand(t), Updated(t), thread[t].pc \in Saving
  PROVE  row' = Saved(thread[t].service, Changed(thread[t].service))
BY DEF InHand, Updated, Fresh

\* To be cancelled is a status of its own.
LEMMA NotCancelled == "NONE" \notin Cancelled
BY DEF Cancelled

\* An object rebuilt with the response that the row is linked to.
LEMMA LinkedSave ==
  ASSUME NEW t \in Thread, InHand(t), Updated(t), thread[t].pc \in Saving,
         NEW lastEvent \in LastEvent,
         NEW dispatcher \in Dispatcher \cup {NoAgent, Unset},
         NEW worker \in Worker \cup Independent \cup {NoAgent, Unset},
         NEW cancellation \in Cancelled \cup {"NONE"},
         thread[t].service =
           NewService(lastEvent, dispatcher, worker, LoadResponse(row.response), cancellation),
         dispatcher = Unset => row.dispatcher \notin Dispatcher,
         dispatcher \in Dispatcher => HasCustomerPaid(row),
         cancellation \in Cancelled \ {"FAILED"} => dispatcher = NoAgent
  PROVE  /\ RowAgrees' /\ StaysPaid
         /\ Became(lastEvent, dispatcher, worker, LoadResponse(row.response), cancellation)
<1> DEFINE response == LoadResponse(row.response)
<1>1. Typed /\ RowAgrees /\ PaymentGatewayEnabled /\ UNCHANGED responses
  BY DEF InHand
<1>2. response \in Response /\ row.response \in Nat
      /\ (HasCustomerPaid(row) => response.status = "SUCCEEDED")
  BY <1>1, RowFacts
<1>3. PICK s : s = thread[t].service
  OBVIOUS
<1>4. row' = Saved(s, Changed(s))
  BY <1>3, SaveWhole
<1>5. s = NewService(lastEvent, dispatcher, worker, response, cancellation)
  BY <1>3
<1> HIDE DEF response
<1>6. Became(lastEvent, dispatcher, worker, response, cancellation)
  BY <1>1, <1>2, <1>4, <1>5, SavedBecomes
<1>7. RowAgrees'
  BY <1>1, <1>2, <1>6, BecameAgrees DEF response
<1>8. StaysPaid
  BY <1>2, <1>6 DEF Became, StaysPaid, HasCustomerPaid
<1> QED
  BY <1>6, <1>7, <1>8 DEF response

\* What an offer that is accepted, or an assignment, makes of the row.
LEMMA TakeSave ==
  ASSUME NEW t \in Thread, InHand(t), Updated(t), thread[t].pc \in {"saveAccept", "saveManual"}
  PROVE  /\ RowAgrees' /\ StaysPaid
         /\ row'.dispatcher = thread[t].agent /\ row'.status # "FAILED"
         /\ IF thread[t].service.worker = thread[t].agent
            THEN row'.worker = thread[t].agent /\ row'.allocationStatus = "ALLOCATED"
            ELSE row'.allocationStatus = "ASSIGNED"
<1> DEFINE p == thread[t].agent
           w == IF p \in Independent THEN p ELSE Unset
<1>1. Typed /\ RowAgrees /\ Fresh(thread[t]) /\ PaymentGatewayEnabled
  BY DEF InHand
<1>2. CanAssignToDispatcher(Loaded, p) /\ thread[t].service = AssignedToDispatcher(Loaded, p)
  BY <1>1 DEF Fresh
<1>3. thread[t].service = NewService(Loaded.lastEvent, p, w, Loaded.response, "NONE")
  BY <1>2, AssignedIs
<1>4. p \in Dispatcher
  BY <1>1 DEF Typed, Threads, ProcessOK, TakePC
<1>5. HasCustomerPaid(row)
  BY <1>1, <1>2, LoadedIs DEF CanAssignToDispatcher, HasCustomerPaid
<1>6. thread[t].service = NewService(row.lastEvent, p, w, LoadResponse(row.response), "NONE")
  BY <1>1, <1>3, LoadedIs
<1>7. /\ p # Unset /\ NoAgent \notin Independent /\ p \in ServiceProvider
      /\ Unset \notin ServiceProvider /\ (p \in Independent => w = p) /\ (p \notin Independent => w = Unset)
  BY <1>4, ServiceAssumption DEF Dispatcher, ServiceProvider
<1>8. row.lastEvent \in LastEvent /\ w \in Worker \cup Independent \cup {NoAgent, Unset}
  BY <1>1, RowFacts
<1>9. thread[t].service.worker = w
  BY <1>3 DEF NewService
<1>10. thread[t].pc \in Saving
  BY DEF Saving
<1> HIDE DEF p, w
<1>11. RowAgrees' /\ StaysPaid /\ Became(row.lastEvent, p, w, LoadResponse(row.response), "NONE")
  BY <1>4, <1>5, <1>6, <1>7, <1>8, <1>10, LinkedSave, NotCancelled
<1>12. CalculateAllocationStatus(p, w) = IF w = p THEN "ALLOCATED" ELSE "ASSIGNED"
  BY <1>7 DEF CalculateAllocationStatus
<1>13. row'.dispatcher = p /\ row'.allocationStatus = CalculateAllocationStatus(p, w)
       /\ (w = p => row'.worker = p)
  BY <1>7, <1>11 DEF Became, Or
<1>14. "NONE" \notin Cancelled /\ "FAILED" \in Cancelled
  BY DEF Cancelled
<1>15. row'.status # "FAILED"
  <2>1. CalculateAllocationStatus(p, w) \in AllocationStatus
    BY <1>12 DEF AllocationStatus
  <2>2. row'.status = CalculateStatus(row.lastEvent, LoadResponse(row.response).status,
                                      CalculateAllocationStatus(p, w))
    BY <1>11, <1>14 DEF Became
  <2>3. CalculateStatus(row.lastEvent, LoadResponse(row.response).status,
                        CalculateAllocationStatus(p, w)) \notin Cancelled
    BY <2>1, CalculatedStatus
  <2> QED
    BY <1>14, <2>2, <2>3
<1> QED
  BY <1>9, <1>11, <1>12, <1>13, <1>15 DEF p

\* What the allocation to a worker makes of it.
LEMMA AllocateSave ==
  ASSUME NEW t \in Thread, InHand(t), Updated(t), thread[t].pc = "saveAllocate"
  PROVE  /\ RowAgrees' /\ StaysPaid
         /\ row'.dispatcher = row.dispatcher /\ row'.dispatcher = thread[t].service.dispatcher
         /\ row'.worker = thread[t].service.worker /\ row'.worker # row.worker
         /\ row'.status # "FAILED" /\ row'.allocationStatus = "ALLOCATED"
<1>1. Typed /\ RowAgrees /\ Fresh(thread[t]) /\ PaymentGatewayEnabled
  BY DEF InHand
<1>2. PICK dealer \in Dispatcher, w \in Worker :
        /\ Loaded.worker # w /\ CanAllocateToWorker(Loaded, dealer)
        /\ thread[t].service = AllocatedToWorker(Loaded, w)
  BY <1>1 DEF Fresh
<1> DEFINE d == row.dispatcher
<1>3. thread[t].service = NewService(row.lastEvent, d, w, LoadResponse(row.response), "NONE")
  BY <1>1, <1>2, LoadedIs DEF AllocatedToWorker
<1>4. d \in ServiceProvider /\ w # row.worker
  BY <1>1, <1>2, LoadedIs DEF CanAllocateToWorker
<1>5. d \in Dispatcher /\ d # Unset /\ w # Unset /\ w \in ServiceProvider
  BY <1>1, <1>4, RowFacts, ServiceAssumption DEF Dispatcher, ServiceProvider
<1>6. HasCustomerPaid(row)
  BY <1>1, <1>5 DEF RowAgrees
<1>7. thread[t].service.dispatcher = d /\ thread[t].service.worker = w
  BY <1>3 DEF NewService
<1>8. row.lastEvent \in LastEvent
  BY <1>1, RowFacts
<1>9. thread[t].pc \in Saving
  BY DEF Saving
<1> HIDE DEF d
<1>10. RowAgrees' /\ StaysPaid /\ Became(row.lastEvent, d, w, LoadResponse(row.response), "NONE")
  BY <1>3, <1>5, <1>6, <1>8, <1>9, LinkedSave, NotCancelled
<1>11. CalculateAllocationStatus(d, w) = "ALLOCATED"
  BY <1>4, <1>5 DEF CalculateAllocationStatus
<1>12. row'.dispatcher = d /\ row'.worker = w /\ row'.allocationStatus = "ALLOCATED"
  BY <1>5, <1>10, <1>11 DEF Became, Or
<1>13. row'.status # "FAILED"
  <2>1. "NONE" \notin Cancelled /\ "FAILED" \in Cancelled /\ "ALLOCATED" \in AllocationStatus
    BY DEF Cancelled, AllocationStatus
  <2>2. row'.status = CalculateStatus(row.lastEvent, LoadResponse(row.response).status, "ALLOCATED")
    BY <1>10, <1>11, <2>1 DEF Became
  <2>3. CalculateStatus(row.lastEvent, LoadResponse(row.response).status, "ALLOCATED") \notin Cancelled
    BY <2>1, CalculatedStatus
  <2> QED
    BY <2>1, <2>2, <2>3
<1> QED
  BY <1>4, <1>7, <1>10, <1>12, <1>13 DEF d

\* The provider is taken off, by whom or for what reason ever.
LEMMA TerminatedSave ==
  ASSUME NEW t \in Thread, InHand(t), Updated(t), thread[t].pc \in Saving,
         NEW s \in {Loaded, LoadedByGet}, NEW cancellation \in Cancelled,
         thread[t].service = ProviderTerminated(s, cancellation)
  PROVE  /\ RowAgrees' /\ StaysPaid
         /\ row'.allocationStatus = "UNASSIGNED" /\ row'.status = cancellation
<1>1. Typed /\ RowAgrees
  BY DEF InHand
<1>2. s.response = LoadResponse(row.response) /\ s.lastEvent \in LastEvent
  BY <1>1, LoadedIs, RowFacts DEF LastEvent
<1>3. PICK e : e = s.lastEvent
  OBVIOUS
<1>4. thread[t].service = NewService(e, NoAgent, NoAgent, LoadResponse(row.response), cancellation)
  BY <1>2, <1>3 DEF ProviderTerminated
<1>5. NoAgent # Unset /\ NoAgent \notin Dispatcher /\ NoAgent \notin ServiceProvider
  BY ServiceAssumption DEF Dispatcher, ServiceProvider
<1>6. /\ RowAgrees' /\ StaysPaid
      /\ Became(e, NoAgent, NoAgent, LoadResponse(row.response), cancellation)
  BY <1>2, <1>3, <1>4, <1>5, LinkedSave, NotCancelled
<1>7. CalculateAllocationStatus(NoAgent, NoAgent) = "UNASSIGNED"
  BY <1>5 DEF CalculateAllocationStatus
<1> QED
  BY <1>6, <1>7 DEF Became

\* What a revocation makes of it.
LEMMA RevokeSave ==
  ASSUME NEW t \in Thread, InHand(t), Updated(t), thread[t].pc = "saveRevoke"
  PROVE  /\ RowAgrees' /\ StaysPaid
         /\ row'.allocationStatus = "UNASSIGNED" \/ row'.status = "FAILED"
         /\ thread[t].service.status # "FAILED" => row'.allocationStatus = "UNASSIGNED"
<1>1. Typed /\ RowAgrees /\ Fresh(thread[t])
  BY DEF InHand
<1>2. PICK failed \in BOOLEAN : thread[t].service = Revoked(Loaded, failed)
  BY <1>1 DEF Fresh
<1>3. thread[t].pc \in Saving
  BY DEF Saving
<1>4. CASE failed = FALSE
  <2>1. thread[t].service = ProviderTerminated(Loaded, "CANCELLED_BY_OPERATOR")
    BY <1>2, <1>4 DEF Revoked
  <2>2. "CANCELLED_BY_OPERATOR" \in Cancelled
    BY DEF Cancelled
  <2> QED
    BY <1>3, <2>1, <2>2, TerminatedSave
<1>5. CASE failed = TRUE
  <2> DEFINE d == row.dispatcher
             w == row.worker
  <2>1. thread[t].service = NewService(row.lastEvent, d, w, LoadResponse(row.response), "FAILED")
    BY <1>1, <1>2, <1>5, LoadedIs DEF Revoked
  <2>2. d \in Dispatcher \cup {NoAgent} /\ w \in Worker \cup Independent \cup {NoAgent}
        /\ row.lastEvent \in LastEvent /\ d # Unset /\ "FAILED" \in Cancelled
    BY <1>1, RowFacts, ServiceAssumption DEF Dispatcher, ServiceProvider, Cancelled
  <2>3. d \in Dispatcher => HasCustomerPaid(row)
    BY <1>1 DEF RowAgrees
  <2> HIDE DEF d, w
  <2>4. RowAgrees' /\ StaysPaid /\ Became(row.lastEvent, d, w, LoadResponse(row.response), "FAILED")
    BY <1>3, <2>1, <2>2, <2>3, LinkedSave, NotCancelled
  <2>5. row'.status = "FAILED" /\ thread[t].service.status = "FAILED"
    BY <2>1, <2>2, <2>4 DEF Became, NewService
  <2> QED
    BY <2>4, <2>5
<1> QED
  BY <1>4, <1>5

\* What beginning the search anew makes of it.
LEMMA RestartSave ==
  ASSUME NEW t \in Thread, InHand(t), Updated(t), thread[t].pc = "saveRestart",
         row.allocationStatus = "UNASSIGNED"
  PROVE  /\ RowAgrees' /\ StaysPaid
         /\ row'.allocationStatus = "UNASSIGNED" /\ row'.dispatcher = row.dispatcher
<1>1. Typed /\ RowAgrees /\ Fresh(thread[t])
  BY DEF InHand
<1>2. thread[t].service = NewService("NULL", Unset, Unset, LoadResponse(row.response), "NONE")
  BY <1>1, LoadedIs DEF Fresh, Restarted
<1>3. thread[t].pc \in Saving /\ "NULL" \in LastEvent
  BY DEF Saving, LastEvent
<1>4. Unset \notin ServiceProvider /\ Unset \notin Dispatcher /\ row.dispatcher \notin Dispatcher
  BY <1>1, ServiceAssumption DEF Dispatcher, ServiceProvider, RowAgrees
<1>5. RowAgrees' /\ StaysPaid /\ Became("NULL", Unset, Unset, LoadResponse(row.response), "NONE")
  BY <1>2, <1>3, <1>4, LinkedSave, NotCancelled
<1>6. CalculateAllocationStatus(Unset, Unset) = "UNASSIGNED"
  BY <1>4 DEF CalculateAllocationStatus
<1> QED
  BY <1>5, <1>6 DEF Became, Or

\* The new event is the last one; the provider stays.
LEMMA HandlingSave ==
  ASSUME NEW t \in Thread, InHand(t), Updated(t), thread[t].pc = "saveHandling"
  PROVE  /\ RowAgrees' /\ StaysPaid
         /\ row'.allocationStatus = row.allocationStatus
         /\ row'.dispatcher = row.dispatcher /\ row'.worker = row.worker
         /\ row'.status # "FAILED"
         /\ row.status = "FAILED" => row'.status = "FULFILLED"
         /\ row.status # "FULFILLED"
<1>1. Typed /\ RowAgrees /\ Fresh(thread[t])
  BY DEF InHand
<1> DEFINE d == row.dispatcher
           w == row.worker
           e == history[Len(history)]
<1>2. /\ CanHandle(Loaded) /\ history # <<>> /\ e = NextHandlingEventType(Loaded)
      /\ thread[t].service = DerivedFromHandlingHistory(Loaded, e)
  BY <1>1 DEF Fresh
<1>3. thread[t].service = NewService(e, d, w, LoadResponse(row.response), "NONE")
  BY <1>1, <1>2, LoadedIs DEF DerivedFromHandlingHistory
<1>4. /\ d \in Dispatcher \cup {NoAgent} /\ w \in Worker \cup Independent \cup {NoAgent}
      /\ d # Unset /\ w # Unset /\ NoAgent \notin ServiceProvider
      /\ \A x \in Dispatcher : x \in ServiceProvider
      /\ \A x \in Worker \cup Independent : x \in ServiceProvider
  BY <1>1, RowFacts, ServiceAssumption DEF Dispatcher, ServiceProvider
<1>5. d \in Dispatcher => HasCustomerPaid(row)
  BY <1>1 DEF RowAgrees
<1>6. e \in HandlingEventType /\ (row.status = "FAILED" => e = "FULLFIL")
  BY <1>1, <1>2, LoadedIs DEF NextHandlingEventType, HandlingEventType
<1>7. row.status # "FULFILLED" /\ row.allocationStatus # "ASSIGNED"
  BY <1>1, <1>2, LoadedIs DEF CanHandle
<1>8. row.allocationStatus \in AllocationStatus
  BY <1>1 DEF Typed, TypeOK, Row
<1>9. CalculateAllocationStatus(d, w) = row.allocationStatus
  <2>1. CASE row.allocationStatus = "UNASSIGNED"
    <3>1. d \notin ServiceProvider
      BY <1>1, <1>4, <2>1 DEF RowAgrees
    <3> QED
      BY <2>1, <3>1 DEF CalculateAllocationStatus
  <2>2. CASE row.allocationStatus = "ALLOCATED"
    <3>1. d \in ServiceProvider /\ w \in ServiceProvider
      BY <1>1, <1>4, <2>2 DEF RowAgrees
    <3> QED
      BY <2>2, <3>1 DEF CalculateAllocationStatus
  <2> QED
    BY <1>7, <1>8, <2>1, <2>2 DEF AllocationStatus
<1>10. thread[t].pc \in Saving /\ e \in LastEvent
  BY <1>6 DEF Saving, LastEvent
<1> HIDE DEF d, w, e
<1>11. RowAgrees' /\ StaysPaid /\ Became(e, d, w, LoadResponse(row.response), "NONE")
  BY <1>3, <1>4, <1>5, <1>10, LinkedSave, NotCancelled
<1>12. /\ row'.dispatcher = d /\ row'.worker = w
       /\ row'.allocationStatus = row.allocationStatus
  BY <1>4, <1>9, <1>11 DEF Became, Or
<1>13. "NONE" \notin Cancelled /\ "FAILED" \in Cancelled
  BY DEF Cancelled
<1>14. row'.status = CalculateStatus(e, LoadResponse(row.response).status, row.allocationStatus)
  BY <1>9, <1>11, <1>13 DEF Became
<1>15. /\ CalculateStatus(e, LoadResponse(row.response).status, row.allocationStatus) \notin Cancelled
       /\ e = "FULLFIL" => CalculateStatus(e, LoadResponse(row.response).status, row.allocationStatus)
                             = "FULFILLED"
  BY <1>8, CalculatedStatus
<1> QED
  BY <1>6, <1>7, <1>11, <1>12, <1>13, <1>14, <1>15 DEF d, w

\* The id of the CRM changes no column that is modelled.
LEMMA PatchSave ==
  ASSUME NEW t \in Thread, InHand(t), Updated(t), thread[t].pc = "savePatch"
  PROVE  row' = row
<1>1. Typed /\ RowAgrees /\ Fresh(thread[t])
  BY DEF InHand
<1>2. row' = Saved(Loaded, Changed(Loaded))
  <2>1. thread[t].service = Loaded /\ thread[t].pc \in Saving
    BY <1>1 DEF Fresh, Saving
  <2> QED
    BY <2>1, SaveWhole
<1>3. Loaded.dispatcher # Unset /\ Loaded.worker # Unset /\ Loaded.lastEvent # "UNDEFINED"
  BY <1>1, LoadedType, LoadedIs, ServiceAssumption
     DEF Typed, TypeOK, Row, HandlingEventType, Dispatcher, ServiceProvider
<1>4. Loaded.response.id = row.response
  BY <1>1, LoadedIs DEF LoadResponse, NoResponse, RowAgrees
<1>5. Written(Loaded) = row
  BY <1>1, <1>3, <1>4 DEF Written, Or, Loaded, Typed, TypeOK, Row
<1>6. Changed(Loaded) = {}
  BY <1>5 DEF Changed
<1> QED
  BY <1>1, <1>2, <1>6 DEF Saved, Typed, TypeOK, Row

\* What the expiry of an unpaid request makes of it.
LEMMA ExpireSave ==
  ASSUME NEW t \in Thread, InHand(t), Updated(t), thread[t].pc = "saveExpire"
  PROVE  RowAgrees' /\ row'.allocationStatus = "UNASSIGNED" /\ row'.status = "FAILED_PAYMENT"
<1>1. Typed /\ RowAgrees /\ Fresh(thread[t]) /\ UNCHANGED responses
  BY DEF InHand
<1> DEFINE response == LoadResponse(row.response)
           new == NewService("NULL", NoAgent, NoAgent, response, "NONE")
           s == [new EXCEPT !.paymentStatus = "FAILED", !.status = "FAILED_PAYMENT"]
<1>2. thread[t].service = s
  BY <1>1, LoadedIs DEF Fresh, ExpiredBySystem
<1>3. response \in Response
  BY <1>1, RowFacts
<1>4. /\ new \in ServiceObject /\ new.dispatcher = NoAgent /\ new.worker = NoAgent
      /\ new.response = response
  BY <1>3, NewServiceType DEF LastEvent
<1>5. NoAgent \notin ServiceProvider /\ NoAgent \notin Dispatcher /\ NoAgent # Unset
  BY ServiceAssumption DEF Dispatcher, ServiceProvider
<1>6. new.allocationStatus = "UNASSIGNED"
  BY <1>5 DEF NewService, CalculateAllocationStatus
<1> HIDE DEF new
<1>7. "FAILED" \in PaymentStatus /\ "FAILED_PAYMENT" \in Status
  BY DEF PaymentStatus, Status, Closed
<1>8. /\ s \in ServiceObject /\ s.dispatcher = NoAgent /\ s.worker = NoAgent
      /\ s.response = response /\ s.allocationStatus = "UNASSIGNED"
      /\ s.paymentStatus = "FAILED" /\ s.status = "FAILED_PAYMENT"
  BY <1>4, <1>6, <1>7 DEF ServiceObject
<1>9. row' = Saved(s, Changed(s))
  <2>1. thread[t].pc \in Saving
    BY DEF Saving
  <2>2. PICK o : o = thread[t].service
    OBVIOUS
  <2>3. row' = Saved(o, Changed(o))
    BY <2>1, <2>2, SaveWhole
  <2> QED
    BY <1>2, <2>2, <2>3
<1> HIDE DEF s, response
<1>10. /\ row'.dispatcher = NoAgent /\ row'.worker = NoAgent /\ row'.response = response.id
       /\ row'.allocationStatus = "UNASSIGNED" /\ row'.paymentStatus = "FAILED"
       /\ row'.status = "FAILED_PAYMENT"
  BY <1>1, <1>5, <1>8, <1>9, SavedWhole DEF Or
<1>11. response.id \in {0} \cup DOMAIN responses'
  BY <1>1 DEF response, LoadResponse, NoResponse
<1> QED
  BY <1>5, <1>10, <1>11 DEF RowAgrees, HasCustomerPaid, Cancelled

\* The payment is the most recent response's.
LEMMA PaymentSave ==
  ASSUME NEW t \in Thread, InHand(t), Updated(t), thread[t].pc = "savePayment"
  PROVE  /\ RowAgrees' /\ row.allocationStatus = "UNASSIGNED"
         /\ row'.allocationStatus = "UNASSIGNED" /\ row'.dispatcher = row.dispatcher
         /\ LastSucceeded => HasCustomerPaid(row')
<1>1. Typed /\ RowAgrees /\ Fresh(thread[t]) /\ PaymentGatewayEnabled /\ UNCHANGED responses
  BY DEF InHand
<1> DEFINE response == LoadResponse(Len(responses))
           d == row.dispatcher
           w == row.worker
<1>2. ~HasCustomerPaid(row) /\ thread[t].service = DerivedFromPaymentHistory(Loaded, response)
  BY <1>1 DEF Fresh
<1>3. thread[t].service = NewService(row.lastEvent, d, w, response, "NONE")
  BY <1>1, <1>2, LoadedIs DEF DerivedFromPaymentHistory
<1>4. Len(responses) \in Nat /\ response \in Response
  BY <1>1, LoadResponseType DEF Typed, TypeOK
<1>5. row.allocationStatus = "UNASSIGNED" /\ d \notin Dispatcher
  BY <1>1, <1>2 DEF RowAgrees
<1>6. /\ d \in Dispatcher \cup {NoAgent, Unset} /\ w \in Worker \cup Independent \cup {NoAgent, Unset}
      /\ row.lastEvent \in LastEvent /\ d = NoAgent
      /\ NoAgent # Unset /\ NoAgent \notin ServiceProvider
  BY <1>1, <1>5, RowFacts, ServiceAssumption
<1>7. LastSucceeded => response.status = "SUCCEEDED"
  BY <1>1 DEF LastSucceeded, LoadResponse, Typed, TypeOK
<1>8. thread[t].pc \in Saving
  BY DEF Saving
<1>9. PICK s : s = thread[t].service
  OBVIOUS
<1>10. row' = Saved(s, Changed(s))
  BY <1>8, <1>9, SaveWhole
<1>11. s = NewService(row.lastEvent, d, w, response, "NONE")
  BY <1>3, <1>9
<1> HIDE DEF d, w
<1>12. PICK n \in Nat : n = Len(responses)
  BY <1>4
<1>13. PICK r \in Response : r = response
  BY <1>4
<1>14. r = LoadResponse(n)
  BY <1>12, <1>13
<1>15. s = NewService(row.lastEvent, d, w, r, "NONE")
  BY <1>11, <1>13
<1> HIDE DEF response
<1>16. Became(row.lastEvent, d, w, r, "NONE")
  BY <1>1, <1>6, <1>10, <1>15, SavedBecomes
<1>17. RowAgrees'
  <2>1. "NONE" \notin Cancelled
    BY DEF Cancelled
  <2> QED
    BY <1>1, <1>5, <1>6, <1>14, <1>16, <2>1, BecameAgrees
<1>18. row'.allocationStatus = "UNASSIGNED" /\ row'.dispatcher = d /\ row'.paymentStatus = r.status
  BY <1>6, <1>16 DEF Became, CalculateAllocationStatus, Or
<1> QED
  BY <1>5, <1>7, <1>13, <1>17, <1>18 DEF HasCustomerPaid, d

------------------------------------------------------------------------------
(* Each step keeps the order *)

\* A call at some pc with its agent and object is one.
LEMMA AtProcess ==
  ASSUME NEW pc \in PC, NEW p \in ServiceProvider \cup {NoAgent}, NEW s \in ServiceObject
  PROVE  At(pc, p, s) \in Process
BY DEF At, Process

\* A step that leaves the tasks publishes none.
LEMMA NothingPublished ==
  ASSUME Typed, UNCHANGED todo
  PROVE  Publish({})
BY DEF Typed, TypeOK, Publish

\* A row that stays agrees still.
LEMMA RowKept ==
  ASSUME RowAgrees, UNCHANGED <<row, responses>>
  PROVE  RowAgrees'
BY DEF RowAgrees

\* A call that is alone goes on, or begins.
LEMMA SoloMoves ==
  ASSUME Typed, NEW t \in Thread, Solo(t), NEW q \in Process,
         thread' = [thread EXCEPT ![t] = q], q.pc # "saveRestart",
         UNCHANGED <<todo, tickets>>, RowAgrees', Fresh(q)', Placed(q)'
  PROVE  Orderly'
<1>1. Moved(t, q.pc)
  BY DEF Moved, Typed, Threads
<1>2. OneLeads' /\ OneFollows'
  BY <1>1, SoloGoesOn
<1>3. Hands'
  BY HandsMove DEF Solo, Alone
<1>4. \A k \in Leading \cup Following : ~Due(k)'
  BY DEF Solo, Alone, Due
<1>5. RowFits'
  <2>1. TaskOf("initiateAutoAssignment") \in Leading
    BY TaskNames
  <2>2. ~(\E u \in Thread : thread'[u].pc = "saveRestart")
    BY <1>1 DEF Moved, Solo, Alone, Busy
  <2> QED
    BY <1>4, <2>1, <2>2 DEF RowFits, Following
<1> QED
  BY <1>2, <1>3, <1>5 DEF Orderly

\* The only call ends, and what it publishes leads and follows alone.
LEMMA SoloStops ==
  ASSUME Typed, NEW t \in Thread, Solo(t), Finish(t), UNCHANGED tickets,
         NEW tasks, Publish(tasks),
         \A k, l \in Leading \cap tasks : k = l,
         \A k, l \in Following \cap tasks : k = l,
         ForWorker \cap tasks # {} => Leading \cap tasks = {},
         Clearing \cap tasks # {} => Leading \cap tasks \subseteq {TaskOf("initiateAutoAssignment")},
         RowAgrees',
         Clearing \cap tasks # {} => row'.allocationStatus = "UNASSIGNED" \/ row'.status = "FAILED",
         TaskOf("initiateAutoAssignment") \in tasks => row'.allocationStatus = "UNASSIGNED"
  PROVE  Orderly'
<1>1. Moved(t, "idle")
  BY FinishMoves DEF Typed
<1>2. OneLeads' /\ OneFollows'
  BY <1>1, SoloEnds
<1>3. \A u \in Thread : thread'[u].pc = "idle"
  BY <1>1 DEF Moved, Solo, Alone, Busy
<1>4. Hands'
  BY <1>3, HandsIdle
<1>5. \A k \in Leading \cup Following : Due(k)' => k \in tasks
  BY TaskNames DEF Solo, Alone, Publish, Following, Due
<1>6. TaskOf("initiateAutoAssignment") \in Leading
  BY TaskNames
<1>7. RowFits'
  <2>1. (\E k \in Clearing : Due(k)') => Clearing \cap tasks # {}
    BY <1>5 DEF Following
  <2>2. Due(TaskOf("initiateAutoAssignment"))' => TaskOf("initiateAutoAssignment") \in tasks
    BY <1>5, <1>6
  <2> QED
    BY <1>3, <2>1, <2>2 DEF RowFits
<1> QED
  BY <1>2, <1>4, <1>7 DEF Orderly

\* Or it ends without publishing anything.
LEMMA SoloStopsSilently ==
  ASSUME Typed, NEW t \in Thread, Solo(t), Finish(t), UNCHANGED <<todo, tickets>>, RowAgrees'
  PROVE  Orderly'
BY NothingPublished, SoloStops

\* A request begins at rest.
LEMMA BeginsOrderly ==
  ASSUME Typed, Orderly, Quiet, NEW t \in Thread,
         NEW pc \in PC \ (Placing \cup {"saveRestart", "appoint", "refetchPayment"}),
         NEW p \in ServiceProvider \cup {NoAgent}, NEW s \in ServiceObject,
         Start(t, pc, p, s), UNCHANGED <<row, responses, history, todo, tickets>>,
         \A q \in Process : q = At(pc, p, s) => Fresh(q)
  PROVE  Orderly'
<1>1. Solo(t)
  BY QuietSolo
<1>2. PICK q \in Process : q = At(pc, p, s)
  BY AtProcess
<1>3. q.pc = pc /\ thread' = [thread EXCEPT ![t] = q]
  BY <1>2 DEF At, Start
<1>4. Fresh(q)'
  BY <1>2, FreshKept
<1>5. Placed(q)'
  BY <1>3 DEF Placed, Placing
<1>6. RowAgrees'
  BY RowKept DEF Orderly
<1> QED
  BY <1>1, <1>3, <1>4, <1>5, <1>6, SoloMoves

\* A call starts when nothing else is under way.
LEMMA RequestOrderly ==
  ASSUME Typed, Orderly, Serial, Requested
  PROVE  Orderly'
<1>q. Quiet
  BY DEF Requested, Accept, ManualAssign, Allocate, Cancel, Revoke, Fail, CancelByCustomer,
         Handle, FindTimedOut, Pay, Override, Request
<1>1. ASSUME NEW t \in Thread, NEW p \in ServiceProvider, NEW pc \in {"saveAccept", "saveManual"},
             BeginTake(t, p, pc)
      PROVE  Orderly'
  <2> DEFINE s == AssignedToDispatcher(Loaded, p)
  <2>1. s \in ServiceObject
    <3>1. p \in Dispatcher
      BY <1>1 DEF BeginTake, CanAssignToDispatcher, ServiceProvider, Dispatcher
    <3> QED
      BY <3>1, LoadedType, AssignedType DEF Typed
  <2>2. \A q \in Process : q = At(pc, p, s) => Fresh(q)
    BY <1>1 DEF Fresh, At, BeginTake
  <2>3. pc \in PC \ (Placing \cup {"saveRestart", "appoint", "refetchPayment"})
    BY DEF PC, Placing
  <2>4. Start(t, pc, p, s) /\ UNCHANGED <<row, responses, history, todo, tickets>>
    BY <1>1 DEF BeginTake, events
  <2> HIDE DEF s
  <2> QED
    BY <1>q, <2>1, <2>2, <2>3, <2>4, BeginsOrderly
<1>2. ASSUME NEW t \in Thread, NEW dealer \in Dispatcher, NEW w \in Worker, Allocate(t, dealer, w)
      PROVE  Orderly'
  <2> DEFINE s == AllocatedToWorker(Loaded, w)
  <2>1. s \in ServiceObject
    BY LoadedType, AllocatedType DEF Typed
  <2>2. \A q \in Process : q = At("saveAllocate", dealer, s) => Fresh(q)
    BY <1>2 DEF Fresh, At, Allocate
  <2>3. "saveAllocate" \in PC \ (Placing \cup {"saveRestart", "appoint", "refetchPayment"})
        /\ dealer \in ServiceProvider \cup {NoAgent}
    BY DEF PC, Placing, ServiceProvider, Dispatcher
  <2>4. Start(t, "saveAllocate", dealer, s) /\ UNCHANGED <<row, responses, history, todo, tickets>>
    BY <1>2 DEF Allocate, events
  <2> HIDE DEF s
  <2> QED
    BY <1>q, <2>1, <2>2, <2>3, <2>4, BeginsOrderly
<1>3. ASSUME NEW t \in Thread, NEW pc \in {"saveCancel", "saveRevoke", "saveCancelByCustomer"},
             NEW s, Begun(s), BeginGiveUp(t, pc, s),
             \A q \in Process : q = At(pc, NoAgent, s) => Fresh(q)
      PROVE  Orderly'
  <2>1. s \in ServiceObject
    BY <1>3, BegunType DEF Typed
  <2>2. pc \in PC \ (Placing \cup {"saveRestart", "appoint", "refetchPayment"})
    BY DEF PC, Placing
  <2>3. Start(t, pc, NoAgent, s) /\ UNCHANGED <<row, responses, history, todo, tickets>>
    BY <1>3 DEF BeginGiveUp, events
  <2> QED
    BY <1>q, <1>3, <2>1, <2>2, <2>3, BeginsOrderly
<1>4. ASSUME NEW t \in Thread, NEW p \in ServiceProvider, Cancel(t, p)
      PROVE  Orderly'
  <2> DEFINE s == ProviderTerminated(Loaded, "CANCELLED_BY_SERVICE_PROVIDER")
  <2>1. \A q \in Process : q = At("saveCancel", NoAgent, s) => Fresh(q)
    BY DEF Fresh, At
  <2>2. Begun(s)
    BY DEF Begun, Cancelled
  <2>3. BeginGiveUp(t, "saveCancel", s)
    BY <1>4 DEF Cancel
  <2> HIDE DEF s
  <2> QED
    BY <1>3, <2>1, <2>2, <2>3
<1>5. ASSUME NEW t \in Thread, NEW failed \in BOOLEAN,
             BeginGiveUp(t, "saveRevoke", Revoked(Loaded, failed))
      PROVE  Orderly'
  <2> DEFINE s == Revoked(Loaded, failed)
  <2>1. \A q \in Process : q = At("saveRevoke", NoAgent, s) => Fresh(q)
    BY DEF Fresh, At
  <2>2. Begun(s)
    BY DEF Begun
  <2>3. BeginGiveUp(t, "saveRevoke", s)
    BY <1>5
  <2> HIDE DEF s
  <2> QED
    BY <1>3, <2>1, <2>2, <2>3
<1>6. ASSUME NEW t \in Thread, CancelByCustomer(t)
      PROVE  Orderly'
  <2> DEFINE s == ProviderTerminated(LoadedByGet, "CANCELLED_BY_CUSTOMER")
  <2>1. \A q \in Process : q = At("saveCancelByCustomer", NoAgent, s) => Fresh(q)
    BY DEF Fresh, At
  <2>2. Begun(s)
    BY DEF Begun, Cancelled
  <2>3. BeginGiveUp(t, "saveCancelByCustomer", s)
    BY <1>6 DEF CancelByCustomer
  <2> HIDE DEF s
  <2> QED
    BY <1>3, <2>1, <2>2, <2>3
<1>7. ASSUME NEW t \in Thread, Handle(t)
      PROVE  Orderly'
  <2>1. \A q \in Process : q = At("record", NoAgent, Loaded) => Fresh(q)
    BY <1>7 DEF Fresh, At, Handle, Saving
  <2>2. "record" \in PC \ (Placing \cup {"saveRestart", "appoint", "refetchPayment"})
    BY DEF PC, Placing
  <2>3. Start(t, "record", NoAgent, Loaded) /\ UNCHANGED <<row, responses, history, todo, tickets>>
    BY <1>7 DEF Handle, events
  <2> QED
    BY <1>q, <2>1, <2>2, <2>3, LoadedType, BeginsOrderly DEF Typed
<1>8. ASSUME NEW name \in {"expire", "paymentResponded"}, Publish({TaskOf(name)}),
             UNCHANGED <<row, thread, history, tickets>>, RowAgrees'
      PROVE  Orderly'
  <2>1. \A u \in Thread : thread'[u].pc = "idle"
    BY <1>q, <1>8 DEF Quiet, AllIdle, Running
  <2>2. TaskOf(name) \in Leading /\ TaskOf(name) # TaskOf("initiateAutoAssignment")
    BY TaskNames
  <2>3. \A k \in Leading \cup Following : todo'[k] = IF k = TaskOf(name) THEN 1 ELSE 0
    BY <1>q, <1>8, TaskNames DEF Quiet, NothingTodo, Publish, Following
  <2>4. \A k \in Following : todo'[k] = 0
    BY <2>2, <2>3, TaskNames
  <2>5. OneLeads'
    BY <1>q, <1>8, <2>1, <2>3 DEF OneLeads, Busy, Due, Quiet
  <2>6. OneFollows'
    BY <2>4 DEF OneFollows, Due, Following
  <2>7. RowFits'
    BY <2>1, <2>2, <2>3, <2>4, TaskNames DEF RowFits, Due, Following
  <2> QED
    BY <1>8, <2>1, <2>5, <2>6, <2>7, HandsIdle DEF Orderly
<1>9. CASE FindTimedOut
  <2>1. RowAgrees'
    BY <1>9, RowKept DEF FindTimedOut, Orderly, events
  <2> QED
    BY <1>8, <1>9, <2>1 DEF FindTimedOut, events
<1>10. ASSUME NEW status \in {"FAILED", "SUCCEEDED"}, Pay(status)
       PROVE  Orderly'
  <2>1. responses \in Seq({"FAILED", "SUCCEEDED"}) /\ responses' = Append(responses, status)
    BY <1>10 DEF Typed, TypeOK, Pay
  <2>2. row' = row
    BY <1>10 DEF Pay
  <2>3. \A i \in DOMAIN responses : i \in DOMAIN responses' /\ responses'[i] = responses[i]
    BY <2>1
  <2>4. RowAgrees'
    BY <2>2, <2>3 DEF RowAgrees, Orderly
  <2> QED
    BY <1>8, <1>10, <2>4 DEF Pay
<1>11. ASSUME NEW i \in DOMAIN responses, NEW status \in {"FAILED", "SUCCEEDED"},
              Override(i, status)
       PROVE  Orderly'
  <2>1. responses \in Seq({"FAILED", "SUCCEEDED"}) /\ responses' = [responses EXCEPT ![i] = status]
    BY <1>11 DEF Typed, TypeOK, Override
  <2>2. row' = row /\ (responses[i] = "SUCCEEDED" => status = "SUCCEEDED")
    BY <1>11 DEF Override
  <2>3. /\ DOMAIN responses' = DOMAIN responses
        /\ \A j \in DOMAIN responses : responses[j] = "SUCCEEDED" => responses'[j] = "SUCCEEDED"
    BY <2>1, <2>2
  <2>4. RowAgrees'
    BY <2>2, <2>3 DEF RowAgrees, Orderly
  <2> QED
    BY <1>8, <1>11, <2>4 DEF Override
<1> QED
  BY <1>1, <1>2, <1>4, <1>5, <1>6, <1>7, <1>9, <1>10, <1>11
     DEF Requested, Accept, ManualAssign, Revoke, Fail

\* A call that offers the job again goes on beside the clearing.
LEMMA AloneMoves ==
  ASSUME Typed, Orderly, NEW t \in Thread, Busy(t), NEW q \in Process,
         thread' = [thread EXCEPT ![t] = q], q.pc \in Reoffering,
         UNCHANGED <<todo, tickets>>, RowAgrees', Fresh(q)', Placed(q)',
         \/ row' = row /\ q.pc = thread[t].pc
         \/ row'.allocationStatus = "UNASSIGNED"
  PROVE  Orderly'
<1>1. Moved(t, q.pc)
  BY DEF Moved, Typed, Threads
<1>2. Alone(t) /\ \A k \in ForWorker : ~Due(k)
  BY BusyAlone DEF Orderly
<1>3. OneLeads' /\ OneFollows'
  BY <1>1, <1>2, AloneGoesOn DEF Orderly
<1>4. Hands'
  BY <1>2, HandsMove DEF Alone
<1>5. RowFits'
  <2>1. CASE row'.allocationStatus = "UNASSIGNED"
    BY <2>1 DEF RowFits
  <2>2. CASE row' = row /\ q.pc = thread[t].pc
    <3>1. \A u \in Thread : thread'[u].pc = thread[u].pc
      BY <1>1, <2>2 DEF Moved
    <3>2. \A k : Due(k)' <=> Due(k)
      BY DEF Due
    <3> QED
      BY <2>2, <3>1, <3>2 DEF RowFits, Orderly
  <2> QED
    BY <2>1, <2>2
<1> QED
  BY <1>3, <1>4, <1>5 DEF Orderly

\* A call that ends with the row as it is leaves everything in order.
LEMMA AloneStops ==
  ASSUME Typed, Orderly, NEW t \in Thread, Busy(t), Finish(t),
         tickets' \in {0, 1}, UNCHANGED <<todo, row, responses>>
  PROVE  Orderly'
<1>1. Moved(t, "idle")
  BY FinishMoves DEF Typed
<1>2. Alone(t) /\ \A k \in ForWorker : ~Due(k)
  BY BusyAlone DEF Orderly
<1>3. OneLeads' /\ OneFollows'
  BY <1>1, <1>2, ReofferEnds DEF Orderly
<1>4. \A u \in Thread : thread'[u].pc = "idle"
  BY <1>1, <1>2 DEF Moved, Alone, Busy
<1>5. Hands'
  BY <1>4, HandsIdle
<1>6. RowFits'
  BY <1>4 DEF RowFits, Orderly, Due
<1>7. RowAgrees'
  BY RowKept DEF Orderly
<1> QED
  BY <1>3, <1>5, <1>6, <1>7 DEF Orderly

\* What a call has in hand is as the row is.
LEMMA InHandNow ==
  ASSUME Typed, Orderly, PaymentGatewayEnabled, NEW t \in Thread
  PROVE  /\ thread[t] \in Process /\ Fresh(thread[t]) /\ Placed(thread[t])
         /\ UNCHANGED responses => InHand(t)
<1>1. PICK q : q = thread[t]
  OBVIOUS
<1>2. q \in Process
  BY <1>1 DEF Typed, Threads
<1>3. Fresh(q) /\ Placed(q)
  BY <1>1, <1>2 DEF Orderly, Hands
<1> QED
  BY <1>1, <1>2, <1>3 DEF InHand, Orderly

\* After a save, or between the updates of a call, nothing is in hand.
Emptied == {"idle", "insertManual", "acceptMine", "failOthers", "appoint", "failPending",
            "enqueue", "offer", "refetchPayment", "refetchHandling"}

\* Where a call has no object in hand, nothing is asked of it,
LEMMA EmptyHand ==
  ASSUME NEW q, q.pc \in Emptied
  PROVE  Fresh(q) /\ Fresh(q)'
BY DEF Fresh, Saving, Emptied

\* and where it has nothing to enter into the tables, neither.
LEMMA PlacedElsewhere ==
  ASSUME NEW q, q.pc \notin Placing \cup {"appoint", "refetchPayment"}
  PROVE  Placed(q) /\ Placed(q)'
BY DEF Placed, Placing

\* Reading the row for comparison keeps the order,
LEMMA CompareOrderly ==
  ASSUME Typed, Orderly, PaymentGatewayEnabled, NEW t \in Thread, Compare(t)
  PROVE  Orderly'
<1>1. PICK p \in Process : p = thread[t]
  BY InHandNow
<1>2. PICK changed : changed = Changed(thread[t].service)
  OBVIOUS
<1>3. changed \subseteq Column
  BY <1>2 DEF Changed
<1> DEFINE q == [p EXCEPT !.compared = TRUE, !.changed = changed]
<1>4. thread' = [thread EXCEPT ![t].compared = TRUE, ![t].changed = changed]
  BY <1>2 DEF Compare
<1>5. thread' = [thread EXCEPT ![t] = q] /\ q \in Process
  BY <1>1, <1>3, <1>4 DEF Typed, Threads, Process
<1>6. /\ q.pc = p.pc /\ q.agent = p.agent /\ q.service = p.service /\ q.changed = changed
  BY DEF Process
<1>7. p.pc \in Saving
  BY <1>1 DEF Compare
<1>8. UNCHANGED <<row, responses, history, todo, tickets>>
  BY DEF Compare, events, bounds
<1>9. Fresh(p) /\ Changed(p.service) = changed
  BY <1>1, <1>2, InHandNow
<1> HIDE DEF q
<1>10. Fresh(q)
  BY <1>6, <1>9 DEF Fresh
<1>11. Fresh(q)'
  BY <1>8, <1>10, FreshKept
<1>12. Placed(q)'
  BY <1>6, <1>7, PlacedElsewhere DEF Saving, Placing
<1>13. RowAgrees'
  BY <1>8, RowKept DEF Orderly
<1>14. Busy(t)
  BY <1>1, <1>7 DEF Busy, Saving
<1>15. CASE p.pc = "saveRestart"
  BY <1>1, <1>4, <1>5, <1>6, <1>8, <1>11, <1>12, <1>13, <1>14, <1>15, AloneMoves DEF Reoffering
<1>16. CASE p.pc # "saveRestart"
  <2>1. thread[t].pc \notin Reoffering
    BY <1>1, <1>7, <1>16 DEF Saving, Reoffering
  <2>2. Solo(t)
    BY <1>14, <2>1, BusySolo DEF Orderly
  <2> QED
    BY <1>4, <1>5, <1>6, <1>8, <1>11, <1>12, <1>13, <1>16, <2>2, SoloMoves
<1> QED
  BY <1>15, <1>16

\* A save after which the call goes on.
LEMMA SaveThenOrderly ==
  ASSUME Typed, Orderly, PaymentGatewayEnabled, NEW t \in Thread,
         NEW pc \in Saving \ {"saveRestart"}, NEW next \in PC, SaveThen(t, pc, next),
         next \in Emptied, RowAgrees',
         \A q \in Process : q = At(next, thread[t].agent, thread[t].service) => Placed(q)'
  PROVE  Orderly'
<1>1. thread[t].pc = pc /\ Busy(t) /\ pc \notin Reoffering
  BY DEF SaveThen, Update, Running, Busy, Saving, Reoffering
<1>2. Solo(t)
  BY <1>1, BusySolo DEF Orderly
<1>3. PICK q \in Process : q = At(next, thread[t].agent, thread[t].service)
  BY AtProcess, ThreadType DEF Typed
<1>4. thread' = [thread EXCEPT ![t] = q] /\ q.pc = next
  BY <1>3 DEF SaveThen, Goto, Continue, At
<1>5. UNCHANGED <<todo, tickets>>
  BY DEF SaveThen
<1>6. Fresh(q)' /\ Placed(q)'
  BY <1>3, <1>4, EmptyHand
<1>7. next # "saveRestart"
  BY DEF Emptied
<1> QED
  BY <1>2, <1>4, <1>5, <1>6, <1>7, SoloMoves

\* as do the saves after which a call goes on,
LEMMA SavesOrderly ==
  ASSUME Typed, Orderly, PaymentGatewayEnabled, NEW t \in Thread,
         \/ SaveAccept(t) \/ SaveManual(t) \/ SaveAllocate(t) \/ SaveExpire(t)
         \/ SavePayment(t) \/ SaveHandling(t) \/ SaveRestart(t)
  PROVE  Orderly'
<1>1. ASSUME NEW pc, NEW next, SaveThen(t, pc, next)
      PROVE  InHand(t) /\ Updated(t) /\ thread[t].pc = pc
  BY <1>1, InHandNow DEF SaveThen, Update, Updated, Running, events
<1>2. thread[t].agent \in Dispatcher \/ thread[t].pc \notin TakePC
  BY ThreadType DEF Typed, ProcessOK
<1>3. ASSUME NEW pc \in {"saveAccept", "saveManual"}, NEW next \in {"acceptMine", "insertManual"},
             SaveThen(t, pc, next)
      PROVE  Orderly'
  <2>1. /\ RowAgrees'
        /\ row'.dispatcher = thread[t].agent /\ row'.status # "FAILED"
        /\ IF thread[t].service.worker = thread[t].agent
           THEN row'.worker = thread[t].agent /\ row'.allocationStatus = "ALLOCATED"
           ELSE row'.allocationStatus = "ASSIGNED"
    BY <1>1, <1>3, TakeSave
  <2>2. ASSUME NEW q \in Process, q = At(next, thread[t].agent, thread[t].service)
        PROVE  Placed(q)'
    <3>1. q.pc = next /\ q.agent = thread[t].agent /\ q.service = thread[t].service
      BY <2>2 DEF At
    <3> QED
      BY <2>1, <3>1 DEF Placed
  <2>3. pc \in Saving \ {"saveRestart"} /\ next \in PC /\ next \in Emptied
    BY DEF Saving, PC, Emptied
  <2> QED
    BY <1>3, <2>1, <2>2, <2>3, SaveThenOrderly
<1>4. CASE SaveAllocate(t)
  <2>0. SaveThen(t, "saveAllocate", "appoint")
    BY <1>4 DEF SaveAllocate
  <2>1. /\ RowAgrees'
        /\ row'.dispatcher = thread[t].service.dispatcher
        /\ row'.worker = thread[t].service.worker
        /\ row'.status # "FAILED" /\ row'.allocationStatus = "ALLOCATED"
    BY <1>1, <2>0, AllocateSave
  <2>2. ASSUME NEW q \in Process, q = At("appoint", thread[t].agent, thread[t].service)
        PROVE  Placed(q)'
    <3>1. q.pc = "appoint" /\ q.service = thread[t].service
      BY <2>2 DEF At
    <3> QED
      BY <2>1, <3>1 DEF Placed
  <2>3. "saveAllocate" \in Saving \ {"saveRestart"} /\ "appoint" \in PC /\ "appoint" \in Emptied
    BY DEF Saving, PC, Emptied
  <2> QED
    BY <2>0, <2>1, <2>2, <2>3, SaveThenOrderly
<1>5. ASSUME NEW pc \in Saving \ {"saveRestart"},
             NEW next \in {"failPending", "refetchPayment", "refetchHandling"},
             SaveThen(t, pc, next), RowAgrees',
             next = "refetchPayment" => row'.allocationStatus = "UNASSIGNED"
      PROVE  Orderly'
  <2>1. ASSUME NEW q \in Process, q = At(next, thread[t].agent, thread[t].service)
        PROVE  Placed(q)'
    <3>1. q.pc = next
      BY <2>1 DEF At
    <3> QED
      BY <1>5, <3>1 DEF Placed
  <2>2. next \in PC /\ next \in Emptied
    BY DEF PC, Emptied
  <2> QED
    BY <1>5, <2>1, <2>2, SaveThenOrderly
<1>6. CASE SaveExpire(t)
  <2>1. SaveThen(t, "saveExpire", "failPending") /\ "saveExpire" \in Saving
    BY <1>6 DEF SaveExpire, Saving
  <2>2. RowAgrees'
    BY <1>1, <2>1, ExpireSave
  <2> QED
    BY <1>5, <2>1, <2>2
<1>7. CASE SavePayment(t)
  <2>1. SaveThen(t, "savePayment", "refetchPayment") /\ "savePayment" \in Saving
    BY <1>7 DEF SavePayment, Saving
  <2>2. RowAgrees' /\ row'.allocationStatus = "UNASSIGNED"
    BY <1>1, <2>1, PaymentSave
  <2> QED
    BY <1>5, <2>1, <2>2
<1>8. CASE SaveHandling(t)
  <2>1. SaveThen(t, "saveHandling", "refetchHandling") /\ "saveHandling" \in Saving
    BY <1>8 DEF SaveHandling, Saving
  <2>2. RowAgrees'
    BY <1>1, <2>1, HandlingSave
  <2> QED
    BY <1>5, <2>1, <2>2
<1>9. CASE SaveRestart(t)
  <2>1. SaveThen(t, "saveRestart", "enqueue")
    BY <1>9 DEF SaveRestart
  <2>2. thread[t].pc = "saveRestart" /\ Busy(t)
    BY <1>1, <2>1 DEF Busy
  <2>3. row.allocationStatus = "UNASSIGNED"
    BY <2>2 DEF Orderly, RowFits
  <2>4. RowAgrees' /\ row'.allocationStatus = "UNASSIGNED"
    BY <1>1, <2>1, <2>2, <2>3, RestartSave
  <2>5. PICK q \in Process : q = At("enqueue", thread[t].agent, thread[t].service)
    <3>1. "enqueue" \in PC
      BY DEF PC
    <3> QED
      BY <3>1, AtProcess, ThreadType DEF Typed
  <2>6. thread' = [thread EXCEPT ![t] = q] /\ q.pc = "enqueue" /\ UNCHANGED <<todo, tickets>>
    BY <2>1, <2>5 DEF SaveThen, Goto, Continue, At
  <2>7. Fresh(q)' /\ Placed(q)'
    BY <2>6, EmptyHand, PlacedElsewhere DEF Emptied, Placing
  <2>8. q.pc \in Reoffering
    BY <2>6 DEF Reoffering
  <2> QED
    BY <2>2, <2>4, <2>6, <2>7, <2>8, AloneMoves
<1>10. CASE SaveAccept(t) \/ SaveManual(t)
  BY <1>3, <1>10 DEF SaveAccept, SaveManual
<1> QED
  BY <1>4, <1>6, <1>7, <1>8, <1>9, <1>10

\* those after which it ends,
LEMMA StopsOrderly ==
  ASSUME Typed, Orderly, PaymentGatewayEnabled, NEW t \in Thread,
         \/ SaveCancel(t) \/ SaveRevoke(t) \/ SaveCancelByCustomer(t) \/ SavePatch(t)
  PROVE  Orderly'
<1>1. ASSUME NEW pc \in Saving \ {"saveRestart"}, NEW tasks, SaveAndPublish(t, pc, tasks)
      PROVE  /\ InHand(t) /\ Updated(t) /\ thread[t].pc = pc
             /\ Solo(t) /\ Finish(t) /\ UNCHANGED tickets /\ Publish(tasks)
  <2>1. InHand(t) /\ Updated(t) /\ thread[t].pc = pc
    BY <1>1, InHandNow DEF SaveAndPublish, Update, Updated, Running, events
  <2>2. Busy(t) /\ thread[t].pc \notin Reoffering
    BY <2>1 DEF Busy, Saving, Reoffering
  <2> QED
    BY <1>1, <2>1, <2>2, BusySolo DEF SaveAndPublish, Orderly
<1> DEFINE again == TaskOf("initiateAutoAssignment")
<1>2. /\ again \in Leading /\ TaskOf("cancelAssignments") \in Clearing
      /\ TaskOf("revokeAssignments") \in Clearing
      /\ Leading \cap Following = {} /\ Clearing \cap ForWorker = {} /\ Clearing \subseteq Following
  BY TaskNames DEF Following
<1> HIDE DEF again
<1>3. ASSUME NEW pc \in Saving \ {"saveRestart"}, NEW tasks, SaveAndPublish(t, pc, tasks),
             NEW k \in Clearing, tasks \in {{k}, {k, again}},
             RowAgrees', row'.allocationStatus = "UNASSIGNED" \/ row'.status = "FAILED",
             again \in tasks => row'.allocationStatus = "UNASSIGNED"
      PROVE  Orderly'
  <2>0. k \in tasks /\ tasks \subseteq {k, again} /\ k \in Following /\ again \notin Following
        /\ k \notin Leading /\ k \notin ForWorker
    BY <1>2, <1>3
  <2>1. Leading \cap tasks \subseteq {again} /\ Following \cap tasks = {k} /\ ForWorker \cap tasks = {}
    BY <2>0 DEF Following
  <2>2. Solo(t) /\ Finish(t) /\ UNCHANGED tickets /\ Publish(tasks)
    BY <1>1, <1>3
  <2>3. /\ \A m, l \in Leading \cap tasks : m = l
        /\ \A m, l \in Following \cap tasks : m = l
    BY <2>1
  <2> QED
    BY <1>3, <2>1, <2>2, <2>3, SoloStops DEF again
<1>4. CASE SaveCancel(t)
  <2>1. SaveAndPublish(t, "saveCancel", {TaskOf("cancelAssignments"), again})
        /\ "saveCancel" \in Saving \ {"saveRestart"}
    BY <1>4 DEF SaveCancel, Saving, again
  <2>2. InHand(t) /\ Updated(t) /\ thread[t].pc = "saveCancel"
    BY <1>1, <2>1
  <2>3. thread[t].service = ProviderTerminated(Loaded, "CANCELLED_BY_SERVICE_PROVIDER")
    BY <2>2 DEF InHand, Fresh
  <2>4. RowAgrees' /\ row'.allocationStatus = "UNASSIGNED"
    BY <2>1, <2>2, <2>3, TerminatedSave DEF Cancelled
  <2> QED
    BY <1>2, <1>3, <2>1, <2>4
<1>5. CASE SaveRevoke(t)
  <2> DEFINE tasks == {TaskOf("revokeAssignments")} \cup
                      (IF thread[t].service.status = "FAILED" THEN {} ELSE {again})
  <2>1. SaveAndPublish(t, "saveRevoke", tasks) /\ "saveRevoke" \in Saving \ {"saveRestart"}
    BY <1>5 DEF SaveRevoke, Saving, again
  <2>2. InHand(t) /\ Updated(t) /\ thread[t].pc = "saveRevoke"
    BY <1>1, <2>1
  <2>3. /\ RowAgrees'
        /\ row'.allocationStatus = "UNASSIGNED" \/ row'.status = "FAILED"
        /\ thread[t].service.status # "FAILED" => row'.allocationStatus = "UNASSIGNED"
    BY <2>2, RevokeSave
  <2>4. again \in tasks => thread[t].service.status # "FAILED"
    BY <1>2
  <2>5. tasks \in {{TaskOf("revokeAssignments")}, {TaskOf("revokeAssignments"), again}}
    OBVIOUS
  <2> HIDE DEF tasks
  <2> QED
    BY <1>2, <1>3, <2>1, <2>3, <2>4, <2>5
<1>6. CASE SaveCancelByCustomer(t)
  <2>1. SaveAndPublish(t, "saveCancelByCustomer", {TaskOf("cancelAssignments")})
        /\ "saveCancelByCustomer" \in Saving \ {"saveRestart"}
    BY <1>6 DEF SaveCancelByCustomer, Saving
  <2>2. InHand(t) /\ Updated(t) /\ thread[t].pc = "saveCancelByCustomer"
    BY <1>1, <2>1
  <2>3. thread[t].service = ProviderTerminated(LoadedByGet, "CANCELLED_BY_CUSTOMER")
    BY <2>2 DEF InHand, Fresh
  <2>4. RowAgrees' /\ row'.allocationStatus = "UNASSIGNED"
    BY <2>1, <2>2, <2>3, TerminatedSave DEF Cancelled
  <2> QED
    BY <1>2, <1>3, <2>1, <2>4
<1>7. CASE SavePatch(t)
  <2>1. SaveAndPublish(t, "savePatch", {}) /\ "savePatch" \in Saving \ {"saveRestart"}
    BY <1>7 DEF SavePatch, Saving
  <2>2. /\ InHand(t) /\ Updated(t) /\ thread[t].pc = "savePatch"
        /\ Solo(t) /\ Finish(t) /\ UNCHANGED tickets /\ Publish({})
    BY <1>1, <2>1
  <2>3. row' = row
    BY <2>2, PatchSave
  <2>4. RowAgrees'
    BY <2>2, <2>3, RowKept DEF InHand
  <2> QED
    BY <2>2, <2>4, SoloStops
<1> QED
  BY <1>4, <1>5, <1>6, <1>7

\* The updates of the tables by a call, and what it looks up.
LEMMA CallsOrderly ==
  ASSUME Typed, Orderly, PaymentGatewayEnabled, NEW t \in Thread,
         \/ InsertManual(t) \/ AcceptMine(t) \/ FailOthers(t) \/ Appoint(t) \/ FailPending(t)
         \/ Enqueue(t) \/ Offer(t) \/ LookupPayment(t) \/ RefetchPayment(t)
         \/ Record(t) \/ LookupHandling(t) \/ RefetchHandling(t)
  PROVE  Orderly'
<1>a. /\ UNCHANGED <<row, responses>> /\ Busy(t)
      /\ thread[t].pc \in Reoffering => Enqueue(t) \/ Offer(t)
  BY DEF InsertManual, AcceptMine, FailOthers, Appoint, FailPending, Enqueue, Offer,
         LookupPayment, RefetchPayment, Record, LookupHandling, RefetchHandling, events, Running,
         Busy, Reoffering
<1>b. RowAgrees'
  BY <1>a, RowKept DEF Orderly
<1>c. PICK p \in Process : p = thread[t] /\ Fresh(p) /\ Placed(p)
  BY InHandNow
<1>d. p.agent \in ServiceProvider \cup {NoAgent} /\ p.service \in ServiceObject
  BY <1>c DEF Process
<1>1. CASE Enqueue(t) \/ Offer(t)
  <2>1. Finish(t) /\ UNCHANGED todo
    BY <1>1 DEF Enqueue, Offer
  <2>2. tickets = 0
    BY <1>a DEF Orderly, OneLeads
  <2>3. tickets' \in {0, 1}
    BY <1>1, <2>2 DEF Enqueue, Offer
  <2> QED
    BY <1>a, <2>1, <2>3, AloneStops
<1>s. ASSUME ~Enqueue(t), ~Offer(t)
      PROVE  Solo(t)
  BY <1>a, <1>s, BusySolo DEF Orderly
<1>2. ASSUME NEW pc \in PC, pc # "saveRestart", NEW s \in ServiceObject,
             thread' = [thread EXCEPT ![t] = At(pc, p.agent, s)],
             UNCHANGED <<todo, tickets>>, Solo(t),
             \A q \in Process : q = At(pc, p.agent, s) => Fresh(q)' /\ Placed(q)'
      PROVE  Orderly'
  <2>1. PICK q \in Process : q = At(pc, p.agent, s)
    BY <1>d, AtProcess
  <2>2. q.pc = pc
    BY <2>1 DEF At
  <2> QED
    BY <1>b, <1>2, <2>1, <2>2, SoloMoves
<1>3. CASE InsertManual(t) \/ AcceptMine(t)
  <2>1. PICK next \in {"acceptMine", "failOthers"} : Goto(t, next)
    BY <1>3 DEF InsertManual, AcceptMine
  <2>2. ASSUME NEW q \in Process, q = At(next, p.agent, p.service)
        PROVE  Fresh(q)' /\ Placed(q)'
    <3>1. q.pc = next /\ q.agent = p.agent /\ q.service = p.service
      BY <2>2 DEF At
    <3>2. p.pc \in {"insertManual", "acceptMine"}
      BY <1>3, <1>c DEF InsertManual, AcceptMine, Running
    <3>3. Placed(q)
      BY <1>c, <3>1, <3>2 DEF Placed
    <3> QED
      BY <1>a, <3>1, <3>3, EmptyHand, PlacedKept DEF Emptied
  <2>3. UNCHANGED <<todo, tickets>> /\ ~Enqueue(t) /\ ~Offer(t)
    BY <1>3 DEF InsertManual, AcceptMine, Enqueue, Offer, Running
  <2>4. next \in PC /\ next # "saveRestart"
    BY DEF PC
  <2>5. thread' = [thread EXCEPT ![t] = At(next, p.agent, p.service)]
    BY <1>c, <2>1 DEF Goto, Continue
  <2> QED
    BY <1>2, <1>d, <1>s, <2>2, <2>3, <2>4, <2>5
<1>4. CASE FailOthers(t)
  <2>1. UNCHANGED <<todo, tickets>> /\ ~Enqueue(t) /\ ~Offer(t) /\ p.pc = "failOthers"
    BY <1>4, <1>c DEF FailOthers, Enqueue, Offer, Running
  <2>2. CASE p.service.worker = p.agent
    <3>1. Goto(t, "appoint")
      BY <1>4, <1>c, <2>2 DEF FailOthers
    <3>2. p.service.dispatcher = p.agent
      BY <1>c, <2>1, ThreadType DEF Typed, ProcessOK, TakePC
    <3>3. ASSUME NEW q \in Process, q = At("appoint", p.agent, p.service)
          PROVE  Fresh(q)' /\ Placed(q)'
      <4>1. q.pc = "appoint" /\ q.agent = p.agent /\ q.service = p.service
        BY <3>3 DEF At
      <4>2. Placed(q)
        BY <1>c, <2>1, <2>2, <3>2, <4>1 DEF Placed
      <4> QED
        BY <1>a, <4>1, <4>2, EmptyHand, PlacedKept DEF Emptied
    <3>4. "appoint" \in PC
      BY DEF PC
    <3>5. thread' = [thread EXCEPT ![t] = At("appoint", p.agent, p.service)]
      BY <1>c, <3>1 DEF Goto, Continue
    <3> QED
      BY <1>2, <1>d, <1>s, <2>1, <3>3, <3>4, <3>5
  <2>3. CASE p.service.worker # p.agent
    <3>1. Finish(t)
      BY <1>4, <1>c, <2>3 DEF FailOthers
    <3> QED
      BY <1>b, <1>s, <2>1, <3>1, SoloStopsSilently
  <2> QED
    BY <2>2, <2>3
<1>5. CASE FailPending(t)
  <2>1. UNCHANGED <<todo, tickets>> /\ ~Enqueue(t) /\ ~Offer(t) /\ Finish(t)
    BY <1>5 DEF FailPending, Enqueue, Offer, Running
  <2> QED
    BY <1>b, <1>s, <2>1, SoloStopsSilently
<1>6. CASE LookupPayment(t)
  <2> DEFINE s == DerivedFromPaymentHistory(p.service, LoadResponse(Len(responses)))
  <2>1. UNCHANGED <<history, todo, tickets>> /\ ~Enqueue(t) /\ ~Offer(t) /\ p.pc = "lookupPayment"
    BY <1>6, <1>c DEF LookupPayment, Enqueue, Offer, Running, events
  <2>2. s \in ServiceObject
    BY <1>c, BegunType DEF Begun, Typed
  <2>3. p.service = Loaded /\ ~HasCustomerPaid(row)
    BY <1>c, <2>1 DEF Fresh
  <2>4. ASSUME NEW q \in Process, q = At("savePayment", p.agent, s)
        PROVE  Fresh(q)' /\ Placed(q)'
    <3>1. q.pc = "savePayment" /\ q.service = s /\ q.compared = FALSE
      BY <2>4 DEF At
    <3>2. Fresh(q)
      BY <2>3, <3>1 DEF Fresh
    <3> QED
      BY <1>a, <2>1, <3>1, <3>2, FreshKept, PlacedElsewhere DEF Placing
  <2>5. thread' = [thread EXCEPT ![t] = At("savePayment", p.agent, s)]
    BY <1>6, <1>c DEF LookupPayment, Continue
  <2>6. "savePayment" \in PC
    BY DEF PC
  <2> HIDE DEF s
  <2> QED
    BY <1>2, <1>s, <2>1, <2>2, <2>4, <2>5, <2>6
<1>7. CASE Record(t)
  <2> DEFINE e == NextHandlingEventType(p.service)
  <2>1. UNCHANGED <<todo, tickets>> /\ ~Enqueue(t) /\ ~Offer(t) /\ p.pc = "record"
    BY <1>7, <1>c DEF Record, Enqueue, Offer, Running, events
  <2>2. p.service = Loaded /\ CanHandle(Loaded)
    BY <1>c, <2>1 DEF Fresh
  <2>3. Loaded' = Loaded
    BY <1>a DEF Loaded, LoadResponse
  <2>4. e \in HandlingEventType
    BY DEF NextHandlingEventType, HandlingEventType
  <2>5. history \in Seq(HandlingEventType) /\ history' = Append(history, e)
    BY <1>7, <1>c DEF Record, Typed, TypeOK
  <2> HIDE DEF e
  <2>6. history' # <<>> /\ history'[Len(history')] = e
    BY <2>4, <2>5
  <2>7. e = NextHandlingEventType(Loaded)
    BY <2>2 DEF e
  <2>8. ASSUME NEW q \in Process, q = At("lookupHandling", p.agent, p.service)
        PROVE  Fresh(q)' /\ Placed(q)'
    <3>1. q.pc = "lookupHandling" /\ q.service = p.service
      BY <2>8 DEF At
    <3> QED
      BY <2>2, <2>3, <2>6, <2>7, <3>1, PlacedElsewhere DEF Fresh, Saving, Placing
  <2>9. thread' = [thread EXCEPT ![t] = At("lookupHandling", p.agent, p.service)]
    BY <1>7, <1>c DEF Record, Goto, Continue
  <2>10. "lookupHandling" \in PC
    BY DEF PC
  <2> QED
    BY <1>2, <1>d, <1>s, <2>1, <2>8, <2>9, <2>10
<1>8. CASE LookupHandling(t)
  <2> DEFINE s == DerivedFromHandlingHistory(p.service, history[Len(history)])
  <2>1. UNCHANGED <<history, todo, tickets>> /\ ~Enqueue(t) /\ ~Offer(t) /\ p.pc = "lookupHandling"
    BY <1>8, <1>c DEF LookupHandling, Enqueue, Offer, Running, events
  <2>2. /\ p.service = Loaded /\ CanHandle(Loaded)
        /\ history # <<>> /\ history[Len(history)] = NextHandlingEventType(Loaded)
    BY <1>c, <2>1 DEF Fresh
  <2>3. s \in ServiceObject
    BY <1>c, <2>2, BegunType DEF Begun, Typed
  <2>4. ASSUME NEW q \in Process, q = At("saveHandling", p.agent, s)
        PROVE  Fresh(q)' /\ Placed(q)'
    <3>1. q.pc = "saveHandling" /\ q.service = s /\ q.compared = FALSE
      BY <2>4 DEF At
    <3>2. Fresh(q)
      BY <2>2, <3>1 DEF Fresh
    <3> QED
      BY <1>a, <2>1, <3>1, <3>2, FreshKept, PlacedElsewhere DEF Placing
  <2>5. thread' = [thread EXCEPT ![t] = At("saveHandling", p.agent, s)]
    BY <1>8, <1>c DEF LookupHandling, Continue
  <2>6. "saveHandling" \in PC
    BY DEF PC
  <2> HIDE DEF s
  <2> QED
    BY <1>2, <1>s, <2>1, <2>3, <2>4, <2>5, <2>6
<1>9. ASSUME NEW k \in ForWorker, Finish(t), UNCHANGED tickets, Publish({k}) \/ Publish({}), Solo(t)
      PROVE  Orderly'
  <2>1. PICK tasks \in {{k}, {}} : Publish(tasks)
    BY <1>9
  <2>2. /\ Leading \cap tasks = {} /\ Clearing \cap tasks = {}
        /\ \A m, l \in Following \cap tasks : m = l
        /\ TaskOf("initiateAutoAssignment") \notin tasks
    BY TaskNames DEF Following
  <2> QED
    BY <1>b, <1>9, <2>1, <2>2, SoloStops
<1>10. CASE Appoint(t)
  <2>1. UNCHANGED tickets /\ ~Enqueue(t) /\ ~Offer(t) /\ Finish(t)
        /\ Publish({[name |-> "replaceOthers", worker |-> p.service.worker]}) /\ p.pc = "appoint"
    BY <1>10, <1>c DEF Appoint, Enqueue, Offer, Running
  <2>2. p.service.worker \in ServiceProvider
    BY <1>c, <2>1, ThreadType DEF Typed, ProcessOK, ServiceProvider
  <2>3. [name |-> "replaceOthers", worker |-> p.service.worker] \in ForWorker
    BY <2>2 DEF ForWorker
  <2> QED
    BY <1>9, <1>s, <2>1, <2>3
<1>11. CASE RefetchHandling(t)
  <2>1. /\ UNCHANGED tickets /\ ~Enqueue(t) /\ ~Offer(t) /\ Finish(t)
        /\ \/ Publish({[name |-> "fulfilAppointments", worker |-> row.worker]})
           \/ Publish({})
    BY <1>11 DEF RefetchHandling, Enqueue, Offer, Running
  <2>2. row.worker \in ServiceProvider \cup {NoAgent}
    BY RowFacts DEF Orderly, ServiceProvider
  <2>3. [name |-> "fulfilAppointments", worker |-> row.worker] \in ForWorker
    BY <2>2 DEF ForWorker
  <2> QED
    BY <1>9, <1>s, <2>1, <2>3
<1>12. CASE RefetchPayment(t)
  <2> DEFINE again == TaskOf("initiateAutoAssignment")
  <2>1. /\ UNCHANGED tickets /\ ~Enqueue(t) /\ ~Offer(t) /\ Finish(t)
        /\ Publish(IF HasCustomerPaid(row) THEN {again} ELSE {})
    BY <1>12 DEF RefetchPayment, Enqueue, Offer, Running
  <2>2. row'.allocationStatus = "UNASSIGNED"
    BY <1>12, <1>a, <1>c DEF RefetchPayment, Running, Placed
  <2>3. PICK tasks \in {{again}, {}} : Publish(tasks)
    BY <2>1
  <2>4. again \in Leading /\ Leading \cap Following = {}
    BY TaskNames
  <2> HIDE DEF again
  <2>5. tasks \subseteq {again}
    OBVIOUS
  <2>6. Following \cap tasks = {}
    BY <2>4, <2>5
  <2>7. /\ \A m, l \in Leading \cap tasks : m = l
        /\ \A m, l \in Following \cap tasks : m = l
        /\ Clearing \cap tasks = {} /\ ForWorker \cap tasks = {}
    BY <2>5, <2>6 DEF Following
  <2> QED
    BY <1>b, <1>s, <2>1, <2>2, <2>3, <2>7, SoloStops
<1> QED
  BY <1>1, <1>3, <1>4, <1>5, <1>6, <1>7, <1>8, <1>10, <1>11, <1>12

\* What is taken up while nobody is at work.
LEMMA TakesUp ==
  ASSUME Typed, Orderly, NEW t \in Thread, NEW q \in Process,
         thread' = [thread EXCEPT ![t] = q],
         \A u \in Thread : ~Busy(u),
         tickets' = 0, \A k \in Leading : todo'[k] = 0,
         \A k \in Following : todo'[k] = todo[k],
         UNCHANGED <<row, responses, history>>,
         q.pc \in Reoffering \/ \A k \in Following : ~Due(k),
         \A k \in ForWorker : ~Due(k),
         q.pc = "saveRestart" => row.allocationStatus = "UNASSIGNED",
         Fresh(q), Placed(q)
  PROVE  Orderly'
<1>1. Moved(t, q.pc)
  BY DEF Moved, Typed, Threads
<1>2. OneLeads' /\ OneFollows'
  BY <1>1, TakenUp DEF Orderly
<1>3. Fresh(q)' /\ Placed(q)'
  BY FreshKept, PlacedKept
<1>4. Hands'
  BY <1>3, HandsMove
<1>5. RowAgrees'
  BY RowKept DEF Orderly
<1>6. RowFits'
  <2>1. ~Due(TaskOf("initiateAutoAssignment"))'
    BY TaskNames DEF Due
  <2>2. \A k \in Clearing : Due(k)' => Due(k)
    BY DEF Due, Following
  <2>3. (\E u \in Thread : thread'[u].pc = "saveRestart") => row'.allocationStatus = "UNASSIGNED"
    BY <1>1 DEF Moved, Busy
  <2> QED
    BY <2>1, <2>2, <2>3 DEF RowFits, Orderly
<1> QED
  BY <1>2, <1>4, <1>5, <1>6 DEF Orderly

\* the handlers and tickets that a thread takes up,
LEMMA TakeUpOrderly ==
  ASSUME Typed, Orderly, PaymentGatewayEnabled, NEW t \in Thread, TakeUp(t)
  PROVE  Orderly'
<1>1. ASSUME NEW k \in Leading, Take(k), UNCHANGED tickets
      PROVE  /\ Due(k)
             /\ \A u \in Thread : ~Busy(u)
             /\ tickets' = 0 /\ \A l \in Leading : todo'[l] = 0
             /\ \A l \in Following : todo'[l] = todo[l]
             /\ \A l \in ForWorker : ~Due(l)
             /\ k # TaskOf("initiateAutoAssignment") => \A l \in Following : ~Due(l)
  <2>1. /\ Due(k) /\ todo'[k] = todo[k] - 1
        /\ \A l \in Leading : l # k => todo'[l] = todo[l]
        /\ \A l \in Following : todo'[l] = todo[l]
    BY <1>1, TaskNames DEF Take, Due, Typed, TypeOK, Following
  <2>2. /\ \A u \in Thread : ~Busy(u)
        /\ tickets' = 0 /\ \A l \in Leading : todo'[l] = 0
    BY <1>1, <2>1, WaitingAlone DEF Orderly
  <2> QED
    BY <2>1, <2>2, WaitingFollows DEF Orderly
<1>2. NoAgent \in ServiceProvider \cup {NoAgent}
  OBVIOUS
<1>3. ASSUME NEW name \in {"initiateAutoAssignment", "paymentResponded", "expire", "patchCRM"},
             NEW pc \in {"saveRestart", "lookupPayment", "saveExpire", "savePatch"},
             NEW s \in ServiceObject,
             Take(TaskOf(name)), Start(t, pc, NoAgent, s),
             UNCHANGED <<row, responses, history, tickets>>,
             pc = "saveRestart" <=> name = "initiateAutoAssignment",
             \A q \in Process : q = At(pc, NoAgent, s) => Fresh(q)
      PROVE  Orderly'
  <2>1. TaskOf(name) \in Leading
    BY DEF Leading
  <2>2. pc \in PC
    BY DEF PC
  <2>3. PICK q \in Process : q = At(pc, NoAgent, s)
    BY <1>2, <2>2, AtProcess
  <2>4. q.pc = pc /\ thread' = [thread EXCEPT ![t] = q] /\ Fresh(q)
    BY <1>3, <2>3 DEF At, Start
  <2>5. Placed(q)
    BY <2>4, PlacedElsewhere DEF Placing
  <2>6. name # "initiateAutoAssignment" => TaskOf(name) # TaskOf("initiateAutoAssignment")
    BY TaskNames
  <2>7. Due(TaskOf(name))
    BY <1>1, <1>3, <2>1
  <2>8. pc = "saveRestart" => row.allocationStatus = "UNASSIGNED"
    BY <1>3, <2>7 DEF Orderly, RowFits
  <2>9. /\ \A u \in Thread : ~Busy(u)
        /\ tickets' = 0 /\ \A l \in Leading : todo'[l] = 0
        /\ \A l \in Following : todo'[l] = todo[l]
        /\ \A l \in ForWorker : ~Due(l)
        /\ name # "initiateAutoAssignment" => \A l \in Following : ~Due(l)
    BY <1>1, <1>3, <2>1, <2>6
  <2>10. q.pc \in Reoffering \/ \A k \in Following : ~Due(k)
    BY <1>3, <2>4, <2>9 DEF Reoffering
  <2> QED
    BY <1>3, <2>4, <2>5, <2>8, <2>9, <2>10, TakesUp
<1>4. CASE InitiateAutoAssignment(t)
  <2> DEFINE s == Restarted(Loaded)
  <2>1. s \in ServiceObject
    BY BegunType DEF Begun, Typed
  <2>2. \A q \in Process : q = At("saveRestart", NoAgent, s) => Fresh(q)
    BY DEF Fresh, At
  <2>3. /\ Take(TaskOf("initiateAutoAssignment")) /\ Start(t, "saveRestart", NoAgent, s)
        /\ UNCHANGED <<row, responses, history, tickets>>
    BY <1>4 DEF InitiateAutoAssignment, events
  <2> HIDE DEF s
  <2> QED
    BY <1>3, <2>1, <2>2, <2>3
<1>5. CASE PaymentResponded(t)
  <2>1. \A q \in Process : q = At("lookupPayment", NoAgent, Loaded) => Fresh(q)
    BY <1>5 DEF Fresh, At, PaymentResponded, Saving
  <2>2. /\ Take(TaskOf("paymentResponded")) /\ Start(t, "lookupPayment", NoAgent, Loaded)
        /\ UNCHANGED <<row, responses, history, tickets>>
    BY <1>5 DEF PaymentResponded, events
  <2> QED
    BY <1>3, <2>1, <2>2, LoadedType DEF Typed
<1>6. CASE Expire(t)
  <2> DEFINE s == ExpiredBySystem(LoadedByGet)
  <2>1. s \in ServiceObject
    BY BegunType DEF Begun, Typed
  <2>2. \A q \in Process : q = At("saveExpire", NoAgent, s) => Fresh(q)
    BY DEF Fresh, At
  <2>3. /\ Take(TaskOf("expire")) /\ Start(t, "saveExpire", NoAgent, s)
        /\ UNCHANGED <<row, responses, history, tickets>>
    BY <1>6 DEF Expire, events
  <2> HIDE DEF s
  <2> QED
    BY <1>3, <2>1, <2>2, <2>3
<1>7. CASE PatchCRM(t)
  <2>1. \A q \in Process : q = At("savePatch", NoAgent, Loaded) => Fresh(q)
    BY DEF Fresh, At
  <2>2. /\ Take(TaskOf("patchCRM")) /\ Start(t, "savePatch", NoAgent, Loaded)
        /\ UNCHANGED <<row, responses, history, tickets>>
    BY <1>7 DEF PatchCRM, events
  <2> QED
    BY <1>3, <2>1, <2>2, LoadedType DEF Typed
<1>8. CASE ReadTicket(t)
  <2>1. /\ tickets > 0 /\ tickets' = tickets - 1 /\ Start(t, "offer", NoAgent, Loaded)
        /\ UNCHANGED <<row, responses, history, todo>>
    BY <1>8 DEF ReadTicket, TicketReady, events
  <2>2. /\ \A u \in Thread : ~Busy(u)
        /\ tickets' = 0 /\ \A l \in Leading : todo'[l] = 0
    BY <2>1, WaitingAlone DEF Orderly
  <2>3. \A l \in ForWorker : ~Due(l)
    BY <2>1 DEF Orderly, OneFollows
  <2>4. "offer" \in PC
    BY DEF PC
  <2>5. PICK q \in Process : q = At("offer", NoAgent, Loaded)
    BY <1>2, <2>4, AtProcess, LoadedType DEF Typed
  <2>6. q.pc = "offer" /\ thread' = [thread EXCEPT ![t] = q]
    BY <2>1, <2>5 DEF At, Start
  <2>7. Fresh(q) /\ Placed(q)
    BY <2>6, EmptyHand, PlacedElsewhere DEF Emptied, Placing
  <2>8. q.pc \in Reoffering /\ \A l \in Following : todo'[l] = todo[l]
    BY <2>1, <2>6 DEF Reoffering
  <2> QED
    BY <2>1, <2>2, <2>3, <2>6, <2>7, <2>8, TakesUp
<1> QED
  BY <1>4, <1>5, <1>6, <1>7, <1>8 DEF TakeUp

\* A follower starts nothing but the other clearing.
LEMMA FollowerOrderly ==
  ASSUME Typed, Orderly, NEW k \in Following, Due(k),
         UNCHANGED <<row, responses, history, thread, tickets>>,
         \A l \in Leading : todo'[l] = todo[l],
         \/ \A l \in Following : todo'[l] = 0
         \/ /\ k \in Clearing
            /\ \E m \in Clearing : \A l \in Following : todo'[l] = IF l = m THEN 1 ELSE 0
  PROVE  Orderly'
<1>1. OneLeads' /\ OneFollows'
  BY FollowerDone DEF Orderly
<1>2. Hands' /\ RowAgrees'
  BY HandsKept, RowKept DEF Orderly
<1>3. (\E l \in Clearing : Due(l)') => \E l \in Clearing : Due(l)
  BY DEF Due, Following
<1>4. Due(TaskOf("initiateAutoAssignment"))' <=> Due(TaskOf("initiateAutoAssignment"))
  BY TaskNames DEF Due
<1>5. RowFits'
  BY <1>3, <1>4 DEF RowFits, Orderly
<1> QED
  BY <1>1, <1>2, <1>5 DEF Orderly

\* A task or a ticket is dropped.
LEMMA DroppedOrderly ==
  ASSUME Typed, Orderly, UNCHANGED <<row, responses, history, thread>>,
         \/ \E k \in Leading : Take(k) /\ UNCHANGED tickets
         \/ tickets > 0 /\ tickets' = tickets - 1 /\ UNCHANGED todo
  PROVE  Orderly'
<1>1. /\ tickets' \in {0, 1} /\ tickets' <= tickets
      /\ \A k \in Leading : todo'[k] \in {0, 1} /\ todo'[k] <= todo[k]
      /\ \A k \in Following : todo'[k] = todo[k]
  BY TaskNames DEF Take, Typed, TypeOK, Orderly, OneLeads, Following
<1>2. /\ tickets \in {0, 1} /\ \A k \in Leading : todo[k] \in {0, 1}
  BY DEF Orderly, OneLeads
<1>3. /\ \A k \in Leading : Due(k)' => Due(k)
      /\ \A k \in Following : Due(k)' <=> Due(k)
      /\ \A k \in Leading : todo[k] = 0 => todo'[k] = 0
      /\ tickets = 0 => tickets' = 0
      /\ tickets' = 1 => tickets = 1
  BY <1>1, <1>2 DEF Due
<1>4. OneLeads'
  BY <1>1, <1>3 DEF Orderly, OneLeads, Busy
<1>5. OneFollows'
  BY <1>1, <1>3 DEF Orderly, OneFollows, Busy, AllIdle, Running, Following
<1>6. Hands' /\ RowAgrees'
  BY HandsKept, RowKept DEF Orderly
<1>7. RowFits'
  BY <1>3, TaskNames DEF RowFits, Orderly, Following
<1> QED
  BY <1>4, <1>5, <1>6, <1>7 DEF Orderly

\* the handlers that need no thread,
LEMMA DeliverOrderly ==
  ASSUME Typed, Orderly, Deliver
  PROVE  Orderly'
<1>1. CASE DismissPayment
  <2>1. TaskOf("paymentResponded") \in Leading
    BY TaskNames
  <2> QED
    BY <1>1, <2>1, DroppedOrderly DEF DismissPayment, events
<1>2. CASE DropTicket
  BY <1>2, DroppedOrderly DEF DropTicket, TicketReady, events
<1>3. ASSUME NEW name, NEW status, NEW next, UpdateAssignments(name, status, next),
             TaskOf(name) \in Clearing, TaskOf(next) \in Clearing, name # next
      PROVE  Orderly'
  <2>1. TaskOf(name) # TaskOf(next) /\ TaskOf(name) \in Following /\ TaskOf(next) \in Following
        /\ TaskOf(name) \in Task /\ TaskOf(next) \in Task
    BY <1>3, TaskNames DEF Following
  <2>2. /\ Due(TaskOf(name)) /\ UNCHANGED <<row, responses, history, thread, tickets>>
        /\ todo' = [todo EXCEPT ![TaskOf(name)] = @ - 1, ![TaskOf(next)] = @ + 1]
    BY <1>3 DEF UpdateAssignments, Due, events
  <2>3. todo[TaskOf(name)] = 1 /\ \A l \in Following : l # TaskOf(name) => todo[l] = 0
    BY <2>1, <2>2, OthersFollow DEF Orderly
  <2>4. /\ \A l \in Leading : todo'[l] = todo[l]
        /\ \A l \in Following : todo'[l] = IF l = TaskOf(next) THEN 1 ELSE 0
    BY <2>1, <2>2, <2>3, TaskNames DEF Typed, TypeOK, Following
  <2> QED
    BY <1>3, <2>1, <2>2, <2>4, FollowerOrderly
<1>4. CASE CancelAssignments \/ RevokeAssignments
  BY <1>3, <1>4, TaskNames DEF CancelAssignments, RevokeAssignments
<1>5. ASSUME NEW k \in Following, Take(k), UNCHANGED <<row, responses, history, thread, tickets>>
      PROVE  Orderly'
  <2>1. Due(k) /\ k \in Task
    BY <1>5, TaskNames DEF Take, Due, Following
  <2>2. todo[k] = 1 /\ \A l \in Following : l # k => todo[l] = 0
    BY <2>1, OthersFollow DEF Orderly
  <2>3. /\ \A l \in Leading : todo'[l] = todo[l]
        /\ \A l \in Following : todo'[l] = 0
    BY <1>5, <2>2, TaskNames DEF Take, Typed, TypeOK, Following
  <2> QED
    BY <1>5, <2>1, <2>3, FollowerOrderly
<1>6. CASE CancelAppointments
  <2>1. TaskOf("cancelAppointments") \in Following
    BY TaskNames DEF Following
  <2> QED
    BY <1>5, <1>6, <2>1 DEF CancelAppointments, UpdateAppointments, events
<1>7. CASE RevokeAppointments
  <2>1. TaskOf("revokeAppointments") \in Following
    BY TaskNames DEF Following
  <2> QED
    BY <1>5, <1>7, <2>1 DEF RevokeAppointments, UpdateAppointments, events
<1>8. ASSUME NEW w \in ServiceProvider, ReplaceOthers(w)
      PROVE  Orderly'
  <2>1. [name |-> "replaceOthers", worker |-> w] \in Following
    BY DEF Following, ForWorker
  <2> QED
    BY <1>5, <1>8, <2>1 DEF ReplaceOthers, UpdateAppointments, events
<1>9. ASSUME NEW w \in ServiceProvider \cup {NoAgent}, FulfilAppointments(w)
      PROVE  Orderly'
  <2>1. [name |-> "fulfilAppointments", worker |-> w] \in Following
    BY DEF Following, ForWorker
  <2> QED
    BY <1>5, <1>9, <2>1 DEF FulfilAppointments, UpdateAppointments, events
<1> QED
  BY <1>1, <1>2, <1>4, <1>6, <1>7, <1>8, <1>9 DEF Deliver

\* the appointment that comes near, and restarts,
LEMMA RestOrderly ==
  ASSUME Typed, Orderly, TimePasses \/ Crash \/ UNCHANGED vars
  PROVE  Orderly'
<1>1. CASE Crash
  <2>1. UNCHANGED <<row, responses, history>>
    BY <1>1 DEF Crash, events
  <2>2. \A u \in Thread : thread'[u].pc = "idle"
    BY <1>1 DEF Crash, Idle, At
  <2>3. \A k \in Leading \cup Following : ~Due(k)'
    BY <1>1, TaskNames DEF Crash, Due, Following
  <2>4. RowFits'
    BY <2>2, <2>3, TaskNames DEF RowFits, Following
  <2> QED
    BY <1>1, <2>1, <2>2, <2>4, CrashLeads, HandsIdle, RowKept DEF Orderly
<1>2. CASE TimePasses \/ UNCHANGED vars
  <2>1. UNCHANGED <<row, responses, history, thread, todo, tickets>>
    BY <1>2 DEF TimePasses, vars
  <2>2. Hands' /\ RowAgrees'
    BY <2>1, HandsKept, RowKept DEF Orderly
  <2>3. OneLeads'
    BY <2>1 DEF Orderly, OneLeads, Busy, Due
  <2>4. OneFollows'
    BY <2>1 DEF Orderly, OneFollows, Busy, Due, AllIdle, Running
  <2>5. RowFits'
    BY <2>1 DEF Orderly, RowFits, Due
  <2> QED
    BY <2>2, <2>3, <2>4, <2>5 DEF Orderly
<1> QED
  BY <1>1, <1>2

\* and each step of a call.
LEMMA ResumeOrderly ==
  ASSUME Typed, Orderly, PaymentGatewayEnabled, NEW t \in Thread, Resume(t)
  PROVE  Orderly'
BY CompareOrderly, SavesOrderly, StopsOrderly, CallsOrderly DEF Resume

\* Every step keeps the order, where calls are made one by one.
LEMMA OrderlyStep ==
  ASSUME Typed, Orderly, Serial, PaymentGatewayEnabled, [Next]_vars
  PROVE  Orderly'
BY RequestOrderly, ResumeOrderly, TakeUpOrderly, DeliverOrderly, RestOrderly DEF Next, Wait

\* At the start everything is in order.
LEMMA InitOrderly ==
  ASSUME Init, PaymentGatewayEnabled
  PROVE  Orderly
<1>1. \A t \in Thread : thread[t].pc = "idle"
  BY DEF Init, Idle, At
<1>2. \A k \in Leading \cup Following : Due(k) => k = TaskOf("patchCRM")
  BY TaskNames DEF Init, InitialTasks, Due, Following
<1>3. /\ tickets = 0
      /\ \A k \in Leading \cup Following : todo[k] \in {0, 1}
  BY TaskNames DEF Init, InitialTasks, Following
<1>4. \A k \in Following : ~Due(k)
  BY <1>2, TaskNames DEF Following
<1>5. OneLeads
  BY <1>1, <1>2, <1>3 DEF OneLeads, Busy
<1>6. OneFollows
  BY <1>3, <1>4 DEF OneFollows, Following
<1>7. RowFits
  BY <1>1, <1>2, <1>4, TaskNames DEF RowFits, Following
<1>8. Hands
  BY <1>1, IdleHand DEF Hands
<1>9. /\ CreatedService.paymentStatus = "AWAITING_PAYMENT"
      /\ CreatedService.allocationStatus = "UNASSIGNED"
      /\ CreatedService.status = "AWAITING_PAYMENT" /\ CreatedService.dispatcher = NoAgent
  BY ServiceAssumption, NotCancelled
     DEF CreatedService, NewService, CalculateAllocationStatus, CalculateStatus, NoResponse,
         HandlingEventType
<1>10. /\ row.paymentStatus = "AWAITING_PAYMENT" /\ row.allocationStatus = "UNASSIGNED"
       /\ row.status = "AWAITING_PAYMENT" /\ row.dispatcher = NoAgent /\ row.response = 0
  BY <1>9, CreatedServiceType DEF Init, ServiceObject
<1>11. NoAgent \notin Dispatcher
  BY ServiceAssumption DEF Dispatcher, ServiceProvider
<1>12. RowAgrees
  BY <1>10, <1>11 DEF RowAgrees, HasCustomerPaid, Cancelled
<1> QED
  BY <1>5, <1>6, <1>7, <1>8, <1>12 DEF Orderly

------------------------------------------------------------------------------
(* The tables and the payment, step by step *)

\* Which tasks lead, which clear tables, and which are for a worker.
LEMMA TaskNamesApart ==
  /\ \A w \in Appointee : Replacing(w) \in ForWorker /\ Fulfilling(w) \in ForWorker
  /\ ForWorker \subseteq Following /\ Clearing \subseteq Following
  /\ TaskOf("cancelAssignments") \in Clearing /\ TaskOf("cancelAppointments") \in Clearing
  /\ TaskOf("revokeAssignments") \in Clearing /\ TaskOf("revokeAppointments") \in Clearing
  /\ TaskOf("paymentResponded") \in Leading /\ TaskOf("expire") \in Leading
  /\ TaskOf("initiateAutoAssignment") \in Leading
BY TaskNames DEF Replacing, Fulfilling, ForWorker, Following, Appointee

\* The accepted offers agree while neither they nor the dispatcher change,
LEMMA OffersCarried ==
  ASSUME OffersKept, OffersSure' => OffersSure, HalfCleared' => HalfCleared,
         row'.dispatcher = row.dispatcher,
         \A a \in assignments' : a.status = "ACCEPTED" => a \in assignments
  PROVE  OffersKept'
BY DEF OffersKept, OffersAgree, NoneAccepted

\* the appointments while neither they nor the row change,
LEMMA BlockedCarried ==
  ASSUME BlockedKept, BlockedSure' => BlockedSure, UNCHANGED <<row, appointments>>,
         \A t \in Thread : thread'[t].pc \in Placing \cup {"appoint"} => thread'[t].pc = thread[t].pc,
         \A k \in ForWorker : Due(k)' => Due(k)
  PROVE  BlockedKept'
<1>1. Blocked' = Blocked /\ OfRow' = OfRow
  BY DEF Blocked, OfRow
<1>2. BlockedAgree => BlockedAgree'
  BY <1>1 DEF BlockedAgree
<1>3. \A w \in Appointee : Due(Replacing(w))' => ReplacedNext(w)'
  BY <1>1, TaskNamesApart DEF BlockedKept, Appointing, ReplacedNext
<1>4. \A w \in Appointee : Due(Fulfilling(w))' => row'.status = "FULFILLED"
  BY TaskNamesApart DEF BlockedKept, Appointing
<1>5. \A t \in Thread : thread'[t].pc \in Placing => Blocked' = {}
  BY <1>1 DEF BlockedKept, Appointing
<1>6. \A t \in Thread : thread'[t].pc = "appoint" => \A a \in Blocked' : a.worker # row'.worker
  BY <1>1 DEF BlockedKept, Appointing
<1>7. Appointing'
  BY <1>3, <1>4, <1>5, <1>6 DEF Appointing
<1> QED
  BY <1>2, <1>7 DEF BlockedKept

\* and the payment while no response comes and what is paid stays paid.
LEMMA PaymentCarried ==
  ASSUME PaymentKept, PaymentSure' => PaymentSure, Expiring' => Expiring,
         UNCHANGED responses, StaysPaid, Expiring' => row' = row
  PROVE  PaymentKept'
BY DEF PaymentKept, StaysPaid, LastSucceeded

\* A step that touches none of this.
Critical == Placing \cup {"appoint", "lookupPayment", "savePayment", "saveExpire"}
Watched  == Following \cup {TaskOf("paymentResponded"), TaskOf("expire")}

Calm ==
  /\ UNCHANGED <<row, responses, appointments>>
  /\ \A a \in assignments' : a.status = "ACCEPTED" => a \in assignments
  /\ \A k \in Watched : todo'[k] = todo[k]
  /\ \A t \in Thread : thread'[t].pc \in Critical \/ thread[t].pc \in Critical
                         => thread'[t].pc = thread[t].pc

\* Calm steps keep the tables in agreement with the row.
LEMMA CalmAgrees ==
  ASSUME TablesAgree, Calm
  PROVE  TablesAgree'
<1>1. \A k \in Watched : Due(k)' <=> Due(k)
  BY DEF Calm, Due
<1>2. /\ \A t \in Thread : thread'[t].pc \in Placing <=> thread[t].pc \in Placing
      /\ \A t \in Thread : thread'[t].pc = "appoint" <=> thread[t].pc = "appoint"
  BY DEF Calm, Critical, Placing
<1>3. /\ OffersSure' => OffersSure
      /\ HalfCleared' => HalfCleared
  BY <1>1, <1>2, TaskNamesApart DEF OffersSure, HalfCleared, Watched
<1>4. OffersKept'
  BY <1>3, OffersCarried DEF Calm, TablesAgree
<1>5. BlockedSure' => BlockedSure
  BY <1>1, <1>2, TaskNamesApart DEF BlockedSure, Watched
<1>6. \A t \in Thread : thread'[t].pc \in Placing \cup {"appoint"} => thread'[t].pc = thread[t].pc
  BY DEF Calm, Critical
<1>7. BlockedKept'
  BY <1>1, <1>5, <1>6, TaskNamesApart, BlockedCarried DEF Calm, TablesAgree, Watched
<1>8. PaymentSure' => PaymentSure
  BY <1>1 DEF PaymentSure, Watched, Calm, Critical
<1>9. Expiring' => Expiring
  BY <1>1 DEF Expiring, Watched, Calm, Critical
<1>10. PaymentKept'
  BY <1>8, <1>9, PaymentCarried DEF Calm, TablesAgree, StaysPaid
<1> QED
  BY <1>4, <1>7, <1>10 DEF TablesAgree

------------------------------------------------------------------------------
(* A call that has nothing beside it *)

\* Which tables are sure while one call is under way.
LEMMA SoloSure ==
  ASSUME NEW t \in Thread, Solo(t)
  PROVE  /\ thread[t].pc \notin Placing => OffersSure
         /\ thread[t].pc \notin Placing \cup {"appoint"} => BlockedSure
         /\ thread[t].pc \notin {"lookupPayment", "savePayment"} => PaymentSure
         /\ Expiring => thread[t].pc = "saveExpire"
<1>1. \A u \in Thread : u # t => thread[u].pc = "idle"
  BY DEF Solo, Alone, Busy
<1>2. \A k \in Leading \cup Following : ~Due(k)
  BY DEF Solo, Alone, Due
<1>3. thread[t].pc \notin Placing => OffersSure
  BY <1>1, <1>2, TaskNamesApart DEF OffersSure, Placing
<1>4. thread[t].pc \notin Placing \cup {"appoint"} => BlockedSure
  BY <1>1, <1>2, TaskNamesApart DEF BlockedSure, Placing
<1>5. thread[t].pc \notin {"lookupPayment", "savePayment"} => PaymentSure
  BY <1>1, <1>2, TaskNamesApart DEF PaymentSure
<1>6. Expiring => thread[t].pc = "saveExpire"
  BY <1>1, <1>2, TaskNamesApart DEF Expiring
<1> QED
  BY <1>3, <1>4, <1>5, <1>6

\* After its step nobody else is at work, and what is due was published just now.
LEMMA SoloNext ==
  ASSUME NEW t \in Thread, Solo(t), NEW pc, Moved(t, pc), NEW tasks,
         \A k \in Leading \cup Following : todo'[k] = IF k \in tasks THEN todo[k] + 1 ELSE todo[k]
  PROVE  /\ \A u \in Thread : thread'[u].pc \in {pc, "idle"}
         /\ \A k \in Leading \cup Following : Due(k)' <=> k \in tasks
BY DEF Solo, Alone, Busy, Moved, Due

\* A save or an update that publishes nothing.
LEMMA SoloOn ==
  ASSUME NEW t \in Thread, Solo(t), NEW pc, Moved(t, pc), UNCHANGED todo,
         pc \in Placing \/ OffersAgree',
         pc \in Placing \cup {"appoint"} \/ BlockedAgree',
         pc \in Placing => Blocked' = {},
         pc = "appoint" => \A a \in Blocked' : a.worker # row'.worker,
         pc \in {"lookupPayment", "savePayment"} \/ (LastSucceeded' => HasCustomerPaid(row')),
         pc # "saveExpire"
  PROVE  TablesAgree'
<1>1. /\ \A u \in Thread : thread'[u].pc \in {pc, "idle"}
      /\ \A k \in Leading \cup Following : ~Due(k)'
      /\ thread'[t].pc = pc
  BY DEF Moved, Solo, Alone, Busy, Due
<1>2. OffersKept'
  <2>1. pc \in Placing => ~OffersSure'
    BY <1>1 DEF OffersSure
  <2>2. ~HalfCleared'
    BY <1>1, TaskNamesApart DEF HalfCleared
  <2> QED
    BY <2>1, <2>2 DEF OffersKept
<1>3. BlockedKept'
  <2>1. pc \in Placing \cup {"appoint"} => ~BlockedSure'
    BY <1>1 DEF BlockedSure
  <2>2. Appointing'
    BY <1>1, TaskNamesApart DEF Appointing, Placing
  <2> QED
    BY <2>1, <2>2 DEF BlockedKept
<1>4. PaymentKept'
  <2>1. pc \in {"lookupPayment", "savePayment"} => ~PaymentSure'
    BY <1>1 DEF PaymentSure
  <2>2. ~Expiring'
    BY <1>1, TaskNamesApart DEF Expiring
  <2> QED
    BY <2>1, <2>2 DEF PaymentKept
<1> QED
  BY <1>2, <1>3, <1>4 DEF TablesAgree

\* The end of a call that publishes a clearing, and perhaps a new round of offers.
LEMMA SoloClears ==
  ASSUME Typed, NEW t \in Thread, Solo(t), Finish(t), NEW tasks, Publish(tasks),
         NEW k \in {TaskOf("cancelAssignments"), TaskOf("revokeAssignments")},
         tasks \subseteq {k, TaskOf("initiateAutoAssignment")}, k \in tasks,
         LastSucceeded' => HasCustomerPaid(row')
  PROVE  TablesAgree'
<1>1. Moved(t, "idle")
  BY FinishMoves DEF Typed
<1>2. \A l \in Leading \cup Following :
        todo'[l] = IF l \in tasks THEN todo[l] + 1 ELSE todo[l]
  BY TaskNames DEF Publish, Following
<1>3. /\ \A u \in Thread : thread'[u].pc = "idle"
      /\ \A l \in Leading \cup Following : Due(l)' <=> l \in tasks
  BY <1>1, <1>2, SoloNext
<1>4. /\ k \in Clearing
      /\ \A n \in {"cancelAppointments", "revokeAppointments", "paymentResponded", "expire"} :
           TaskOf(n) \notin tasks
      /\ \A w \in Appointee : Replacing(w) \notin tasks /\ Fulfilling(w) \notin tasks
  <2>1. k \in Clearing
    BY TaskNamesApart
  <2>2. \A n \in {"cancelAppointments", "revokeAppointments", "paymentResponded", "expire"} :
          TaskOf(n) # k /\ TaskOf(n) # TaskOf("initiateAutoAssignment")
    BY TaskNames
  <2>3. \A w \in Appointee : /\ Replacing(w) # k /\ Replacing(w) # TaskOf("initiateAutoAssignment")
                             /\ Fulfilling(w) # k /\ Fulfilling(w) # TaskOf("initiateAutoAssignment")
    BY DEF Replacing, Fulfilling, TaskOf
  <2> QED
    BY <2>1, <2>2, <2>3
<1>5. OffersKept'
  <2>1. ~OffersSure'
    BY <1>3, <1>4, TaskNamesApart DEF OffersSure
  <2>2. ~HalfCleared'
    BY <1>3, <1>4, TaskNamesApart DEF HalfCleared
  <2> QED
    BY <2>1, <2>2 DEF OffersKept
<1>6. BlockedKept'
  <2>1. ~BlockedSure'
    BY <1>3, <1>4, TaskNamesApart DEF BlockedSure
  <2>2. Appointing'
    BY <1>3, <1>4, TaskNamesApart DEF Appointing, Placing
  <2> QED
    BY <2>1, <2>2 DEF BlockedKept
<1>7. PaymentKept'
  <2>1. ~Expiring'
    BY <1>3, <1>4, TaskNamesApart DEF Expiring
  <2> QED
    BY <2>1 DEF PaymentKept
<1> QED
  BY <1>5, <1>6, <1>7 DEF TablesAgree

\* A call that goes on outside of the critical parts is calm,
LEMMA MoveCalm ==
  ASSUME NEW t \in Thread, NEW pc, Moved(t, pc), pc \notin Critical, thread[t].pc \notin Critical,
         UNCHANGED <<row, responses, appointments>>,
         \A a \in assignments' : a.status = "ACCEPTED" => a \in assignments,
         \A k \in Watched : todo'[k] = todo[k]
  PROVE  Calm
BY DEF Calm, Moved

\* and so is one that starts there.
LEMMA StartCalm ==
  ASSUME Typed, NEW t \in Thread, NEW pc, NEW p, NEW s, Start(t, pc, p, s), pc \notin Critical,
         UNCHANGED <<row, responses, tables>>, \A k \in Watched : todo'[k] = todo[k]
  PROVE  Calm
<1>1. Moved(t, pc) /\ thread[t].pc = "idle"
  BY MovedBy DEF Start, Running, Typed
<1> QED
  BY <1>1, MoveCalm DEF tables, Critical, Placing

\* The tasks that tables depend on.
LEMMA WatchedType == Watched \subseteq Task /\ TaskOf("initiateAutoAssignment") \notin Watched
                     /\ TaskOf("patchCRM") \notin Watched
<1>1. Watched \subseteq Task
  BY TaskNames, TaskNamesApart DEF Watched, Following
<1>2. TaskOf("initiateAutoAssignment") \notin Watched /\ TaskOf("patchCRM") \notin Watched
  BY TaskNames DEF Watched
<1> QED
  BY <1>1, <1>2

\* Calls of dispatchers, workers and customers start calmly;
LEMMA CalmRequests ==
  ASSUME Typed, NEW t \in Thread,
         \/ \E p \in ServiceProvider : Accept(t, p) \/ ManualAssign(t, p) \/ Cancel(t, p)
         \/ \E dealer \in Dispatcher, w \in Worker : Allocate(t, dealer, w)
         \/ Revoke(t) \/ Fail(t) \/ CancelByCustomer(t) \/ Handle(t)
  PROVE  Calm
<1>1. ASSUME NEW pc \in {"saveAccept", "saveManual", "saveAllocate", "saveCancel", "saveRevoke",
                         "saveCancelByCustomer", "record"},
             NEW p, NEW s, Start(t, pc, p, s), UNCHANGED <<row, responses, tables, todo>>
      PROVE  Calm
  <2>1. pc \notin Critical
    BY DEF Critical, Placing
  <2> QED
    BY <1>1, <2>1, StartCalm
<1>2. ASSUME NEW p \in ServiceProvider, Accept(t, p) \/ ManualAssign(t, p)
      PROVE  Calm
  BY <1>1, <1>2 DEF Accept, ManualAssign, BeginTake, events
<1>3. ASSUME NEW p \in ServiceProvider, Cancel(t, p)
      PROVE  Calm
  BY <1>1, <1>3 DEF Cancel, BeginGiveUp, events
<1>4. ASSUME NEW dealer \in Dispatcher, NEW w \in Worker, Allocate(t, dealer, w)
      PROVE  Calm
  BY <1>1, <1>4 DEF Allocate, events
<1>5. CASE Revoke(t) \/ Fail(t) \/ CancelByCustomer(t)
  BY <1>1, <1>5 DEF Revoke, Fail, CancelByCustomer, BeginGiveUp, events
<1>6. CASE Handle(t)
  BY <1>1, <1>6 DEF Handle, events
<1> QED
  BY <1>2, <1>3, <1>4, <1>5, <1>6

\* these steps of calls are calm,
LEMMA CalmCalls ==
  ASSUME Typed, Orderly, PaymentGatewayEnabled, NEW t \in Thread,
         \/ Compare(t) \/ FailPending(t) \/ Enqueue(t) \/ Offer(t) \/ RefetchPayment(t)
         \/ SavePatch(t) \/ Record(t) \/ LookupHandling(t)
  PROVE  Calm
<1>1. CASE Compare(t)
  <2>1. \A u \in Thread : thread'[u].pc = thread[u].pc
    BY <1>1 DEF Compare, Typed, Threads, Process
  <2>2. UNCHANGED <<row, responses, assignments, appointments, todo>>
    BY <1>1 DEF Compare, events, tables
  <2> QED
    BY <2>1, <2>2 DEF Calm
<1>2. ASSUME NEW pc, Moved(t, pc), pc \notin Critical, thread[t].pc \notin Critical,
             UNCHANGED <<row, responses, appointments, todo>>,
             \A a \in assignments' : a.status = "ACCEPTED" => a \in assignments
      PROVE  Calm
  BY <1>2, MoveCalm
<1>3. "idle" \notin Critical /\ (Finish(t) => Moved(t, "idle"))
  BY FinishMoves DEF Critical, Placing, Typed
<1>4. CASE FailPending(t)
  <2>1. \A a \in assignments' : a.status = "ACCEPTED" => a \in assignments
    <3>1. assignments' = {IF a.status = "PENDING" THEN [a EXCEPT !.status = "FAILED"] ELSE a :
                            a \in assignments}
      BY <1>4 DEF FailPending, WithStatus
    <3>2. \A a \in assignments : [a EXCEPT !.status = "FAILED"].status = "FAILED"
      BY DEF Typed, TypeOK, Assignment
    <3> QED
      BY <3>1, <3>2
  <2>2. thread[t].pc \notin Critical
    BY <1>4 DEF FailPending, Running, Critical, Placing
  <2> QED
    BY <1>2, <1>3, <1>4, <2>1, <2>2 DEF FailPending, events
<1>5. CASE Enqueue(t)
  <2>1. thread[t].pc \notin Critical
    BY <1>5 DEF Enqueue, Running, Critical, Placing
  <2> QED
    BY <1>2, <1>3, <1>5, <2>1 DEF Enqueue, events, tables
<1>6. CASE Offer(t)
  <2>1. \A a \in assignments' : a.status = "ACCEPTED" => a \in assignments
    BY <1>6 DEF Offer
  <2>2. thread[t].pc \notin Critical
    BY <1>6 DEF Offer, Running, Critical, Placing
  <2> QED
    BY <1>2, <1>3, <1>6, <2>1, <2>2 DEF Offer, events
<1>7. CASE RefetchPayment(t)
  <2>1. thread[t].pc \notin Critical
    BY <1>7 DEF RefetchPayment, Running, Critical, Placing
  <2>2. \A k \in Watched : todo'[k] = todo[k]
    BY <1>7, WatchedType DEF RefetchPayment, Publish
  <2> QED
    BY <1>3, <1>7, <2>1, <2>2, MoveCalm DEF RefetchPayment, events, tables
<1>8. CASE SavePatch(t)
  <2>1. InHand(t) /\ Updated(t) /\ thread[t].pc = "savePatch" /\ UNCHANGED <<responses, tables>>
        /\ Finish(t) /\ Publish({})
    BY <1>8, InHandNow DEF SavePatch, SaveAndPublish, Update, Updated, Running, events
  <2>2. row' = row
    BY <2>1, PatchSave
  <2>3. \A k \in Watched : todo'[k] = todo[k]
    BY <2>1, WatchedType DEF Publish
  <2>4. thread[t].pc \notin Critical
    BY <2>1 DEF Critical, Placing
  <2> QED
    BY <1>3, <2>1, <2>2, <2>3, <2>4, MoveCalm DEF tables
<1>9. CASE Record(t) \/ LookupHandling(t)
  <2>1. PICK pc \in {"lookupHandling", "saveHandling"} : \E s : Continue(t, pc, s)
    BY <1>9 DEF Record, LookupHandling, Goto
  <2>2. Moved(t, pc)
    BY <2>1, MovedBy DEF Continue, Typed
  <2>3. thread[t].pc \notin Critical /\ pc \notin Critical
    BY <1>9 DEF Record, LookupHandling, Running, Critical, Placing
  <2>4. UNCHANGED <<row, responses, assignments, appointments, todo>>
    BY <1>9 DEF Record, LookupHandling, events, tables
  <2> QED
    BY <1>2, <2>2, <2>3, <2>4
<1> QED
  BY <1>1, <1>4, <1>5, <1>6, <1>7, <1>8, <1>9

\* and so are these handlers.
LEMMA CalmTasks ==
  ASSUME Typed,
         \/ \E t \in Thread : InitiateAutoAssignment(t) \/ PatchCRM(t) \/ ReadTicket(t)
         \/ DropTicket \/ TimePasses \/ UNCHANGED vars
  PROVE  Calm
<1>1. ASSUME NEW t \in Thread, NEW pc \in {"saveRestart", "savePatch", "offer"},
             NEW p, NEW s, Start(t, pc, p, s), UNCHANGED <<row, responses, tables>>,
             \A k \in Watched : todo'[k] = todo[k]
      PROVE  Calm
  <2>1. pc \notin Critical
    BY DEF Critical, Placing
  <2> QED
    BY <1>1, <2>1, StartCalm
<1>2. ASSUME NEW name \in {"initiateAutoAssignment", "patchCRM"}, Take(TaskOf(name))
      PROVE  \A k \in Watched : todo'[k] = todo[k]
  BY <1>2, WatchedType DEF Take, Typed, TypeOK
<1>3. ASSUME NEW t \in Thread, InitiateAutoAssignment(t)
      PROVE  Calm
  BY <1>1, <1>2, <1>3 DEF InitiateAutoAssignment, events
<1>4. ASSUME NEW t \in Thread, PatchCRM(t)
      PROVE  Calm
  BY <1>1, <1>2, <1>4 DEF PatchCRM, events
<1>5. ASSUME NEW t \in Thread, ReadTicket(t)
      PROVE  Calm
  BY <1>1, <1>5 DEF ReadTicket, events
<1>6. CASE DropTicket \/ TimePasses \/ UNCHANGED vars
  BY <1>6 DEF DropTicket, TimePasses, vars, events, tables, Calm
<1> QED
  BY <1>3, <1>4, <1>5, <1>6

------------------------------------------------------------------------------
(* The payment *)

\* A payment that is answered, corrected or timed out is still to be recognised,
LEMMA PaymentRequests ==
  ASSUME Typed, Orderly, TablesAgree, Serial,
         \/ FindTimedOut
         \/ \E status \in {"FAILED", "SUCCEEDED"} : Pay(status)
         \/ \E i \in DOMAIN responses, status \in {"FAILED", "SUCCEEDED"} : Override(i, status)
  PROVE  TablesAgree'
<1>1. /\ Quiet /\ UNCHANGED <<row, assignments, appointments, thread>>
      /\ \E name \in {"expire", "paymentResponded"} : Publish({TaskOf(name)})
      /\ \/ Publish({TaskOf("paymentResponded")})
         \/ /\ Publish({TaskOf("expire")}) /\ UNCHANGED responses
            /\ row.status = "AWAITING_PAYMENT"
  BY DEF FindTimedOut, Pay, Override, Request, tables, events
<1>2. PICK name \in {"expire", "paymentResponded"} : Publish({TaskOf(name)})
  BY <1>1
<1>3. /\ \A t \in Thread : thread[t].pc = "idle" /\ thread'[t].pc = "idle"
      /\ \A k \in Task : todo[k] = 0
  BY <1>1 DEF Quiet, AllIdle, Running, NothingTodo
<1>4. \A k \in Leading \cup Following : ~Due(k) /\ (Due(k)' <=> k = TaskOf(name))
  BY <1>2, <1>3, TaskNames DEF Publish, Due, Following
<1>5. \A k \in Following : ~Due(k)'
  BY <1>4, TaskNames
<1>6. OffersSure /\ BlockedSure /\ PaymentSure
  BY <1>3, <1>4, TaskNamesApart DEF OffersSure, BlockedSure, PaymentSure, Placing
<1>7. ~HalfCleared'
  BY <1>5, TaskNamesApart DEF HalfCleared
<1>8. OffersKept'
  BY <1>1, <1>6, <1>7, OffersCarried DEF TablesAgree
<1>9. \A k \in ForWorker : ~Due(k)'
  BY <1>5, TaskNamesApart
<1>10. BlockedKept'
  BY <1>1, <1>3, <1>6, <1>9, BlockedCarried DEF TablesAgree, Placing
<1>11. CASE Publish({TaskOf("paymentResponded")})
  <2>1. \A k \in Leading : Due(k)' <=> k = TaskOf("paymentResponded")
    BY <1>3, <1>11, TaskNames DEF Publish, Due, Following
  <2>2. ~PaymentSure' /\ ~Expiring'
    BY <1>3, <2>1, TaskNames, TaskNamesApart DEF PaymentSure, Expiring
  <2>3. PaymentKept'
    BY <2>2 DEF PaymentKept
  <2> QED
    BY <1>8, <1>10, <2>3 DEF TablesAgree
<1>12. CASE UNCHANGED responses /\ row.status = "AWAITING_PAYMENT"
  <2>1. ~HasCustomerPaid(row)
    BY <1>12 DEF Orderly, RowAgrees
  <2>2. ~LastSucceeded
    BY <1>6, <2>1 DEF TablesAgree, PaymentKept
  <2>3. ~LastSucceeded' /\ ~HasCustomerPaid(row')
    BY <1>1, <1>12, <2>1, <2>2 DEF LastSucceeded
  <2>4. PaymentKept'
    BY <2>3 DEF PaymentKept
  <2> QED
    BY <1>8, <1>10, <2>4 DEF TablesAgree
<1> QED
  BY <1>1, <1>11, <1>12

\* until the handler of the answer takes it up.
LEMMA PaymentTasks ==
  ASSUME Typed, Orderly, Orderly', TablesAgree,
         \/ DismissPayment
         \/ \E t \in Thread : PaymentResponded(t) \/ Expire(t)
  PROVE  TablesAgree'
<1>1. ASSUME NEW name \in {"paymentResponded", "expire"}, Take(TaskOf(name))
      PROVE  /\ Due(TaskOf(name))
             /\ \A k \in Following : todo'[k] = todo[k]
             /\ \A k \in Task : Due(k)' => Due(k)
  <2>1. TaskOf(name) \in Leading /\ TaskOf(name) \in Task
    BY TaskNames
  <2>2. \A k \in Following : k # TaskOf(name) /\ k \in Task
    BY <2>1, TaskNames DEF Following
  <2>3. \A k \in Task : todo[k] \in Nat
    BY DEF Typed, TypeOK
  <2> QED
    BY <1>1, <2>1, <2>2, <2>3 DEF Take, Due, Typed, TypeOK
<1>2. ASSUME NEW name \in {"paymentResponded", "expire"}, Take(TaskOf(name)),
             UNCHANGED <<row, assignments, appointments>>,
             \A t \in Thread : thread'[t].pc \in Placing \cup {"appoint"}
                               \/ thread[t].pc \in Placing \cup {"appoint"}
                                 => thread'[t].pc = thread[t].pc
      PROVE  OffersKept' /\ BlockedKept'
  <2>1. \A k \in Following : Due(k)' <=> Due(k)
    BY <1>1, <1>2 DEF Due
  <2>2. (OffersSure' => OffersSure) /\ (HalfCleared' => HalfCleared)
    BY <1>2, <2>1, TaskNamesApart DEF OffersSure, HalfCleared, Placing
  <2>3. BlockedSure' => BlockedSure
    BY <1>2, <2>1, TaskNamesApart DEF BlockedSure, Placing
  <2>4. OffersKept'
    BY <1>2, <2>2, OffersCarried DEF TablesAgree
  <2>5. \A k \in ForWorker : Due(k)' => Due(k)
    BY <2>1, TaskNamesApart
  <2> QED
    BY <1>2, <2>3, <2>4, <2>5, BlockedCarried DEF TablesAgree
<1>3. CASE DismissPayment
  <2>1. /\ HasCustomerPaid(row) /\ Take(TaskOf("paymentResponded"))
        /\ UNCHANGED <<row, responses, assignments, appointments, thread>>
    BY <1>3 DEF DismissPayment, events, tables
  <2>2. OffersKept' /\ BlockedKept'
    BY <1>2, <2>1
  <2>3. Expiring' => Expiring
    <3>1. Due(TaskOf("expire"))' => Due(TaskOf("expire"))
      BY <1>1, <2>1, TaskNames, TaskNamesApart
    <3> QED
      BY <2>1, <3>1 DEF Expiring
  <2>4. PaymentKept'
    BY <2>1, <2>3 DEF TablesAgree, PaymentKept
  <2> QED
    BY <2>2, <2>4 DEF TablesAgree
<1>4. ASSUME NEW t \in Thread, NEW pc \in {"lookupPayment", "saveExpire"}, NEW s,
             Start(t, pc, NoAgent, s)
      PROVE  /\ \A u \in Thread : thread'[u].pc \in Placing \cup {"appoint"}
                                  \/ thread[u].pc \in Placing \cup {"appoint"}
                                    => thread'[u].pc = thread[u].pc
             /\ thread'[t].pc = pc
  <2>1. Moved(t, pc) /\ thread[t].pc = "idle"
    BY <1>4, MovedBy DEF Start, Running, Typed
  <2> QED
    BY <2>1 DEF Moved, Placing
<1>5. ASSUME NEW t \in Thread, PaymentResponded(t)
      PROVE  TablesAgree'
  <2>1. /\ Take(TaskOf("paymentResponded")) /\ Start(t, "lookupPayment", NoAgent, Loaded)
        /\ UNCHANGED <<row, assignments, appointments>>
    BY <1>5 DEF PaymentResponded, tables
  <2>2. thread'[t].pc = "lookupPayment"
    BY <1>4, <2>1
  <2>3. ~PaymentSure'
    BY <2>2 DEF PaymentSure
  <2>4. /\ \A k \in Leading : todo'[k] = 0
        /\ \A u \in Thread : thread'[u].pc # "idle" => u = t
    BY <2>2 DEF Orderly, OneLeads, Busy
  <2>5. ~Expiring'
    BY <2>2, <2>4, TaskNamesApart DEF Expiring, Due
  <2>6. OffersKept' /\ BlockedKept'
    BY <1>2, <1>4, <2>1
  <2> QED
    BY <2>3, <2>5, <2>6 DEF TablesAgree, PaymentKept
<1>6. ASSUME NEW t \in Thread, Expire(t)
      PROVE  TablesAgree'
  <2>1. /\ Take(TaskOf("expire")) /\ UNCHANGED <<row, responses, assignments, appointments>>
        /\ \E s : Start(t, "saveExpire", NoAgent, s)
    BY <1>6 DEF Expire, tables, events
  <2>2. Expiring
    BY <1>1, <2>1 DEF Expiring
  <2>3. ~LastSucceeded /\ ~HasCustomerPaid(row)
    BY <2>2 DEF TablesAgree, PaymentKept
  <2>4. PaymentKept'
    BY <2>1, <2>3 DEF PaymentKept, LastSucceeded
  <2>5. OffersKept' /\ BlockedKept'
    BY <1>2, <1>4, <2>1
  <2> QED
    BY <2>4, <2>5 DEF TablesAgree
<1> QED
  BY <1>3, <1>5, <1>6

\* What a call that has nothing beside it finds.
LEMMA SoloFinds ==
  ASSUME Typed, Orderly, TablesAgree, NEW t \in Thread, Busy(t), thread[t].pc \notin Reoffering
  PROVE  /\ Solo(t)
         /\ thread[t].pc \notin Placing => OffersAgree
         /\ thread[t].pc \notin Placing \cup {"appoint"} => BlockedAgree
         /\ thread[t].pc \in Placing => Blocked = {}
         /\ thread[t].pc = "appoint" => \A a \in Blocked : a.worker # row.worker
         /\ thread[t].pc \notin {"lookupPayment", "savePayment"}
              => (LastSucceeded => HasCustomerPaid(row))
         /\ thread[t].pc = "saveExpire" => ~LastSucceeded /\ ~HasCustomerPaid(row)
<1>1. Solo(t)
  BY BusySolo DEF Orderly
<1>2. thread[t].pc = "saveExpire" => Expiring
  BY DEF Expiring
<1>3. /\ thread[t].pc \notin Placing => OffersAgree
      /\ thread[t].pc \notin Placing \cup {"appoint"} => BlockedAgree
      /\ thread[t].pc \notin {"lookupPayment", "savePayment"}
           => (LastSucceeded => HasCustomerPaid(row))
      /\ thread[t].pc = "saveExpire" => ~LastSucceeded /\ ~HasCustomerPaid(row)
  BY <1>1, <1>2, SoloSure DEF TablesAgree, OffersKept, BlockedKept, PaymentKept
<1> QED
  BY <1>1, <1>3 DEF TablesAgree, BlockedKept, Appointing

\* A job that is with nobody blocks no calendar and has no accepted offer.
LEMMA NobodysJob ==
  ASSUME Typed, RowAgrees, row.allocationStatus = "UNASSIGNED"
  PROVE  /\ BlockedAgree <=> Blocked = {}
         /\ OffersAgree <=> NoneAccepted
<1>1. row.dispatcher \notin Dispatcher
  BY DEF RowAgrees
<1>2. \A a \in assignments : a.provider \in Dispatcher
  BY DEF Typed, TypeOK, Assignment
<1> QED
  BY <1>1, <1>2 DEF BlockedAgree, OffersAgree, NoneAccepted

\* SaveThen, seen from the tables.
LEMMA SaveThenFacts ==
  ASSUME Typed, Orderly, TablesAgree, PaymentGatewayEnabled, NEW t \in Thread,
         NEW pc \in Saving \ {"saveRestart"}, NEW next, SaveThen(t, pc, next)
  PROVE  /\ thread[t].pc = pc /\ InHand(t) /\ Updated(t) /\ Solo(t) /\ Moved(t, next)
         /\ OffersAgree /\ BlockedAgree
         /\ pc # "savePayment" => (LastSucceeded => HasCustomerPaid(row))
         /\ pc = "saveExpire" => ~LastSucceeded /\ ~HasCustomerPaid(row)
         /\ UNCHANGED <<todo, responses, assignments, appointments>> /\ Blocked' = Blocked
         /\ LastSucceeded' <=> LastSucceeded
<1>1. thread[t].pc = pc /\ Updated(t) /\ UNCHANGED <<todo, responses, assignments, appointments>>
  BY DEF SaveThen, Update, Updated, Running, events, tables
<1>2. InHand(t)
  BY <1>1, InHandNow
<1>3. Moved(t, next)
  BY MovedBy DEF SaveThen, Goto, Continue, Typed
<1>4. Busy(t) /\ thread[t].pc \notin Reoffering /\ thread[t].pc \notin Placing \cup {"appoint"}
      /\ pc # "lookupPayment"
  BY <1>1 DEF Busy, Saving, Reoffering, Placing
<1>5. /\ Solo(t) /\ OffersAgree /\ BlockedAgree
      /\ pc # "savePayment" => (LastSucceeded => HasCustomerPaid(row))
      /\ pc = "saveExpire" => ~LastSucceeded /\ ~HasCustomerPaid(row)
  BY <1>1, <1>4, SoloFinds
<1>6. Blocked' = Blocked /\ (LastSucceeded' <=> LastSucceeded)
  BY <1>1 DEF Blocked, LastSucceeded
<1> QED
  BY <1>1, <1>2, <1>3, <1>5, <1>6

\* When an offer is accepted, the tables are to follow.
LEMMA TakeSettles ==
  ASSUME Typed, Orderly, TablesAgree, PaymentGatewayEnabled, NEW t \in Thread,
         SaveAccept(t) \/ SaveManual(t)
  PROVE  TablesAgree'
<1>1. PICK pc \in {"saveAccept", "saveManual"}, next \in {"acceptMine", "insertManual"} :
        SaveThen(t, pc, next)
  BY DEF SaveAccept, SaveManual
<1>2. pc \in Saving \ {"saveRestart"} /\ pc # "savePayment" /\ next \in Placing
      /\ next # "appoint" /\ next # "saveExpire"
  BY DEF Saving, Placing
<1>3. /\ thread[t].pc = pc /\ InHand(t) /\ Updated(t) /\ Solo(t) /\ Moved(t, next)
      /\ BlockedAgree /\ (LastSucceeded => HasCustomerPaid(row))
      /\ UNCHANGED todo /\ Blocked' = Blocked /\ (LastSucceeded' <=> LastSucceeded)
  BY <1>1, <1>2, SaveThenFacts
<1>4. CanAssignToDispatcher(Loaded, thread[t].agent)
  BY <1>3 DEF InHand, Fresh
<1>5. row.allocationStatus = "UNASSIGNED" \/ row.status = "FAILED"
  BY <1>4, LoadedIs DEF CanAssignToDispatcher, HasBeenAssignedOrAllocated, HasBeenCancelled,
                        Orderly, RowAgrees
<1>6. Blocked = {}
  BY <1>3, <1>5 DEF BlockedAgree
<1>7. StaysPaid
  BY <1>3, TakeSave
<1> QED
  BY <1>2, <1>3, <1>6, <1>7, SoloOn DEF StaysPaid

\* When a worker is allocated, his appointment is to follow.
LEMMA AllocateSettles ==
  ASSUME Typed, Orderly, TablesAgree, PaymentGatewayEnabled, NEW t \in Thread, SaveAllocate(t)
  PROVE  TablesAgree'
<1>1. SaveThen(t, "saveAllocate", "appoint") /\ "saveAllocate" \in Saving \ {"saveRestart"}
  BY DEF SaveAllocate, Saving
<1>2. /\ thread[t].pc = "saveAllocate" /\ InHand(t) /\ Updated(t) /\ Solo(t) /\ Moved(t, "appoint")
      /\ OffersAgree /\ BlockedAgree /\ (LastSucceeded => HasCustomerPaid(row))
      /\ UNCHANGED <<todo, assignments>> /\ Blocked' = Blocked /\ (LastSucceeded' <=> LastSucceeded)
  BY <1>1, SaveThenFacts
<1>3. StaysPaid /\ row'.dispatcher = row.dispatcher /\ row'.worker # row.worker
  BY <1>2, AllocateSave
<1>4. \A a \in Blocked' : a.worker # row'.worker
  BY <1>2, <1>3 DEF BlockedAgree, OfRow
<1>5. OffersAgree'
  BY <1>2, <1>3 DEF OffersAgree
<1> QED
  BY <1>2, <1>3, <1>4, <1>5, SoloOn DEF StaysPaid, Placing

\* When an unpaid request expires the tables stay right.
LEMMA ExpireSettles ==
  ASSUME Typed, Typed', Orderly, TablesAgree, PaymentGatewayEnabled, NEW t \in Thread, SaveExpire(t)
  PROVE  TablesAgree'
<1>1. SaveThen(t, "saveExpire", "failPending") /\ "saveExpire" \in Saving \ {"saveRestart"}
  BY DEF SaveExpire, Saving
<1>2. /\ thread[t].pc = "saveExpire" /\ InHand(t) /\ Updated(t) /\ Solo(t) /\ Moved(t, "failPending")
      /\ OffersAgree /\ BlockedAgree /\ ~LastSucceeded /\ ~HasCustomerPaid(row)
      /\ UNCHANGED <<todo, assignments>> /\ Blocked' = Blocked /\ (LastSucceeded' <=> LastSucceeded)
  BY <1>1, SaveThenFacts
<1>3. row.allocationStatus = "UNASSIGNED"
  BY <1>2 DEF Orderly, RowAgrees
<1>4. Blocked = {} /\ NoneAccepted
  BY <1>2, <1>3, NobodysJob DEF Orderly
<1>5. row'.allocationStatus = "UNASSIGNED"
  BY <1>2, ExpireSave
<1>6. BlockedAgree' /\ OffersAgree'
  BY <1>2, <1>4, <1>5 DEF BlockedAgree, OffersAgree, NoneAccepted
<1> QED
  BY <1>2, <1>4, <1>6, SoloOn DEF Placing

\* A payment that is saved is recognised.
LEMMA PaymentSettles ==
  ASSUME Typed, Orderly, TablesAgree, PaymentGatewayEnabled, NEW t \in Thread, SavePayment(t)
  PROVE  TablesAgree'
<1>1. SaveThen(t, "savePayment", "refetchPayment") /\ "savePayment" \in Saving \ {"saveRestart"}
  BY DEF SavePayment, Saving
<1>2. /\ thread[t].pc = "savePayment" /\ InHand(t) /\ Updated(t) /\ Solo(t)
      /\ Moved(t, "refetchPayment") /\ OffersAgree /\ BlockedAgree
      /\ UNCHANGED <<todo, assignments>> /\ Blocked' = Blocked /\ (LastSucceeded' <=> LastSucceeded)
  BY <1>1, SaveThenFacts
<1>3. /\ row.allocationStatus = "UNASSIGNED" /\ row'.allocationStatus = "UNASSIGNED"
      /\ row'.dispatcher = row.dispatcher /\ (LastSucceeded => HasCustomerPaid(row'))
  BY <1>2, PaymentSave
<1>4. BlockedAgree' /\ OffersAgree'
  BY <1>2, <1>3 DEF BlockedAgree, OffersAgree
<1> QED
  BY <1>2, <1>3, <1>4, SoloOn DEF Placing

\* A handling event changes no table.
LEMMA HandlingSettles ==
  ASSUME Typed, Orderly, TablesAgree, PaymentGatewayEnabled, NEW t \in Thread, SaveHandling(t)
  PROVE  TablesAgree'
<1>1. SaveThen(t, "saveHandling", "refetchHandling") /\ "saveHandling" \in Saving \ {"saveRestart"}
  BY DEF SaveHandling, Saving
<1>2. /\ thread[t].pc = "saveHandling" /\ InHand(t) /\ Updated(t) /\ Solo(t)
      /\ Moved(t, "refetchHandling") /\ OffersAgree /\ BlockedAgree
      /\ (LastSucceeded => HasCustomerPaid(row))
      /\ UNCHANGED <<todo, assignments>> /\ Blocked' = Blocked /\ (LastSucceeded' <=> LastSucceeded)
  BY <1>1, SaveThenFacts
<1>3. /\ StaysPaid /\ row'.allocationStatus = row.allocationStatus
      /\ row'.dispatcher = row.dispatcher /\ row'.worker = row.worker /\ row'.status # "FAILED"
      /\ row.status = "FAILED" => row'.status = "FULFILLED"
      /\ row.status # "FULFILLED"
  BY <1>2, HandlingSave
<1>4. OfRow' = OfRow
  BY <1>3 DEF OfRow
<1>5. BlockedAgree'
  BY <1>2, <1>3, <1>4 DEF BlockedAgree
<1>6. OffersAgree'
  BY <1>2, <1>3 DEF OffersAgree
<1> QED
  BY <1>2, <1>3, <1>5, <1>6, SoloOn DEF Placing, StaysPaid

\* The tables stay right when the search begins anew.
LEMMA RestartSettles ==
  ASSUME Typed, Orderly, TablesAgree, PaymentGatewayEnabled, NEW t \in Thread, SaveRestart(t)
  PROVE  TablesAgree'
<1>1. /\ thread[t].pc = "saveRestart" /\ Updated(t)
      /\ UNCHANGED <<todo, responses, assignments, appointments>>
  BY DEF SaveRestart, SaveThen, Update, Updated, Running, events, tables
<1>2. Moved(t, "enqueue")
  BY MovedBy DEF SaveRestart, SaveThen, Goto, Continue, Typed
<1>3. InHand(t)
  BY <1>1, InHandNow
<1>4. row.allocationStatus = "UNASSIGNED"
  BY <1>1 DEF Orderly, RowFits
<1>5. StaysPaid /\ row'.allocationStatus = "UNASSIGNED" /\ row'.dispatcher = row.dispatcher
  BY <1>1, <1>3, <1>4, RestartSave
<1>6. Alone(t) /\ \A k \in ForWorker : ~Due(k)
  BY <1>1, BusyAlone DEF Busy, Orderly
<1>7. \A u \in Thread : /\ thread[u].pc \in {"idle", "saveRestart"}
                        /\ thread'[u].pc \in {"idle", "enqueue"}
  BY <1>1, <1>2, <1>6 DEF Alone, Busy, Moved
<1>8. \A k : Due(k)' <=> Due(k)
  BY <1>1 DEF Due
<1>9. OffersKept'
  <2>1. OffersSure' => OffersSure
    BY <1>7, <1>8 DEF OffersSure, Placing
  <2>2. HalfCleared' => HalfCleared
    BY <1>8 DEF HalfCleared
  <2> QED
    BY <1>1, <1>5, <2>1, <2>2, OffersCarried DEF TablesAgree
<1>10. BlockedKept'
  <2>1. BlockedSure' => BlockedSure
    BY <1>7, <1>8 DEF BlockedSure, Placing
  <2>2. BlockedSure => Blocked = {}
    BY <1>4, NobodysJob DEF TablesAgree, BlockedKept, Orderly
  <2>3. Blocked' = Blocked
    BY <1>1 DEF Blocked
  <2>4. BlockedSure' => BlockedAgree'
    BY <1>5, <2>1, <2>2, <2>3 DEF BlockedAgree
  <2>5. Appointing'
    BY <1>6, <1>7, <1>8, TaskNamesApart DEF Appointing, Placing
  <2> QED
    BY <2>4, <2>5 DEF BlockedKept
<1>11. PaymentKept'
  <2>1. PaymentSure
    BY <1>6, <1>7, TaskNamesApart DEF PaymentSure, Alone, Due
  <2>2. ~Expiring'
    BY <1>6, <1>7, <1>8, TaskNamesApart DEF Expiring, Alone, Due
  <2>3. LastSucceeded' <=> LastSucceeded
    BY <1>1 DEF LastSucceeded
  <2> QED
    BY <1>5, <2>1, <2>2, <2>3 DEF TablesAgree, PaymentKept, StaysPaid
<1> QED
  BY <1>9, <1>10, <1>11 DEF TablesAgree

\* Who gives a job up has the tables cleared.
LEMMA GiveUpSettles ==
  ASSUME Typed, Orderly, TablesAgree, PaymentGatewayEnabled, NEW t \in Thread,
         SaveCancel(t) \/ SaveRevoke(t) \/ SaveCancelByCustomer(t)
  PROVE  TablesAgree'
<1> DEFINE again == TaskOf("initiateAutoAssignment")
<1>1. ASSUME NEW pc \in {"saveCancel", "saveRevoke", "saveCancelByCustomer"}, NEW tasks,
             SaveAndPublish(t, pc, tasks),
             NEW k \in {TaskOf("cancelAssignments"), TaskOf("revokeAssignments")},
             tasks \subseteq {k, again}, k \in tasks
      PROVE  TablesAgree'
  <2>1. /\ thread[t].pc = pc /\ Updated(t) /\ UNCHANGED responses /\ Finish(t) /\ Publish(tasks)
    BY <1>1 DEF SaveAndPublish, Update, Updated, Running, events
  <2>2. InHand(t)
    BY <2>1, InHandNow
  <2>3. Busy(t) /\ thread[t].pc \notin Reoffering
        /\ thread[t].pc \notin {"lookupPayment", "savePayment"} /\ thread[t].pc \in Saving
    BY <2>1 DEF Busy, Reoffering, Saving
  <2>4. Solo(t) /\ (LastSucceeded => HasCustomerPaid(row))
    BY <2>3, SoloFinds
  <2>5. StaysPaid
    <3>1. CASE pc = "saveRevoke"
      BY <2>1, <2>2, <3>1, RevokeSave
    <3>2. CASE pc = "saveCancel"
      <4>1. thread[t].service = ProviderTerminated(Loaded, "CANCELLED_BY_SERVICE_PROVIDER")
        BY <2>1, <2>2, <3>2 DEF InHand, Fresh
      <4> QED
        BY <2>1, <2>2, <2>3, <4>1, TerminatedSave DEF Cancelled
    <3>3. CASE pc = "saveCancelByCustomer"
      <4>1. thread[t].service = ProviderTerminated(LoadedByGet, "CANCELLED_BY_CUSTOMER")
        BY <2>1, <2>2, <3>3 DEF InHand, Fresh
      <4> QED
        BY <2>1, <2>2, <2>3, <4>1, TerminatedSave DEF Cancelled
    <3> QED
      BY <3>1, <3>2, <3>3
  <2>6. LastSucceeded' => HasCustomerPaid(row')
    BY <2>1, <2>4, <2>5 DEF StaysPaid, LastSucceeded
  <2> QED
    BY <1>1, <2>1, <2>4, <2>6, SoloClears
<1>2. CASE SaveCancel(t)
  BY <1>1, <1>2 DEF SaveCancel
<1>3. CASE SaveCancelByCustomer(t)
  BY <1>1, <1>3 DEF SaveCancelByCustomer
<1>4. CASE SaveRevoke(t)
  <2> DEFINE tasks == {TaskOf("revokeAssignments")} \cup
                      (IF thread[t].service.status = "FAILED" THEN {} ELSE {again})
  <2>1. SaveAndPublish(t, "saveRevoke", tasks)
    BY <1>4 DEF SaveRevoke
  <2>2. tasks \subseteq {TaskOf("revokeAssignments"), again} /\ TaskOf("revokeAssignments") \in tasks
    OBVIOUS
  <2> HIDE DEF tasks
  <2> QED
    BY <1>1, <2>1, <2>2
<1> QED
  BY <1>2, <1>3, <1>4

\* The updates of the two tables after a job was taken.
LEMMA PlacingSettles ==
  ASSUME Typed, Orderly, TablesAgree, PaymentGatewayEnabled, NEW t \in Thread,
         InsertManual(t) \/ AcceptMine(t) \/ FailOthers(t) \/ LookupPayment(t)
  PROVE  TablesAgree'
<1>1. /\ UNCHANGED <<row, responses, appointments, todo>>
      /\ thread[t].pc \in Placing \cup {"lookupPayment"}
  BY DEF InsertManual, AcceptMine, FailOthers, LookupPayment, events, tables, Running, Placing
<1>2. Busy(t) /\ thread[t].pc \notin Reoffering
  BY <1>1 DEF Busy, Placing, Reoffering
<1>3. /\ Solo(t)
      /\ thread[t].pc \notin Placing => OffersAgree /\ BlockedAgree
      /\ thread[t].pc \in Placing =>
           Blocked = {} /\ (LastSucceeded => HasCustomerPaid(row))
  BY <1>1, <1>2, SoloFinds DEF Placing
<1>4. Blocked' = Blocked /\ (LastSucceeded' <=> LastSucceeded) /\ OfRow' = OfRow
  BY <1>1 DEF Blocked, LastSucceeded, OfRow
<1>5. CASE InsertManual(t) \/ AcceptMine(t)
  <2>1. PICK next \in {"acceptMine", "failOthers"} : Goto(t, next)
    BY <1>5 DEF InsertManual, AcceptMine
  <2>2. Moved(t, next) /\ thread[t].pc \in Placing
    BY <1>5, <2>1, MovedBy DEF Goto, Continue, Typed, InsertManual, AcceptMine, Running, Placing
  <2> QED
    BY <1>1, <1>3, <1>4, <2>2, SoloOn DEF Placing
<1>6. CASE LookupPayment(t)
  <2>1. Moved(t, "savePayment") /\ thread[t].pc = "lookupPayment" /\ UNCHANGED assignments
    BY <1>6, MovedBy DEF LookupPayment, Continue, Typed, Running, tables
  <2>2. thread[t].pc \notin Placing
    BY <2>1 DEF Placing
  <2>3. OffersAgree' /\ BlockedAgree'
    BY <1>1, <1>3, <1>4, <2>1, <2>2 DEF OffersAgree, BlockedAgree
  <2> QED
    BY <1>1, <1>3, <2>1, <2>3, SoloOn DEF Placing
<1>7. CASE FailOthers(t)
  <2>1. PICK p \in Process : p = thread[t] /\ Placed(p)
    BY InHandNow
  <2>2. p.pc = "failOthers" /\ p.pc \in Placing
    BY <1>7, <2>1 DEF FailOthers, Running, Placing
  <2>3. /\ row.dispatcher = p.agent
        /\ p.service.worker # p.agent => row.allocationStatus = "ASSIGNED"
    BY <2>1, <2>2 DEF Placed
  <2>4. assignments' = {IF a.provider # p.agent THEN [a EXCEPT !.status = "FAILED"] ELSE a :
                          a \in assignments}
    BY <1>7, <2>1 DEF FailOthers, WithStatus
  <2>5. \A a \in assignments : [a EXCEPT !.status = "FAILED"].status = "FAILED"
    BY DEF Typed, TypeOK, Assignment
  <2>6. \A a \in assignments' : a.status = "ACCEPTED" => a.provider = p.agent
    BY <2>4, <2>5
  <2>7. OffersAgree'
    BY <1>1, <2>3, <2>6 DEF OffersAgree
  <2>8. CASE p.service.worker = p.agent
    <3>1. Goto(t, "appoint")
      BY <1>7, <2>1, <2>8 DEF FailOthers
    <3>2. Moved(t, "appoint")
      BY <3>1, MovedBy DEF Goto, Continue, Typed
    <3> QED
      BY <1>1, <1>3, <1>4, <2>1, <2>2, <2>7, <3>2, SoloOn DEF Placing
  <2>9. CASE p.service.worker # p.agent
    <3>1. Finish(t)
      BY <1>7, <2>1, <2>9 DEF FailOthers
    <3>2. Moved(t, "idle")
      BY <3>1, FinishMoves DEF Typed
    <3>3. BlockedAgree'
      BY <1>1, <1>3, <1>4, <2>1, <2>2, <2>3, <2>9 DEF BlockedAgree
    <3> QED
      BY <1>1, <1>3, <1>4, <2>1, <2>2, <2>7, <3>2, <3>3, SoloOn DEF Placing
  <2> QED
    BY <2>8, <2>9
<1> QED
  BY <1>5, <1>6, <1>7

\* A call that ends with a task for the worker, or without.
LEMMA ForWorkerSettles ==
  ASSUME Typed, Orderly, TablesAgree, PaymentGatewayEnabled, NEW t \in Thread,
         Appoint(t) \/ RefetchHandling(t)
  PROVE  TablesAgree'
<1>1. /\ UNCHANGED <<row, responses, assignments>> /\ Finish(t)
      /\ thread[t].pc \in {"appoint", "refetchHandling"}
  BY DEF Appoint, RefetchHandling, events, tables, Running
<1>2. /\ Busy(t) /\ thread[t].pc \notin Reoffering /\ thread[t].pc \notin Placing
      /\ thread[t].pc \notin {"lookupPayment", "savePayment"}
  BY <1>1 DEF Busy, Placing, Reoffering
<1>3. /\ Solo(t) /\ OffersAgree /\ (LastSucceeded => HasCustomerPaid(row))
      /\ thread[t].pc # "appoint" => BlockedAgree
      /\ thread[t].pc = "appoint" => \A a \in Blocked : a.worker # row.worker
  BY <1>2, SoloFinds
<1>4. Moved(t, "idle")
  BY <1>1, FinishMoves DEF Typed
<1>5. OfRow' = OfRow /\ (LastSucceeded' <=> LastSucceeded) /\ OffersAgree'
  BY <1>1, <1>3 DEF OfRow, LastSucceeded, OffersAgree
<1>6. ASSUME NEW tasks, Publish(tasks), tasks \cap Clearing = {}, tasks \cap Leading = {}
      PROVE  /\ OffersKept' /\ PaymentKept'
             /\ \A u \in Thread : thread'[u].pc = "idle"
             /\ \A k \in ForWorker : Due(k)' <=> k \in tasks
             /\ \A k \in Clearing : ~Due(k)'
  <2>1. \A k \in Leading \cup Following :
          todo'[k] = IF k \in tasks THEN todo[k] + 1 ELSE todo[k]
    BY <1>6, TaskNames DEF Publish, Following
  <2>2. /\ \A u \in Thread : thread'[u].pc = "idle"
        /\ \A k \in Leading \cup Following : Due(k)' <=> k \in tasks
    BY <1>3, <1>4, <2>1, SoloNext
  <2>3. \A k \in Leading \cup Clearing : ~Due(k)'
    BY <1>6, <2>2 DEF Following
  <2>4. ~HalfCleared'
    BY <2>3, TaskNamesApart DEF HalfCleared
  <2>5. ~Expiring'
    BY <2>2, <2>3, TaskNamesApart DEF Expiring
  <2>6. OffersKept'
    BY <1>5, <2>4 DEF OffersKept
  <2>7. PaymentKept'
    BY <1>1, <1>3, <1>5, <2>5 DEF PaymentKept
  <2> QED
    BY <2>2, <2>3, <2>6, <2>7 DEF Following
<1>7. CASE Appoint(t)
  <2>1. PICK p \in Process : p = thread[t] /\ Placed(p)
    BY InHandNow
  <2>2. p.pc = "appoint"
    BY <1>7, <2>1 DEF Appoint, Running
  <2>3. /\ row.dispatcher = p.service.dispatcher /\ row.worker = p.service.worker
        /\ row.status # "FAILED" /\ row.allocationStatus = "ALLOCATED"
    BY <2>1, <2>2 DEF Placed
  <2> DEFINE w == row.worker
  <2>4. /\ appointments' = appointments \cup {OfRow}
        /\ Publish({Replacing(w)})
    BY <1>7, <2>1, <2>3 DEF Appoint, OfRow, Replacing
  <2>5. w \in Worker \cup Independent
    BY <2>3 DEF Orderly, RowAgrees
  <2>6. w \in Appointee
    BY <2>5 DEF Appointee, ServiceProvider
  <2>7. OfRow.status = "ALLOCATED" /\ OfRow.worker = w
    BY DEF OfRow
  <2>8. Blocked' = Blocked \cup {OfRow}
    BY <2>4, <2>7 DEF Blocked
  <2>9. Replacing(w) \in ForWorker
    BY <2>6, TaskNamesApart
  <2> DEFINE k == Replacing(w)
  <2>10. {k} \cap Clearing = {} /\ {k} \cap Leading = {}
    BY <2>9, TaskNames DEF Following
  <2>11. /\ OffersKept' /\ PaymentKept'
         /\ \A u \in Thread : thread'[u].pc = "idle"
         /\ \A l \in ForWorker : Due(l)' <=> l \in {k}
    BY <1>6, <2>4, <2>10
  <2>12. \A v \in Appointee : /\ Due(Replacing(v))' => v = w
                              /\ ~Due(Fulfilling(v))'
    <3>1. \A v \in Appointee : (Replacing(v) = k => v = w) /\ Fulfilling(v) # k
      BY DEF Replacing, Fulfilling
    <3> QED
      BY <2>11, <3>1, TaskNamesApart
  <2>13. ReplacedNext(w)'
    <3>1. \A a \in Blocked' : a.worker = w => a = OfRow'
      BY <1>3, <1>5, <2>1, <2>2, <2>8
    <3> QED
      BY <1>1, <1>5, <2>3, <2>8, <3>1 DEF ReplacedNext
  <2>14. Appointing'
    <3>1. \A v \in Appointee : Due(Replacing(v))' => ReplacedNext(v)'
      BY <1>1, <2>12, <2>13 DEF ReplacedNext
    <3> QED
      BY <2>11, <2>12, <3>1 DEF Appointing, Placing
  <2>15. ~BlockedSure'
    BY <2>6, <2>9, <2>11 DEF BlockedSure
  <2> QED
    BY <2>11, <2>14, <2>15 DEF TablesAgree, BlockedKept
<1>8. CASE RefetchHandling(t)
  <2>1. /\ UNCHANGED appointments /\ thread[t].pc = "refetchHandling"
        /\ \/ row.status = "FULFILLED" /\ Publish({Fulfilling(row.worker)})
           \/ Publish({})
    BY <1>8 DEF RefetchHandling, tables, Running, Fulfilling
  <2>2. row.worker \in Appointee
    BY RowFacts DEF Orderly, ServiceProvider, Appointee
  <2>3. PICK tasks \in {{Fulfilling(row.worker)}, {}} :
          Publish(tasks) /\ (tasks # {} => row.status = "FULFILLED")
    BY <2>1
  <2>4. \A k \in tasks : k = Fulfilling(row.worker) /\ k \in ForWorker
    BY <2>2, <2>3, TaskNamesApart
  <2>5. tasks \cap Clearing = {} /\ tasks \cap Leading = {}
    BY <2>4, TaskNames DEF Following
  <2>6. /\ OffersKept' /\ PaymentKept'
        /\ \A u \in Thread : thread'[u].pc = "idle"
        /\ \A l \in ForWorker : Due(l)' <=> l \in tasks
    BY <1>6, <2>3, <2>5
  <2>7. \A v \in Appointee : ~Due(Replacing(v))'
    <3>1. \A v \in Appointee : Replacing(v) \notin tasks
      BY <2>4 DEF Replacing, Fulfilling
    <3> QED
      BY <2>6, <3>1, TaskNamesApart
  <2>8. \A v \in Appointee : Due(Fulfilling(v))' => row'.status = "FULFILLED"
    BY <1>1, <2>3, <2>6, TaskNamesApart
  <2>9. Appointing'
    BY <2>6, <2>7, <2>8 DEF Appointing, Placing
  <2>10. Blocked' = Blocked
    BY <2>1 DEF Blocked
  <2>11. BlockedAgree'
    BY <1>1, <1>3, <1>5, <2>1, <2>10 DEF BlockedAgree
  <2> QED
    BY <2>6, <2>9, <2>11 DEF TablesAgree, BlockedKept
<1> QED
  BY <1>7, <1>8

------------------------------------------------------------------------------
(* The clearing of the two tables, and the tasks for the worker *)

\* What follows a call does not touch the payment.
LEMMA FollowingPays ==
  ASSUME PaymentKept, UNCHANGED <<row, responses, thread>>,
         \A k \in Leading : todo'[k] = todo[k]
  PROVE  PaymentKept'
<1>1. \A k \in Leading : Due(k)' <=> Due(k)
  BY DEF Due
<1>2. (PaymentSure' => PaymentSure) /\ (Expiring' => Expiring)
  BY <1>1, TaskNamesApart DEF PaymentSure, Expiring
<1> QED
  BY <1>2, PaymentCarried DEF StaysPaid

\* Beside a clearing nobody places the job or has an appointment to make.
LEMMA ClearingAlone ==
  ASSUME OneFollows, NEW k \in Clearing, Due(k)
  PROVE  /\ \A t \in Thread : thread[t].pc \notin Placing \cup {"appoint"}
         /\ \A l \in ForWorker : ~Due(l)
<1>1. \A t \in Thread : thread[t].pc \notin Placing \cup {"appoint"}
  BY DEF OneFollows, Busy, Reoffering, Placing
<1>2. \A l \in ForWorker : ~Due(l)
  BY TaskNames, TaskNamesApart DEF OneFollows
<1> QED
  BY <1>1, <1>2

\* First the assignments are cleared.
LEMMA FirstClearing ==
  ASSUME Typed, Orderly, TablesAgree, CancelAssignments \/ RevokeAssignments
  PROVE  TablesAgree'
<1>1. ASSUME NEW name, NEW status, NEW next, status # "ACCEPTED",
             UpdateAssignments(name, status, next),
             TaskOf(name) \in Clearing, TaskOf(next) \in Clearing, name # next
      PROVE  TablesAgree'
  <2>1. /\ TaskOf(name) # TaskOf(next) /\ TaskOf(name) \in Task /\ TaskOf(next) \in Task
        /\ TaskOf(name) \in Following /\ TaskOf(next) \in Following
    BY <1>1, TaskNames, TaskNamesApart
  <2>2. /\ UNCHANGED <<row, responses, appointments, thread>> /\ Due(TaskOf(name))
        /\ todo' = [todo EXCEPT ![TaskOf(name)] = @ - 1, ![TaskOf(next)] = @ + 1]
        /\ assignments' = {[a EXCEPT !.status = status] : a \in assignments}
    BY <1>1 DEF UpdateAssignments, WithStatus, events, Due
  <2>3. NoneAccepted'
    <3>1. \A a \in assignments : [a EXCEPT !.status = status].status = status
      BY DEF Typed, TypeOK, Assignment
    <3> QED
      BY <1>1, <2>2, <3>1 DEF NoneAccepted
  <2>4. todo[TaskOf(next)] = 0
    BY <2>1, <2>2, OthersFollow DEF Orderly
  <2>5. /\ \A k \in Leading \cup ForWorker : todo'[k] = todo[k]
        /\ Due(TaskOf(next))'
    BY <1>1, <2>1, <2>2, <2>4, TaskNames DEF Typed, TypeOK, Due, Following
  <2>6. /\ \A t \in Thread : thread[t].pc \notin Placing \cup {"appoint"}
        /\ \A l \in ForWorker : ~Due(l)
    BY <1>1, <2>2, ClearingAlone DEF Orderly
  <2>7. OffersKept'
    BY <2>3 DEF OffersKept, OffersAgree, NoneAccepted
  <2>8. ~BlockedSure'
    BY <1>1, <2>5 DEF BlockedSure
  <2>9. Appointing'
    BY <2>2, <2>5, <2>6, TaskNamesApart DEF Appointing, Due
  <2>10. PaymentKept'
    BY <2>2, <2>5, FollowingPays DEF TablesAgree
  <2> QED
    BY <2>7, <2>8, <2>9, <2>10 DEF TablesAgree, BlockedKept
<1> QED
  BY <1>1, TaskNames, TaskNamesApart DEF CancelAssignments, RevokeAssignments

\* What follows is taken when nothing else follows.
LEMMA FollowerTaken ==
  ASSUME Typed, Orderly, NEW k \in Following, Take(k)
  PROVE  /\ Due(k)
         /\ \A l \in Leading : todo'[l] = todo[l]
         /\ \A l \in Following : ~Due(l)'
         /\ \A l \in Following : l # k => ~Due(l)
<1>1. Due(k) /\ k \in Task
  BY TaskNames DEF Take, Due, Following
<1>2. todo[k] = 1 /\ \A l \in Following : l # k => todo[l] = 0
  BY <1>1, OthersFollow DEF Orderly
<1>3. /\ \A l \in Leading : todo'[l] = todo[l]
      /\ \A l \in Following : todo'[l] = 0
  BY <1>2, TaskNames DEF Take, Typed, TypeOK, Following
<1> QED
  BY <1>1, <1>2, <1>3 DEF Due

\* Then the appointments are.
LEMMA SecondClearing ==
  ASSUME Typed, Orderly, TablesAgree, CancelAppointments \/ RevokeAppointments
  PROVE  TablesAgree'
<1>1. ASSUME NEW name \in {"cancelAppointments", "revokeAppointments"},
             NEW status \in {"CANCELLED", "REVOKED"}, Take(TaskOf(name)),
             UNCHANGED <<row, responses, assignments, thread>>,
             appointments' = {[a EXCEPT !.status = status] : a \in appointments}
      PROVE  TablesAgree'
  <2>1. TaskOf(name) \in Clearing /\ TaskOf(name) \in Following
    BY TaskNamesApart
  <2>2. /\ Due(TaskOf(name))
        /\ \A l \in Leading : todo'[l] = todo[l]
        /\ \A l \in Following : ~Due(l)'
    BY <1>1, <2>1, FollowerTaken
  <2>3. NoneAccepted
    BY <2>2 DEF HalfCleared, TablesAgree, OffersKept
  <2>4. OffersKept'
    BY <1>1, <2>3 DEF OffersKept, OffersAgree, NoneAccepted
  <2>5. Blocked' = {}
    <3>1. \A a \in appointments : [a EXCEPT !.status = status].status = status
      BY DEF Typed, TypeOK, Appointment
    <3> QED
      BY <1>1, <3>1 DEF Blocked
  <2>6. row.allocationStatus = "UNASSIGNED" \/ row.status = "FAILED"
    BY <2>1, <2>2 DEF Orderly, RowFits
  <2>7. BlockedAgree'
    BY <1>1, <2>5, <2>6 DEF BlockedAgree
  <2>8. \A t \in Thread : thread[t].pc \notin Placing \cup {"appoint"}
    BY <2>1, <2>2, ClearingAlone DEF Orderly
  <2>9. Appointing'
    BY <1>1, <2>2, <2>8, TaskNamesApart DEF Appointing
  <2>10. PaymentKept'
    BY <1>1, <2>2, FollowingPays DEF TablesAgree
  <2> QED
    BY <2>4, <2>7, <2>9, <2>10 DEF TablesAgree, BlockedKept
<1> QED
  BY <1>1 DEF CancelAppointments, RevokeAppointments, UpdateAppointments, WithStatus, events

\* A task for the worker finds nothing else going on.
LEMMA ForWorkerAlone ==
  ASSUME Typed, Orderly, TablesAgree, NEW k \in ForWorker, Take(k),
         UNCHANGED <<row, responses, assignments, thread>>
  PROVE  /\ Due(k) /\ OffersKept' /\ PaymentKept' /\ Appointing'
         /\ (\A w \in Appointee : k # Replacing(w)) => BlockedAgree
<1>1. k \in Following
  BY TaskNamesApart
<1>2. /\ Due(k)
      /\ \A l \in Leading : todo'[l] = todo[l]
      /\ \A l \in Following : ~Due(l)'
      /\ \A l \in Following : l # k => ~Due(l)
  BY <1>1, FollowerTaken
<1>3. /\ \A t \in Thread : thread[t].pc = "idle"
      /\ \A l \in Clearing : ~Due(l)
  BY <1>2, TaskNames, TaskNamesApart DEF Orderly, OneFollows, AllIdle, Running
<1>4. OffersSure
  BY <1>3, TaskNamesApart DEF OffersSure, Placing
<1>5. ~HalfCleared'
  BY <1>2, TaskNamesApart DEF HalfCleared
<1>6. OffersKept'
  BY <1>4, <1>5, OffersCarried DEF TablesAgree
<1>7. PaymentKept'
  BY <1>2, FollowingPays DEF TablesAgree
<1>8. Appointing'
  BY <1>2, <1>3, TaskNamesApart DEF Appointing, Placing
<1>9. (\A w \in Appointee : k # Replacing(w)) => BlockedSure
  BY <1>2, <1>3, TaskNamesApart DEF BlockedSure, Placing
<1> QED
  BY <1>2, <1>6, <1>7, <1>8, <1>9 DEF TablesAgree, BlockedKept

\* The appointments of others are replaced by the new one.
LEMMA ReplaceSettles ==
  ASSUME Typed, Orderly, TablesAgree, NEW w \in ServiceProvider, ReplaceOthers(w)
  PROVE  TablesAgree'
<1>1. /\ Take(Replacing(w)) /\ UNCHANGED <<row, responses, assignments, thread>>
      /\ appointments' = {IF a.worker # w THEN [a EXCEPT !.status = "REPLACED"] ELSE a :
                            a \in appointments}
  BY DEF ReplaceOthers, UpdateAppointments, WithStatus, Replacing, events
<1>2. w \in Appointee /\ Replacing(w) \in ForWorker
  BY TaskNamesApart DEF Appointee
<1>3. Due(Replacing(w)) /\ OffersKept' /\ PaymentKept' /\ Appointing'
  BY <1>1, <1>2, ForWorkerAlone
<1>4. ReplacedNext(w)
  BY <1>2, <1>3 DEF TablesAgree, BlockedKept, Appointing
<1>5. \A a \in appointments : [a EXCEPT !.status = "REPLACED"].status = "REPLACED"
  BY DEF Typed, TypeOK, Appointment
<1>6. \A a \in Blocked' : a \in Blocked /\ a.worker = w
  BY <1>1, <1>5 DEF Blocked
<1>7. OfRow \in appointments /\ OfRow.worker = w /\ OfRow.status = "ALLOCATED"
  BY <1>4 DEF ReplacedNext, Blocked, OfRow
<1>8. OfRow \in Blocked'
  BY <1>1, <1>7 DEF Blocked
<1>9. Blocked' = {OfRow}
  BY <1>4, <1>6, <1>8 DEF ReplacedNext
<1>10. OfRow' = OfRow
  BY <1>1 DEF OfRow
<1>11. BlockedAgree'
  BY <1>1, <1>4, <1>9, <1>10 DEF BlockedAgree, ReplacedNext
<1> QED
  BY <1>3, <1>11 DEF TablesAgree, BlockedKept

\* Appointments of a completed job are fulfilled.
LEMMA FulfilSettles ==
  ASSUME Typed, Orderly, TablesAgree, NEW w \in Appointee, FulfilAppointments(w)
  PROVE  TablesAgree'
<1>1. /\ Take(Fulfilling(w)) /\ UNCHANGED <<row, responses, assignments, thread>>
      /\ appointments' = {IF a.worker = w THEN [a EXCEPT !.status = "FULFILLED"] ELSE a :
                            a \in appointments}
  BY DEF FulfilAppointments, UpdateAppointments, WithStatus, Fulfilling, events
<1>2. Fulfilling(w) \in ForWorker /\ \A v \in Appointee : Fulfilling(w) # Replacing(v)
  BY TaskNamesApart DEF Fulfilling, Replacing
<1>3. Due(Fulfilling(w)) /\ OffersKept' /\ PaymentKept' /\ Appointing' /\ BlockedAgree
  BY <1>1, <1>2, ForWorkerAlone
<1>4. row.status = "FULFILLED"
  BY <1>3 DEF TablesAgree, BlockedKept, Appointing
<1>5. \A a \in appointments : [a EXCEPT !.status = "FULFILLED"].status = "FULFILLED"
  BY DEF Typed, TypeOK, Appointment
<1>6. Blocked' \subseteq Blocked
  BY <1>1, <1>5 DEF Blocked
<1>7. OfRow' = OfRow
  BY <1>1 DEF OfRow
<1>8. BlockedAgree'
  BY <1>1, <1>3, <1>4, <1>6, <1>7 DEF BlockedAgree
<1> QED
  BY <1>3, <1>8 DEF TablesAgree, BlockedKept

------------------------------------------------------------------------------
(* The invariant, and what it says *)

\* The calls keep tables and row in agreement,
LEMMA RequestSettles ==
  ASSUME Typed, Orderly, TablesAgree, Serial, Requested
  PROVE  TablesAgree'
BY CalmRequests, CalmAgrees, PaymentRequests DEF Requested

\* as do their steps,
LEMMA ResumeSettles ==
  ASSUME Typed, Typed', Orderly, TablesAgree, PaymentGatewayEnabled, NEW t \in Thread, Resume(t)
  PROVE  TablesAgree'
<1>1. CASE \/ Compare(t) \/ FailPending(t) \/ Enqueue(t) \/ Offer(t) \/ RefetchPayment(t)
           \/ SavePatch(t) \/ Record(t) \/ LookupHandling(t)
  BY <1>1, CalmCalls, CalmAgrees
<1>2. CASE \/ SaveAccept(t) \/ SaveManual(t) \/ SaveAllocate(t) \/ SaveExpire(t)
           \/ SavePayment(t) \/ SaveHandling(t) \/ SaveRestart(t)
  BY <1>2, TakeSettles, AllocateSettles, ExpireSettles, PaymentSettles, HandlingSettles,
     RestartSettles
<1>3. CASE \/ SaveCancel(t) \/ SaveRevoke(t) \/ SaveCancelByCustomer(t)
           \/ InsertManual(t) \/ AcceptMine(t) \/ FailOthers(t) \/ LookupPayment(t)
           \/ Appoint(t) \/ RefetchHandling(t)
  BY <1>3, GiveUpSettles, PlacingSettles, ForWorkerSettles
<1> QED
  BY <1>1, <1>2, <1>3 DEF Resume

\* and the handlers.
LEMMA TaskSettles ==
  ASSUME Typed, Orderly, Orderly', TablesAgree, Deliver \/ \E t \in Thread : TakeUp(t)
  PROVE  TablesAgree'
<1>1. ASSUME NEW t \in Thread, TakeUp(t)
      PROVE  TablesAgree'
  BY <1>1, CalmTasks, CalmAgrees, PaymentTasks DEF TakeUp
<1>2. CASE Deliver
  <2>1. CASE DismissPayment \/ DropTicket
    BY <2>1, CalmTasks, CalmAgrees, PaymentTasks
  <2>2. CASE CancelAssignments \/ RevokeAssignments \/ CancelAppointments \/ RevokeAppointments
    BY <2>2, FirstClearing, SecondClearing
  <2>3. ASSUME NEW w \in ServiceProvider, ReplaceOthers(w)
        PROVE  TablesAgree'
    BY <2>3, ReplaceSettles
  <2>4. ASSUME NEW w \in ServiceProvider \cup {NoAgent}, FulfilAppointments(w)
        PROVE  TablesAgree'
    BY <2>4, FulfilSettles DEF Appointee
  <2> QED
    BY <1>2, <2>1, <2>2, <2>3, <2>4 DEF Deliver
<1> QED
  BY <1>1, <1>2

\* As long as no process was lost, none was before.
LEMMA CrashesStep ==
  ASSUME Typed, [Next]_vars, crashes' = 0
  PROVE  ~Crash /\ crashes = 0
<1>1. ~Crash
  BY DEF Crash, Typed, TypeOK
<1> SUFFICES crashes = 0
  BY <1>1
<1>2. CASE Requested
  BY <1>2 DEF Requested, Accept, ManualAssign, BeginTake, Allocate, Cancel, Revoke, Fail,
              CancelByCustomer, BeginGiveUp, Handle, FindTimedOut, Pay, Override
<1>3. ASSUME NEW t \in Thread, Resume(t)
      PROVE  crashes = 0
  BY <1>3 DEF Resume, Compare, SaveAccept, SaveManual, InsertManual, AcceptMine, FailOthers,
              SaveAllocate, Appoint, SaveCancel, SaveRevoke, SaveCancelByCustomer, SaveExpire,
              FailPending, SaveRestart, Enqueue, Offer, LookupPayment, SavePayment,
              RefetchPayment, SavePatch, Record, LookupHandling, SaveHandling, RefetchHandling,
              SaveThen, SaveAndPublish, bounds
<1>4. ASSUME NEW t \in Thread, TakeUp(t)
      PROVE  crashes = 0
  BY <1>4 DEF TakeUp, InitiateAutoAssignment, PaymentResponded, Expire, PatchCRM, ReadTicket, bounds
<1>5. CASE Deliver
  BY <1>5 DEF Deliver, DismissPayment, DropTicket, CancelAssignments, CancelAppointments,
              RevokeAssignments, RevokeAppointments, ReplaceOthers, FulfilAppointments,
              UpdateAssignments, UpdateAppointments, bounds
<1>6. CASE TimePasses \/ UNCHANGED vars
  BY <1>6 DEF TimePasses, vars, bounds
<1> QED
  BY <1>1, <1>2, <1>3, <1>4, <1>5, <1>6 DEF Next, Wait

\* Every step keeps row and tables settled.
LEMMA SettledStep ==
  ASSUME Typed, Typed', Orderly, Orderly', Settled, Serial, PaymentGatewayEnabled, [Next]_vars
  PROVE  Settled'
<1> SUFFICES ASSUME crashes' = 0
             PROVE  TablesAgree'
  BY DEF Settled
<1>1. ~Crash /\ TablesAgree
  BY CrashesStep DEF Settled
<1>2. CASE Requested
  BY <1>1, <1>2, RequestSettles
<1>3. ASSUME NEW t \in Thread, Resume(t)
      PROVE  TablesAgree'
  BY <1>1, <1>3, ResumeSettles
<1>4. CASE Deliver \/ \E t \in Thread : TakeUp(t)
  BY <1>1, <1>4, TaskSettles
<1>5. CASE TimePasses \/ UNCHANGED vars
  BY <1>1, <1>5, CalmTasks, CalmAgrees
<1> QED
  BY <1>1, <1>2, <1>3, <1>4, <1>5 DEF Next, Wait

\* They are at the start.
LEMMA InitSettled ==
  ASSUME Init, Typed, Orderly, PaymentGatewayEnabled
  PROVE  Settled
<1>1. \A t \in Thread : thread[t].pc = "idle"
  BY DEF Init, Idle, At
<1>2. assignments = {} /\ Blocked = {} /\ ~LastSucceeded
  BY DEF Init, Blocked, LastSucceeded
<1>3. \A k \in Task : Due(k) => k = TaskOf("patchCRM")
  BY DEF Init, InitialTasks, Due
<1>4. ~Expiring
  BY <1>1, <1>3, TaskNames, TaskNamesApart DEF Expiring
<1>5. row.allocationStatus = "UNASSIGNED"
  <2>1. row.dispatcher = NoAgent
    BY CreatedServiceType DEF Init, ServiceObject
  <2> QED
    BY <2>1, ServiceAssumption DEF Orderly, RowAgrees, Dispatcher, ServiceProvider
<1>6. OffersKept
  BY <1>2 DEF OffersKept, OffersAgree, NoneAccepted
<1>7. \A k \in ForWorker : ~Due(k)
  <2>1. \A k \in ForWorker : k # TaskOf("patchCRM")
    BY DEF ForWorker, TaskOf
  <2> QED
    BY <1>3, <2>1, TaskNames
<1>8. BlockedKept
  <2>1. BlockedAgree
    BY <1>2, <1>5 DEF BlockedAgree
  <2>2. Appointing
    BY <1>1, <1>7, TaskNamesApart DEF Appointing, Placing
  <2> QED
    BY <2>1, <2>2 DEF BlockedKept
<1>9. PaymentKept
  BY <1>2, <1>4 DEF PaymentKept
<1> QED
  BY <1>6, <1>8, <1>9 DEF Settled, TablesAgree

\* At rest the invariant is about the row and the two tables alone.
LEMMA AtRest ==
  ASSUME TablesAgree, Quiet
  PROVE  /\ OffersAgree /\ BlockedAgree
         /\ LastSucceeded => HasCustomerPaid(row)
<1>1. /\ \A t \in Thread : thread[t].pc = "idle"
      /\ \A k \in Leading \cup Following : ~Due(k)
  BY TaskNames DEF Quiet, AllIdle, Running, NothingTodo, Due, Following
<1>2. OffersSure /\ BlockedSure /\ PaymentSure
  BY <1>1, TaskNamesApart DEF OffersSure, BlockedSure, PaymentSure, Placing
<1> QED
  BY <1>2 DEF TablesAgree, OffersKept, BlockedKept, PaymentKept

\* With one call at a time, all of it holds always.
LEMMA OneByOne ==
  ASSUME Serial, PaymentGatewayEnabled
  PROVE  Spec => [](Typed /\ Orderly /\ Settled)
<1> DEFINE Inv == Typed /\ Orderly /\ Settled
<1>1. Init => Inv
  BY InitType, InitOrderly, InitSettled
<1>2. Inv /\ [Next]_vars => Inv'
  <2> SUFFICES ASSUME Inv, [Next]_vars
               PROVE  Inv'
    OBVIOUS
  <2>1. Typed'
    BY StepType
  <2>2. Orderly'
    BY OrderlyStep
  <2> QED
    BY <2>1, <2>2, SettledStep
<1> QED
  BY <1>1, <1>2, PTL DEF Spec

\* One request after the other, a job that is assigned has a dispatcher and one
\* that is allocated a worker, after restarts too: each of the saves of
\* save(this.service) writes what the row's other columns allow.
THEOREM AllocationIsBacked ==
  ASSUME Serial, PaymentGatewayEnabled
  PROVE  Spec => []AllocationBacked
<1>1. Orderly => AllocationBacked
  BY DEF Orderly, RowAgrees, AllocationBacked
<1> QED
  BY <1>1, OneByOne, PTL

\* One request after the other and until the process restarts, a job at rest blocks
\* its worker's calendar once if it is allocated, and nobody's if it is not.
THEOREM CalendarIsKept ==
  ASSUME Serial, PaymentGatewayEnabled
  PROVE  Spec => [](crashes = 0 => CalendarAgrees)
<1>1. Settled => (crashes = 0 => CalendarAgrees)
  BY AtRest DEF Settled, CalendarAgrees, BlockedAgree, Blocked, OfRow
<1> QED
  BY <1>1, OneByOne, PTL

\* One request after the other and until the process restarts, the only accepted
\* offer of a job at rest is its dispatcher's.
THEOREM AcceptedOfferIsTheDispatchers ==
  ASSUME Serial, PaymentGatewayEnabled
  PROVE  Spec => [](crashes = 0 => AcceptedOfferIsTaken)
<1>1. Settled => (crashes = 0 => AcceptedOfferIsTaken)
  BY AtRest DEF Settled, AcceptedOfferIsTaken, OffersAgree
<1> QED
  BY <1>1, OneByOne, PTL

\* One request after the other and until the process restarts, a job at rest whose
\* last transaction succeeded is paid, in whatever order browser and webhook told.
THEOREM PaymentIsRecognised ==
  ASSUME Serial, PaymentGatewayEnabled
  PROVE  Spec => [](crashes = 0 => PaymentRecognised)
<1>1. Settled => (crashes = 0 => PaymentRecognised)
  BY AtRest DEF Settled, PaymentRecognised, LastSucceeded
<1> QED
  BY <1>1, OneByOne, PTL
==============================================================================
