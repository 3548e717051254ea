------------------------------- MODULE Ticket --------------------------------
(***************************************************************************)
(* The automatic dispatch of one job, step by step: the Bull queue         *)
(* 'ticket', its processor with the two strategies of the settings, the    *)
(* scan for candidates, one saved assignment per candidate, the notices    *)
(* they lead to.  JobDispatch has one strategy, and the offers of a ticket *)
(* in one step; here taking the job and giving it up are one step each.    *)
(*                                                                         *)
(* The row of the request is taken: who has the job.  A handler of the     *)
(* processor is current (Bull runs one at a time); the saves it starts are *)
(* saving, which go on when one of them fails and the handler is over.     *)
(* A ticket is numbered when it is added; the batches of a ticket are the  *)
(* same job added again with the state it left behind (whom it dispatched  *)
(* to is in that state too, but nothing reads it).                         *)
(***************************************************************************)
EXTENDS Naturals, FiniteSets

CONSTANTS
  Provider,      \* the service providers that are no workers
  NoProvider,
  Setting,       \* the rows auto_assignment_settings may hold
  Serving,       \* of a zone type: who serves an area that covers the address
  Skill,         \* of a provider: the bits of skillEntitlement
  Entitlement,   \* the bits of the job's entitlement
  Call,          \* the names of the calls that are made in this instance
  Serial,        \* TRUE: a request is made only when nothing runs (tickets may wait)
  TicketLast,    \* TRUE: the delay of a ticket outlasts what is in todo
  MaxRequests,   \* bound on the requests made
  MaxTickets,    \* bound on the tickets added
  MaxFailures,   \* bound on the saves that fail
  MaxCrashes     \* bound on the restarts; a job that stalls twice is given up by Bull

ScanningZoneType == {"POLYGON", "POSTAL_CODE", "ALL", "NONE"}

\* size is batchWise.batchLimit.size; a type other than SEND_TO_ALL is BATCH_WISE.
SettingRow == [type : {"SEND_TO_ALL", "BATCH_WISE"}, zone : ScanningZoneType, size : Nat]

ASSUME TicketAssumption ==
  /\ IsFiniteSet(Provider) /\ NoProvider \notin Provider
  /\ {"cancelAssignments", "initiateAutoAssignment"} \cap Provider = {}  \* ids are UUIDs
  /\ Setting \subseteq SettingRow /\ Setting # {}
  /\ Serving \in [{"POLYGON", "POSTAL_CODE"} -> SUBSET Provider]
  /\ \A p \in Provider : Skill[p] \subseteq Nat
  /\ Entitlement \subseteq Nat
  /\ {Serial, TicketLast} \subseteq BOOLEAN
  /\ {MaxRequests, MaxTickets, MaxFailures} \subseteq Nat /\ MaxCrashes \in {0, 1}

VARIABLES
  setting,      \* the one row of auto_assignment_settings
  active,       \* the providers whose general status is ACTIVE
  taken,        \* who the job is assigned or allocated to
  assignments,  \* the rows of assignments
  queue,        \* the jobs of the Bull queue, delayed or ready
  current,      \* the job in the processor, with the database call it waits for
  saving,       \* assignments being inserted
  todo,         \* notices and handlers started: commands and events
  told,         \* of a provider: how often he was notified of the job
  tickets,      \* how many tickets were added
  failed,       \* tickets of which a save failed, so that the handler stopped
  requests, crashes

world == <<setting, active>>
vars  == <<world, taken, assignments, queue, current, saving, todo, told,
           tickets, failed, requests, crashes>>

Job     == [ticket : Nat \ {0}, batch : Nat \ {0}, setting : SettingRow]
NoJob   == [ticket |-> 0, batch |-> 0]
At(pc, job) == [pc |-> pc, job |-> job]
Idle    == At("idle", NoJob)
Offer   == [ticket : Nat, batch : Nat, provider : Provider]
Status  == {"PENDING", "ACCEPTED", "FAILED", "CANCELLED"}
Assignment == [offer : Offer, status : Status]
Task    == {"cancelAssignments", "initiateAutoAssignment"} \cup Provider

TypeOK ==
  /\ setting \in Setting /\ active \subseteq Provider
  /\ taken \in Provider \cup {NoProvider}
  /\ assignments \subseteq Assignment
  /\ queue \subseteq Job
  /\ current = Idle \/ (current.pc \in {"scan", "offer"} /\ current.job \in Job)
  /\ saving \subseteq Offer
  /\ todo \in [Task -> Nat] /\ told \in [Provider -> Nat]
  /\ tickets \in 0..MaxTickets /\ failed \subseteq 1..tickets
  /\ requests \in Nat /\ crashes \in Nat

Publish(tasks) == todo' = [k \in Task |-> IF k \in tasks THEN todo[k] + 1 ELSE todo[k]]
Take(k)        == todo[k] > 0 /\ todo' = [todo EXCEPT ![k] = @ - 1]
NothingTodo    == \A k \in Task : todo[k] = 0

\* Delayed tickets may wait.
Still == current = Idle /\ saving = {} /\ NothingTodo

Request(call) ==
  /\ call \in Call
  /\ requests < MaxRequests
  /\ Serial => Still
  /\ requests' = requests + 1

Init ==
  /\ setting \in Setting
  /\ active = Provider
  /\ taken = NoProvider
  /\ assignments = {} /\ queue = {} /\ current = Idle /\ saving = {}
  /\ todo = [k \in Task |-> IF k = "initiateAutoAssignment" THEN 1 ELSE 0]
  /\ told = [p \in Provider |-> 0]
  /\ tickets = 0 /\ failed = {}
  /\ requests = 0 /\ crashes = 0

------------------------------------------------------------------------------
(* Scanning for candidates                                                    *)

\* findOnDutyDealerOrIndependents: (skills & entitlement) >= 0 is no condition,
\* and the condition on duty is taken out.
ActiveWhatever == active

\* findOnDutyDealersOrIndependentsWithinCoverage: (skills & entitlement) > 0
ActiveWithin(served, entitlement) == {p \in active \cap served : Skill[p] \cap entitlement # {}}

\* ScanCandidatesHandler looks neither at who was dispatched to nor at the limit;
\* ALL falls through to the default; within areas, the entitlement asked for is 0.
Scan(zone) ==
  IF zone \in {"POSTAL_CODE", "POLYGON"} THEN ActiveWithin(Serving[zone], {}) ELSE ActiveWhatever

------------------------------------------------------------------------------
(* The processor                                                              *)

\* Wrong: the batches are counted from zero.
InitiateFromZero ==
  /\ Take("initiateAutoAssignment")
  /\ tickets < MaxTickets
  /\ tickets' = tickets + 1
  /\ taken' = NoProvider
  /\ queue' = queue \cup {[ticket |-> tickets + 1, batch |-> 0, setting |-> setting]}
  /\ UNCHANGED <<world, assignments, current, saving, told, failed, requests, crashes>>

\* InitiateAutoAssignmentHandler: the settings go into the job, the row restarts
\* (its agents stay, its allocation status does not).
InitiateAutoAssignment ==
  /\ Take("initiateAutoAssignment")
  /\ tickets < MaxTickets
  /\ tickets' = tickets + 1
  /\ taken' = NoProvider
  /\ queue' = queue \cup {[ticket |-> tickets + 1, batch |-> 1, setting |-> setting]}
  /\ UNCHANGED <<world, assignments, current, saving, told, failed, requests, crashes>>

AllBatchesMade(job) == job.setting.type = "BATCH_WISE" /\ job.batch > job.setting.size

\* Wrong: whether somebody has the job is asked only for the first batch.
ExitAtFirstOnly(job) == job.batch = 1 /\ taken # NoProvider

\* serviceTicket.hasBeenAssignedOrAllocated()
ExitAsTaken(job) == taken # NoProvider

StartTicket(job) ==
  /\ current = Idle
  /\ job \in queue /\ (TicketLast => NothingTodo)
  /\ queue' = queue \ {job}
  /\ current' = IF AllBatchesMade(job) \/ ExitAsTaken(job) THEN Idle ELSE At("scan", job)
  /\ UNCHANGED <<world, taken, assignments, saving, todo, told, tickets, failed,
                 requests, crashes>>

\* All the saves are started together.
ScanAndOffer ==
  LET job == current.job
  IN  /\ current.pc = "scan"
      /\ saving' = saving \cup [ticket : {job.ticket}, batch : {job.batch},
                                provider : Scan(job.setting.zone)]
      /\ current' = At("offer", job)
      /\ UNCHANGED <<world, taken, assignments, queue, todo, told, tickets, failed,
                     requests, crashes>>

\* save(), then the event, which AssignmentSaga turns into the two notices.
SaveOffer(o) ==
  /\ o \in saving
  /\ saving' = saving \ {o}
  /\ assignments' = assignments \cup {[offer |-> o, status |-> "PENDING"]}
  /\ Publish({o.provider})
  /\ UNCHANGED <<world, taken, queue, current, told, tickets, failed, requests, crashes>>

MayFail(o) == o \in saving /\ o.ticket \notin failed /\ Cardinality(failed) < MaxFailures

Stopped(o) == current # Idle /\ current.job.ticket = o.ticket

\* Wrong: the provider is notified although the assignment was not saved.
FailSaveButTell(o) ==
  /\ MayFail(o)
  /\ saving' = saving \ {o}
  /\ failed' = failed \cup {o.ticket}
  /\ Publish({o.provider})
  /\ current' = IF Stopped(o) THEN Idle ELSE current
  /\ UNCHANGED <<world, taken, assignments, queue, told, tickets, requests, crashes>>

\* Promise.all rejects with the first failure: the handler logs it and is done.
FailSave(o) ==
  /\ MayFail(o)
  /\ saving' = saving \ {o}
  /\ failed' = failed \cup {o.ticket}
  /\ current' = IF Stopped(o) THEN Idle ELSE current
  /\ UNCHANGED <<world, taken, assignments, queue, todo, told, tickets, requests, crashes>>

AllSaved == current.pc = "offer" /\ \A o \in saving : o.ticket # current.job.ticket

\* Wrong: the batches end one early.
LastBatchEarly(job) == job.batch + 1 >= job.setting.size

\* state.currentBatchNo++ >= batchWise.batchLimit.size
LastBatch(job) == job.batch >= job.setting.size

\* The same job once more, batchProcessingSeconds later.
EndTicket ==
  /\ AllSaved
  /\ current' = Idle
  /\ queue' = IF current.job.setting.type = "SEND_TO_ALL" \/ LastBatch(current.job) THEN queue
              ELSE queue \cup {[current.job EXCEPT !.batch = @ + 1]}
  /\ UNCHANGED <<world, taken, assignments, saving, todo, told, tickets, failed,
                 requests, crashes>>

\* PushNotifyIncomingNewJobCommand, PubNotifyIncomingNewJobCommand
Notify(p) ==
  /\ Take(p)
  /\ told' = [told EXCEPT ![p] = @ + 1]
  /\ UNCHANGED <<world, taken, assignments, queue, current, saving, tickets, failed,
                 requests, crashes>>

------------------------------------------------------------------------------
(* What others do to the job, the providers and the settings                  *)

\* AcceptNewDispatchedJobHandler: whoever is active, offered or not.
Accept(p) ==
  /\ Request("accept")
  /\ p \in active
  /\ taken = NoProvider
  /\ taken' = p
  /\ assignments' =
       {[a EXCEPT !.status = IF a.offer.provider # p THEN "FAILED"
                             ELSE IF @ = "PENDING" THEN "ACCEPTED" ELSE @] : a \in assignments}
  /\ UNCHANGED <<world, queue, current, saving, todo, told, tickets, failed, crashes>>

\* CancelJobHandler, RevokeJobHandler
GiveUp ==
  /\ Request("giveUp")
  /\ taken # NoProvider
  /\ tickets < MaxTickets
  /\ taken' = NoProvider
  /\ Publish({"cancelAssignments", "initiateAutoAssignment"})
  /\ UNCHANGED <<world, assignments, queue, current, saving, told, tickets, failed, crashes>>

CancelAssignments ==
  /\ Take("cancelAssignments")
  /\ assignments' = {[a EXCEPT !.status = "CANCELLED"] : a \in assignments}
  /\ UNCHANGED <<world, taken, queue, current, saving, told, tickets, failed,
                 requests, crashes>>

\* The operator suspends a provider or lets him work again, or edits the settings.
ChangeStatus(p) ==
  /\ Request("changeStatus")
  /\ active' = IF p \in active THEN active \ {p} ELSE active \cup {p}
  /\ UNCHANGED <<setting, taken, assignments, queue, current, saving, todo, told,
                 tickets, failed, crashes>>

ChangeSetting(s) ==
  /\ Request("changeSetting")
  /\ s # setting /\ setting' = s
  /\ UNCHANGED <<active, taken, assignments, queue, current, saving, todo, told,
                 tickets, failed, crashes>>

\* Wrong: the job is gone with the process that handled it.
CrashLosingJob ==
  /\ crashes < MaxCrashes
  /\ ~Still
  /\ crashes' = crashes + 1
  /\ current' = Idle /\ saving' = {}
  /\ todo' = [k \in Task |-> 0]
  /\ UNCHANGED <<world, taken, assignments, queue, told, tickets, failed, requests>>

\* What is in memory is lost.  The job in the processor stalls: Bull puts it
\* back as it was added.
Crash ==
  /\ crashes < MaxCrashes
  /\ ~Still
  /\ crashes' = crashes + 1
  /\ queue' = IF current = Idle THEN queue ELSE queue \cup {current.job}
  /\ current' = Idle /\ saving' = {}
  /\ todo' = [k \in Task |-> 0]
  /\ UNCHANGED <<world, taken, assignments, told, tickets, failed, requests>>

------------------------------------------------------------------------------
Running ==
  \/ InitiateAutoAssignment
  \/ \E job \in queue : StartTicket(job)
  \/ ScanAndOffer
  \/ \E o \in saving : SaveOffer(o)
  \/ EndTicket
  \/ \E p \in Provider : Notify(p)
  \/ CancelAssignments

Wait == Still /\ queue = {} /\ UNCHANGED vars

Next ==
  \/ Running
  \/ \E o \in saving : FailSave(o)
  \/ \E p \in Provider : Accept(p) \/ ChangeStatus(p)
  \/ GiveUp
  \/ \E s \in Setting : ChangeSetting(s)
  \/ Crash
  \/ Wait

Spec == Init /\ [][Next]_vars

\* Bull hands every job in the end to the processor; a started call returns.
FairSpec == Spec /\ WF_vars(Running)

------------------------------------------------------------------------------
(* Properties                                                                 *)

MaxSize       == CHOOSE n \in {s.size : s \in Setting} : \A s \in Setting : s.size <= n

Offers        == {a.offer : a \in assignments}
Reached(t, p) == \E o \in Offers : o.ticket = t /\ o.provider = p

\* The feed of new jobs, in the hours before the offers expire.
NewJobs(p) == {a \in assignments : a.offer.provider = p /\ a.status = "PENDING"}

\* While nothing runs, a job that somebody has is in nobody's feed of new jobs,
\* whatever batches are still to come (handleAllocation exits when the job is
\* assigned, accepting fails the offers made before).
OffersEndWithTheJob ==
  Still /\ taken # NoProvider => \A p \in Provider : NewJobs(p) = {}

\* Providers are told of as many offers as were saved for them: no notice of an
\* offer that was not saved, no offer without one (unless the process restarts).
TheOfferedAreTold ==
  Still /\ crashes = 0 =>
    \A p \in Provider : told[p] = Cardinality({o \in Offers : o.provider = p})

\* A ticket with a batch to make reaches every active provider, also when the
\* process restarts while it is handled, unless somebody takes the job first or
\* a save fails.  Not so when the settings name a zone: then nobody is asked.
EverybodyIsOffered ==
  \A t \in 1..MaxTickets :
    (\E job \in queue : job.ticket = t /\ job.setting.zone \in {"ALL", "NONE"}
                                      /\ ~(job.setting.type = "BATCH_WISE" /\ job.setting.size = 0))
      ~> taken # NoProvider \/ t \in failed \/ \A p \in active : Reached(t, p)

\* After every batch but the last there comes another one, also when the process
\* restarts or the settings are edited, unless the job is taken or a save fails.
BatchesFollow ==
  \A t \in 1..MaxTickets, b \in 1..MaxSize :
    (\E job \in queue : job.ticket = t /\ job.batch = b
                        /\ job.setting.type = "BATCH_WISE" /\ b < job.setting.size)
      ~> \/ taken # NoProvider \/ t \in failed
         \/ \E job \in queue : job.ticket = t /\ job.batch = b + 1
==============================================================================
