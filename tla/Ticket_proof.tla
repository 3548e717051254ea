---------------------------- MODULE Ticket_proof -----------------------------
(***************************************************************************)
(* Theorems about Ticket, for any providers, settings, skills and areas,   *)
(* any number of tickets, batches, failures and restarts.                  *)
(***************************************************************************)
EXTENDS Ticket, FiniteSetTheorems, TLAPS

\* Every offer to come is of a ticket that was added.
Numbered ==
  /\ \A job \in queue : job.ticket <= tickets
  /\ current # Idle => current.job.ticket <= tickets
  /\ \A o \in saving : o.ticket \in 1..tickets

Typed == TypeOK /\ Numbered /\ IsFiniteSet(assignments) /\ IsFiniteSet(failed)

------------------------------------------------------------------------------
(* Types *)

\* The counters of what is to do stay counters.
LEMMA TodoType ==
  ASSUME todo \in [Task -> Nat]
  PROVE  /\ \A tasks : Publish(tasks) => todo' \in [Task -> Nat]
         /\ \A k \in Task : Take(k) => todo' \in [Task -> Nat]
<1>1. ASSUME NEW tasks, Publish(tasks) PROVE todo' \in [Task -> Nat]
  BY <1>1 DEF Publish
<1>2. ASSUME NEW k \in Task, Take(k) PROVE todo' \in [Task -> Nat]
  <2>1. todo[k] - 1 \in Nat
    BY <1>2 DEF Take
  <2> QED
    BY <1>2, <2>1 DEF Take
<1> QED
  BY <1>1, <1>2

\* What is made of each of finitely many assignments are finitely many.
LEMMA RewrittenFinite ==
  ASSUME NEW S, IsFiniteSet(S), NEW f
  PROVE  IsFiniteSet({f[a] : a \in S})
<1> DEFINE T == {f[a] : a \in S}
           g == [a \in S |-> f[a]]
<1>1. g \in Surjection(S, T)
  BY DEF Surjection
<1> QED
  BY <1>1, FS_Surjection

\* Who has the job, the offers and the tickets stay what they are through a restart or
\* an end of the dispatch.
LEMMA TypedStep == Typed /\ [Next]_vars => Typed'
<1> SUFFICES ASSUME Typed, [Next]_vars PROVE Typed'
  OBVIOUS
<1> USE TodoType DEF Typed, TypeOK, Numbered, world
<1>1. CASE InitiateAutoAssignment
  <2>1. PICK job : job = [ticket |-> tickets + 1, batch |-> 1, setting |-> setting]
    OBVIOUS
  <2>2. job \in Job
    BY <2>1, TicketAssumption DEF Job
  <2>3. tickets + 1 \in 0..MaxTickets /\ failed \subseteq 1..(tickets + 1)
    BY <1>1, TicketAssumption DEF InitiateAutoAssignment
  <2>4. todo' \in [Task -> Nat] /\ queue' \subseteq Job
    BY <1>1, <2>1, <2>2 DEF InitiateAutoAssignment, Task
  <2>5. job.ticket = tickets + 1
    BY <2>1
  <2>6. current = Idle \/ current.job.ticket \in Nat
    BY DEF Job
  <2>7. Numbered'
    BY <1>1, <2>1, <2>5, <2>6 DEF InitiateAutoAssignment, Job, Offer
  <2> QED
    BY <1>1, <2>3, <2>4, <2>7 DEF InitiateAutoAssignment
<1>2. ASSUME NEW job \in queue, StartTicket(job) PROVE Typed'
  <2>1. At("scan", job) # Idle /\ At("scan", job).pc = "scan" /\ At("scan", job).job = job
    BY DEF At, Idle
  <2> QED
    BY <1>2, <2>1 DEF StartTicket
<1>3. CASE ScanAndOffer
  <2>1. current.job \in Job /\ Scan(current.job.setting.zone) \subseteq Provider
    BY <1>3 DEF ScanAndOffer, Idle, At, Scan, ActiveWithin, ActiveWhatever
  <2>2. PICK offers : offers = [ticket : {current.job.ticket}, batch : {current.job.batch},
                                provider : Scan(current.job.setting.zone)]
    OBVIOUS
  <2>3. offers \subseteq Offer
    BY <2>1, <2>2 DEF Offer, Job
  <2> QED
    BY <1>3, <2>1, <2>2, <2>3 DEF ScanAndOffer, At, Idle, Job
<1>4. ASSUME NEW o \in saving, SaveOffer(o) PROVE Typed'
  <2>1. PICK a : a = [offer |-> o, status |-> "PENDING"]
    OBVIOUS
  <2>2. a \in Assignment
    BY <2>1 DEF Assignment, Status
  <2>3. IsFiniteSet(assignments')
    BY <1>4, FS_AddElement DEF SaveOffer
  <2> QED
    BY <1>4, <2>1, <2>2, <2>3 DEF SaveOffer
<1>5. ASSUME NEW o \in saving, FailSave(o) PROVE Typed'
  <2>1. IsFiniteSet(failed')
    BY <1>5, FS_AddElement DEF FailSave
  <2>2. failed' \subseteq 1..tickets
    BY <1>5 DEF FailSave
  <2> QED
    BY <1>5, <2>1, <2>2 DEF FailSave
<1>6. CASE EndTicket
  <2>1. current.job \in Job
    BY <1>6 DEF EndTicket, AllSaved, Idle, At
  <2>2. PICK j : j = [current.job EXCEPT !.batch = @ + 1]
    OBVIOUS
  <2>3. j \in Job /\ j.ticket = current.job.ticket
    BY <2>1, <2>2 DEF Job
  <2>4. current # Idle
    BY <1>6 DEF EndTicket, AllSaved, Idle, At
  <2> QED
    BY <1>6, <2>2, <2>3, <2>4 DEF EndTicket
<1>7. ASSUME NEW p \in Provider, Notify(p) PROVE Typed'
  <2>1. p \in Task /\ told[p] + 1 \in Nat
    BY DEF Task
  <2> QED
    BY <1>7, <2>1 DEF Notify
<1>8. CASE CancelAssignments
  <2>1. \A a \in Assignment : [a EXCEPT !.status = "CANCELLED"] \in Assignment
    BY DEF Assignment, Status
  <2>2. IsFiniteSet(assignments')
    <3> DEFINE f == [a \in assignments |-> [a EXCEPT !.status = "CANCELLED"]]
    <3>1. assignments' = {f[a] : a \in assignments}
      BY <1>8 DEF CancelAssignments
    <3> HIDE DEF f
    <3>2. IsFiniteSet({f[a] : a \in assignments})
      BY RewrittenFinite
    <3> QED
      BY <3>1, <3>2
  <2> QED
    BY <1>8, <2>1, <2>2 DEF CancelAssignments, Task
<1>9. ASSUME NEW p \in Provider, Accept(p) PROVE Typed'
  <2>1. \A a \in Assignment, s \in Status : [a EXCEPT !.status = s] \in Assignment
    BY DEF Assignment
  <2>2. \A a \in Assignment : a.status \in Status
    BY DEF Assignment
  <2>3. \A a \in Assignment :
          [a EXCEPT !.status = IF a.offer.provider # p THEN "FAILED"
                               ELSE IF @ = "PENDING" THEN "ACCEPTED" ELSE @] \in Assignment
    BY <2>1, <2>2 DEF Status
  <2>4. IsFiniteSet(assignments')
    <3> DEFINE f == [a \in assignments |->
                       [a EXCEPT !.status = IF a.offer.provider # p THEN "FAILED"
                                            ELSE IF @ = "PENDING" THEN "ACCEPTED" ELSE @]]
    <3>1. assignments' = {f[a] : a \in assignments}
      BY <1>9 DEF Accept
    <3> HIDE DEF f
    <3>2. IsFiniteSet({f[a] : a \in assignments})
      BY RewrittenFinite
    <3> QED
      BY <3>1, <3>2
  <2> QED
    BY <1>9, <2>3, <2>4 DEF Accept, Request
<1>10. ASSUME NEW p \in Provider, ChangeStatus(p) PROVE Typed'
  BY <1>10 DEF ChangeStatus, Request
<1>11. CASE GiveUp
  BY <1>11 DEF GiveUp, Request
<1>12. ASSUME NEW s \in Setting, ChangeSetting(s) PROVE Typed'
  BY <1>12 DEF ChangeSetting, Request
<1>13. CASE Crash
  BY <1>13 DEF Crash
<1>14. CASE UNCHANGED vars
  BY <1>14 DEF vars
<1> QED
  BY <1>1, <1>2, <1>3, <1>4, <1>5, <1>6, <1>7, <1>8, <1>9, <1>10, <1>11, <1>12, <1>13, <1>14
     DEF Next, Running, Wait

\* One ticket is to be made, of a job that nobody has.
LEMMA TypedInit == Init => Typed
<1>1. IsFiniteSet({})
  BY FS_EmptySet
<1> QED
  BY <1>1, TicketAssumption DEF Init, Typed, TypeOK, Numbered

\* Everything in the dispatch is always of its type.
LEMMA Typing == Spec => []Typed
BY TypedInit, TypedStep, PTL DEF Spec

\* The queue holds jobs of tickets that were added, the processor at most one of them,
\* and every row of assignments is an offer of a batch to a provider.
THEOREM TypeCorrect == Spec => []TypeOK
<1>1. Typed => TypeOK
  BY DEF Typed
<1> QED
  BY <1>1, Typing, PTL

------------------------------------------------------------------------------
(* Offers of a job that somebody has *)

\* A job is taken when nothing runs, and then all that is to come of its tickets is that
\* they find it taken.
TakenIsQuiet ==
  taken # NoProvider =>
    current = Idle /\ saving = {} /\ \A a \in assignments : a.status # "PENDING"

\* Handing out a job that is taken ends with Accept: nothing that goes on then makes
\* another offer pending.
LEMMA TakenIsQuietStep ==
  ASSUME Serial = TRUE
  PROVE  Typed /\ TakenIsQuiet /\ [Next]_vars => TakenIsQuiet'
<1> SUFFICES ASSUME Typed, TakenIsQuiet, [Next]_vars PROVE TakenIsQuiet'
  OBVIOUS
<1> USE DEF TakenIsQuiet
<1>1. CASE taken' = NoProvider
  BY <1>1
<1>2. ASSUME NEW p \in Provider, Accept(p) PROVE TakenIsQuiet'
  <2>1. current = Idle /\ saving = {}
    BY <1>2 DEF Accept, Request, Still
  <2>2. ASSUME NEW a \in assignments, NEW b,
               b = [a EXCEPT !.status = IF a.offer.provider # p THEN "FAILED"
                             ELSE IF @ = "PENDING" THEN "ACCEPTED" ELSE @]
        PROVE  b.status # "PENDING"
    BY <2>2 DEF Typed, TypeOK, Assignment
  <2> QED
    BY <1>2, <2>1, <2>2 DEF Accept
<1>3. ASSUME NEW job \in queue, StartTicket(job) PROVE TakenIsQuiet'
  BY <1>3 DEF StartTicket, ExitAsTaken
<1>4. CASE CancelAssignments
  <2>1. ASSUME NEW a \in assignments, NEW b, b = [a EXCEPT !.status = "CANCELLED"]
        PROVE  b.status # "PENDING"
    BY <2>1 DEF Typed, TypeOK, Assignment
  <2> QED
    BY <1>4, <2>1 DEF CancelAssignments
<1>5. ASSUME NEW o \in saving, SaveOffer(o) \/ FailSave(o) PROVE TakenIsQuiet'
  BY <1>5 DEF SaveOffer, FailSave
<1>6. CASE ScanAndOffer \/ EndTicket
  BY <1>6 DEF ScanAndOffer, EndTicket, AllSaved, Idle, At
<1>7. CASE InitiateAutoAssignment \/ GiveUp
  BY <1>1, <1>7 DEF InitiateAutoAssignment, GiveUp
<1>8. CASE Crash \/ UNCHANGED vars
  BY <1>8 DEF Crash, vars
<1>9. ASSUME NEW p \in Provider, Notify(p) \/ ChangeStatus(p) PROVE TakenIsQuiet'
  BY <1>9 DEF Notify, ChangeStatus
<1>10. ASSUME NEW s \in Setting, ChangeSetting(s) PROVE TakenIsQuiet'
  BY <1>10 DEF ChangeSetting
<1> QED
  BY <1>2, <1>3, <1>4, <1>5, <1>6, <1>7, <1>8, <1>9, <1>10 DEF Next, Running, Wait

\* A job that somebody has is in nobody's feed of new jobs, with any number of batches to
\* come: requests are made when the processor rests, as in the run.
THEOREM OffersEnd ==
  ASSUME Serial = TRUE
  PROVE  Spec => []OffersEndWithTheJob
<1>1. Init => TakenIsQuiet
  BY DEF Init, TakenIsQuiet
<1>2. Typed /\ TakenIsQuiet /\ [Next]_vars => TakenIsQuiet'
  BY TakenIsQuietStep
<1>3. TakenIsQuiet => OffersEndWithTheJob
  BY DEF TakenIsQuiet, OffersEndWithTheJob, NewJobs
<1> QED
  BY <1>1, <1>2, <1>3, Typing, PTL DEF Spec

------------------------------------------------------------------------------
(* Notices of the offers *)

Theirs(p) == {o \in Offers : o.provider = p}

\* A batch of a ticket is offered once: the offers made are of batches before that of the
\* job that waits or is scanned, and a ticket has one job.
Once ==
  /\ \A i, j \in queue : i.ticket = j.ticket => i = j
  /\ current # Idle => \A j \in queue : j.ticket # current.job.ticket
  /\ \A o \in saving \cup Offers :
       /\ o.ticket <= tickets
       /\ \A j \in queue : o.ticket = j.ticket => o.batch < j.batch
       /\ current.pc = "scan" /\ o.ticket = current.job.ticket => o.batch < current.job.batch
       /\ current.pc = "offer" /\ o.ticket = current.job.ticket => o.batch <= current.job.batch
  /\ saving \cap Offers = {}

\* Of each offer that was saved the provider has been told, or the notice is to do.
Noticed == \A p \in Provider : told[p] + todo[p] = Cardinality(Theirs(p))

ToldInv == crashes = 0 => Once /\ Noticed

\* The offers are finitely many and of providers.
LEMMA OffersType ==
  ASSUME Typed
  PROVE  Offers \subseteq Offer /\ IsFiniteSet(Offers)
<1>1. Offers \subseteq Offer
  BY DEF Typed, TypeOK, Assignment, Offers
<1> DEFINE f == [a \in assignments |-> a.offer]
<1>2. Offers = {f[a] : a \in assignments}
  BY DEF Offers
<1> HIDE DEF f
<1>3. IsFiniteSet({f[a] : a \in assignments})
  BY RewrittenFinite DEF Typed
<1> QED
  BY <1>1, <1>2, <1>3

\* Taking a notice or leaving it: what a step that makes none does to the counts.
LEMMA NotNoticed ==
  ASSUME Typed, Noticed, UNCHANGED told, Offers' = Offers, \A p \in Provider : todo'[p] = todo[p]
  PROVE  Noticed'
BY DEF Noticed, Theirs

\* Going on with other things than offers, tickets or batches.
LEMMA OnceStays ==
  ASSUME Once, UNCHANGED <<queue, current, saving, tickets>>, Offers' = Offers
  PROVE  Once'
BY DEF Once

\* Accept and the withdrawal of the offers change their status and nothing else.
LEMMA SameOffers ==
  ASSUME Typed,
         \/ CancelAssignments
         \/ \E p \in Provider : Accept(p)
  PROVE  Offers' = Offers
<1>1. ASSUME NEW f, assignments' = {f[a] : a \in assignments},
             \A a \in assignments : f[a].offer = a.offer
      PROVE  Offers' = Offers
  BY <1>1 DEF Offers
<1>2. \A a \in assignments : \A s : [a EXCEPT !.status = s].offer = a.offer
  BY DEF Typed, TypeOK, Assignment
<1>3. CASE CancelAssignments
  <2> DEFINE f == [a \in assignments |-> [a EXCEPT !.status = "CANCELLED"]]
  <2>1. assignments' = {f[a] : a \in assignments}
    BY <1>3 DEF CancelAssignments
  <2>2. \A a \in assignments : f[a].offer = a.offer
    BY <1>2
  <2> HIDE DEF f
  <2> QED
    BY <1>1, <2>1, <2>2
<1>4. ASSUME NEW p \in Provider, Accept(p) PROVE Offers' = Offers
  <2> DEFINE f == [a \in assignments |->
                     [a EXCEPT !.status = IF a.offer.provider # p THEN "FAILED"
                                          ELSE IF @ = "PENDING" THEN "ACCEPTED" ELSE @]]
  <2>1. assignments' = {f[a] : a \in assignments}
    BY <1>4 DEF Accept
  <2>2. \A a \in assignments : f[a].offer = a.offer
    BY <1>2
  <2> HIDE DEF f
  <2> QED
    BY <1>1, <2>1, <2>2
<1> QED
  BY <1>3, <1>4

\* The jobs: a ticket has one, and its batches are counted up.
LEMMA OnceStep ==
  ASSUME Typed, Typed', Once, crashes' = 0, [Next]_vars
  PROVE  Once'
<1> USE DEF Typed, TypeOK
<1>1. Offers \subseteq Offer
  BY OffersType
<1>2. CASE InitiateAutoAssignment
  <2>1. PICK job : job = [ticket |-> tickets + 1, batch |-> 1, setting |-> setting]
    OBVIOUS
  <2>2. job.ticket = tickets + 1
    BY <2>1
  <2>3. UNCHANGED <<current, saving>> /\ Offers' = Offers /\ queue' = queue \cup {job}
    BY <1>2, <2>1 DEF InitiateAutoAssignment, Offers
  <2>4. tickets' = tickets + 1
    BY <1>2 DEF InitiateAutoAssignment
  <2>5. \A o \in saving \cup Offers : o.ticket <= tickets /\ o.ticket \in Nat
    BY <1>1 DEF Once, Offer
  <2>6. \A j \in queue : j.ticket <= tickets /\ j.ticket \in Nat
    BY DEF Numbered, Job
  <2>7. current # Idle => current.job.ticket <= tickets /\ current.job.ticket \in Nat
    BY DEF Numbered, Job
  <2> QED
    BY <2>2, <2>3, <2>4, <2>5, <2>6, <2>7 DEF Once
<1>3. ASSUME NEW job \in queue, StartTicket(job) PROVE Once'
  <2>1. At("scan", job) # Idle /\ At("scan", job).pc = "scan" /\ At("scan", job).job = job
        /\ Idle.pc = "idle" /\ current = Idle
    BY <1>3 DEF At, Idle, StartTicket
  <2>2. Offers' = Offers
    BY <1>3 DEF StartTicket, Offers
  <2> QED
    BY <1>3, <2>1, <2>2 DEF StartTicket, Once
<1>4. CASE ScanAndOffer
  <2>1. PICK job \in Job : current.job = job /\ current.pc = "scan" /\ current # Idle
    BY <1>4 DEF ScanAndOffer, At, Idle
  <2>2. PICK new : new = [ticket : {job.ticket}, batch : {job.batch},
                          provider : Scan(job.setting.zone)]
    OBVIOUS
  <2>3. \A o \in new : o.ticket = job.ticket /\ o.batch = job.batch
    BY <2>2
  <2>4. saving' = saving \cup new /\ current' = At("offer", job) /\ Offers' = Offers
        /\ UNCHANGED <<queue, tickets>>
    BY <1>4, <2>1, <2>2 DEF ScanAndOffer, Offers
  <2>5. current'.pc = "offer" /\ current'.job = job
    BY <2>4 DEF At
  <2>6. new \cap Offers = {}
    <3>1. ASSUME NEW o \in Offers, o.ticket = job.ticket PROVE o.batch < job.batch
      BY <2>1, <3>1 DEF Once
    <3> QED
      BY <2>3, <3>1 DEF Job
  <2>7. \A o \in saving \cup Offers : o.batch \in Nat
    BY <1>1 DEF Offer
  <2>8. job.ticket <= tickets
    BY <2>1 DEF Numbered
  <2> QED
    BY <2>1, <2>3, <2>4, <2>5, <2>6, <2>7, <2>8 DEF Once, Job
<1>5. ASSUME NEW o \in saving, SaveOffer(o) PROVE Once'
  <2>1. Offers' = Offers \cup {o}
    <3>1. PICK a : a = [offer |-> o, status |-> "PENDING"]
      OBVIOUS
    <3>2. a.offer = o
      BY <3>1
    <3> QED
      BY <1>5, <3>1, <3>2 DEF SaveOffer, Offers
  <2> QED
    BY <1>5, <2>1 DEF SaveOffer, Once
<1>6. ASSUME NEW o \in saving, FailSave(o) PROVE Once'
  <2>1. Offers' = Offers /\ Idle.pc = "idle"
    BY <1>6 DEF FailSave, Offers, Idle, At
  <2> QED
    BY <1>6, <2>1 DEF FailSave, Once
<1>7. CASE EndTicket
  <2>1. PICK job \in Job : current.job = job /\ current.pc = "offer" /\ current # Idle
    BY <1>7 DEF EndTicket, AllSaved, At, Idle
  <2>2. PICK j : j = [job EXCEPT !.batch = @ + 1]
    OBVIOUS
  <2>3. j.ticket = job.ticket /\ j.batch = job.batch + 1
    BY <2>2 DEF Job
  <2>4. Idle.pc = "idle" /\ current' = Idle /\ Offers' = Offers /\ UNCHANGED <<saving, tickets>>
    BY <1>7 DEF EndTicket, Idle, At, Offers
  <2>5. queue' = queue \/ queue' = queue \cup {j}
    BY <1>7, <2>1, <2>2 DEF EndTicket
  <2>6. \A o \in saving \cup Offers : o.ticket = job.ticket => o.batch < j.batch
    BY <1>1, <2>1, <2>3 DEF Once, Offer, Job
  <2> QED
    BY <2>1, <2>3, <2>4, <2>5, <2>6 DEF Once
<1>8. CASE CancelAssignments
  BY <1>8, SameOffers, OnceStays DEF CancelAssignments
<1>9. ASSUME NEW p \in Provider, Accept(p) PROVE Once'
  BY <1>9, SameOffers, OnceStays DEF Accept
<1>10. CASE GiveUp \/ UNCHANGED vars
  BY <1>10, OnceStays DEF GiveUp, vars, Offers
<1>11. ASSUME NEW p \in Provider, Notify(p) \/ ChangeStatus(p) PROVE Once'
  BY <1>11, OnceStays DEF Notify, ChangeStatus, Offers
<1>12. ASSUME NEW s \in Setting, ChangeSetting(s) PROVE Once'
  BY <1>12, OnceStays DEF ChangeSetting, Offers
<1>13. ~Crash
  BY DEF Crash
<1> QED
  BY <1>2, <1>3, <1>4, <1>5, <1>6, <1>7, <1>8, <1>9, <1>10, <1>11, <1>12, <1>13
     DEF Next, Running, Wait

\* The notices: an offer that is saved is a new one, and is to be told of.
LEMMA NoticedStep ==
  ASSUME Typed, Typed', Once, Noticed, crashes' = 0, [Next]_vars
  PROVE  Noticed'
<1> USE DEF Typed, TypeOK
<1>1. Provider \subseteq Task /\ "cancelAssignments" \notin Provider /\ "initiateAutoAssignment" \notin Provider
  BY TicketAssumption DEF Task
<1>2. CASE InitiateAutoAssignment
  BY <1>1, <1>2, NotNoticed DEF InitiateAutoAssignment, Take, Task, Offers
<1>3. ASSUME NEW job \in queue, StartTicket(job) PROVE Noticed'
  BY <1>3, NotNoticed DEF StartTicket, Offers
<1>4. CASE ScanAndOffer \/ EndTicket \/ UNCHANGED vars
  BY <1>4, NotNoticed DEF ScanAndOffer, EndTicket, vars, Offers
<1>5. ASSUME NEW o \in saving, SaveOffer(o) PROVE Noticed'
  <2>1. Offers' = Offers \cup {o} /\ o \notin Offers /\ o \in Offer
    <3>1. PICK a : a = [offer |-> o, status |-> "PENDING"]
      OBVIOUS
    <3>2. a.offer = o
      BY <3>1
    <3> QED
      BY <1>5, <3>1, <3>2 DEF SaveOffer, Offers, Once
  <2>2. ASSUME NEW p \in Provider PROVE (told[p] + todo[p] = Cardinality(Theirs(p)))'
    <3>1. told'[p] = told[p] /\ told[p] \in Nat /\ todo[p] \in Nat
          /\ told[p] + todo[p] = Cardinality(Theirs(p))
      BY <1>1, <1>5 DEF SaveOffer, Noticed
    <3>2. todo'[p] = IF p = o.provider THEN todo[p] + 1 ELSE todo[p]
      BY <1>1, <1>5 DEF SaveOffer, Publish
    <3>3. IsFiniteSet(Theirs(p))
      BY OffersType, FS_Subset DEF Theirs
    <3>4. CASE p = o.provider
      <4>1. Theirs(p)' = Theirs(p) \cup {o} /\ o \notin Theirs(p)
        BY <2>1, <3>4 DEF Theirs
      <4>2. Cardinality(Theirs(p))' = Cardinality(Theirs(p)) + 1
        BY <3>3, <4>1, FS_AddElement
      <4> QED
        BY <3>1, <3>2, <3>4, <4>2
    <3>5. CASE p # o.provider
      <4>1. Theirs(p)' = Theirs(p)
        BY <2>1, <3>5 DEF Theirs
      <4> QED
        BY <3>1, <3>2, <3>5, <4>1
    <3> QED
      BY <3>4, <3>5
  <2> QED
    BY <2>2 DEF Noticed
<1>6. ASSUME NEW o \in saving, FailSave(o) PROVE Noticed'
  BY <1>6, NotNoticed DEF FailSave, Offers
<1>7. ASSUME NEW p \in Provider, Notify(p) PROVE Noticed'
  <2>1. Offers' = Offers
    BY <1>7 DEF Notify, Offers
  <2>2. ASSUME NEW q \in Provider PROVE told'[q] + todo'[q] = told[q] + todo[q]
    <3>1. told[q] \in Nat /\ todo[q] \in Nat
      BY <1>1
    <3>2. CASE q = p
      BY <1>1, <1>7, <3>1, <3>2 DEF Notify, Take
    <3>3. CASE q # p
      BY <1>1, <1>7, <3>1, <3>3 DEF Notify, Take
    <3> QED
      BY <3>2, <3>3
  <2> QED
    BY <2>1, <2>2 DEF Noticed, Theirs
<1>8. CASE CancelAssignments
  BY <1>1, <1>8, SameOffers, NotNoticed DEF CancelAssignments, Take, Task
<1>9. ASSUME NEW p \in Provider, Accept(p) PROVE Noticed'
  BY <1>9, SameOffers, NotNoticed DEF Accept
<1>10. CASE GiveUp
  BY <1>1, <1>10, NotNoticed DEF GiveUp, Publish, Offers
<1>11. ASSUME NEW p \in Provider, ChangeStatus(p) PROVE Noticed'
  BY <1>11, NotNoticed DEF ChangeStatus, Offers
<1>12. ASSUME NEW s \in Setting, ChangeSetting(s) PROVE Noticed'
  BY <1>12, NotNoticed DEF ChangeSetting, Offers
<1>13. ~Crash
  BY DEF Crash
<1> QED
  BY <1>2, <1>3, <1>4, <1>5, <1>6, <1>7, <1>8, <1>9, <1>10, <1>11, <1>12, <1>13
     DEF Next, Running, Wait

\* Only a crash is counted.
LEMMA CrashIsCounted ==
  ASSUME Typed, [Next]_vars, crashes' = 0
  PROVE  crashes = 0
<1>1. crashes \in Nat
  BY DEF Typed, TypeOK
<1>2. ~Crash
  BY <1>1 DEF Crash
<1> QED
  BY <1>2 DEF Next, Running, Wait, vars, InitiateAutoAssignment, StartTicket, ScanAndOffer, SaveOffer,
     FailSave, EndTicket, Notify, CancelAssignments, Accept, GiveUp, ChangeStatus, ChangeSetting

\* As many notices as offers, for each provider: no batch is offered twice, no notice is
\* of an offer that failed to be saved, and none is left out, as long as the process is
\* not restarted.
THEOREM OfferedAreTold == Spec => []TheOfferedAreTold
<1>1. Init => ToldInv
  <2> SUFFICES ASSUME Init PROVE Once /\ Noticed
    BY DEF ToldInv
  <2>1. Offers = {} /\ Idle.pc = "idle"
    BY DEF Init, Offers, Idle, At
  <2>2. Once
    BY <2>1 DEF Init, Once
  <2>3. ASSUME NEW p \in Provider PROVE told[p] + todo[p] = Cardinality(Theirs(p))
    <3>1. Theirs(p) = {} /\ Cardinality({}) = 0
      BY <2>1, FS_EmptySet DEF Theirs
    <3>2. told[p] = 0 /\ todo[p] = 0
      BY TicketAssumption DEF Init, Task
    <3> QED
      BY <3>1, <3>2
  <2> QED
    BY <2>2, <2>3 DEF Noticed
<1>2. Typed /\ Typed' /\ ToldInv /\ [Next]_vars => ToldInv'
  BY CrashIsCounted, OnceStep, NoticedStep DEF ToldInv
<1>3. Typed /\ ToldInv => TheOfferedAreTold
  <2> SUFFICES ASSUME Typed, Noticed, Still, NEW p \in Provider PROVE told[p] = Cardinality(Theirs(p))
    BY DEF ToldInv, TheOfferedAreTold, Theirs
  <2>1. todo[p] = 0 /\ told[p] \in Nat
    BY DEF Still, NothingTodo, Task, Typed, TypeOK
  <2> QED
    BY <2>1 DEF Noticed
<1> QED
  BY <1>1, <1>2, <1>3, Typing, PTL DEF Spec
=============================================================================
