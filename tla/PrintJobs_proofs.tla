-------------------------- MODULE PrintJobs_proofs --------------------------
(***************************************************************************)
(* The invariants of PrintJobs.tla for any number of jobs, tasks, retries  *)
(* and deaths, and that what it does to its tasks is what the abstract     *)
(* queue allows. One worker is assumed, as PrintJobsAssumption says.       *)
(***************************************************************************)
EXTENDS PrintJobs, AtLeastOnceQueue_proofs, FiniteSetTheorems

CupsStates == CupsActive \cup {"canceled", "aborted", "completed"}
IsPrint(t) == work[t].kind = "print"
IsCommand(t) == work[t].kind = "print_job_command"
Handles(t) == phase[t] = "executing"

CupsJobs == [task : Tasks, state : CupsStates]

\* CUPS numbers its jobs from 1 and forgets none.
CupsNumbered == cups \in Seq(CupsJobs)

LossesCounted == \A t \in Tasks : lost[t] <= exits

\* A row has a payload from its enqueueing on.
WorkFits == \A t \in Tasks : phase[t] = "absent" <=> work[t] = NoWork

\* A task is about a job that was created, and so is a request in flight.
RowsExist ==
    /\ \A t \in Tasks : IsPrint(t) \/ IsCommand(t) => jobState[work[t].job] # "absent"
    /\ \A j \in inFlight : jobState[j] # "absent"

\* pc is a place in the handler of the task that executes.
PcFits ==
    /\ pc = "idle" <=> \A t \in Tasks : ~Handles(t)
    /\ \A t \in Tasks : Handles(t) =>
         \/ IsPrint(t) /\ pc \in {"begin", "converting", "submitted", "return", "raise"}
         \/ IsCommand(t) /\ pc \in {"begin", "return", "raise"}
         \/ IsCommand(t) /\ pc = "reset" /\ work[t].command = "retry"
         \/ IsCommand(t) /\ pc = "commanded" /\ work[t].command # "retry"

\* The document that the running handler has handed over is the newest CUPS job.
SubmittedFits ==
    \A t \in Tasks : Handles(t) /\ pc = "submitted" =>
        Len(cups) > 0 /\ cups[Len(cups)].task = t

\* A row points to a CUPS job that a print task of its own has made.
TrackedIsOwn == \A j \in Jobs : Tracked(j) => work[cups[cupsId[j]].task] = PrintOf(j)

\* A command that CUPS has obeyed was for a job the row points to.
CommandFits ==
    \A t \in Tasks : Handles(t) /\ pc = "commanded" =>
        /\ Tracked(work[t].job)
        /\ work[t].command = "cancel" => cups[cupsId[work[t].job]].state = "canceled"

\* A handler that is over has left the job to somebody else.
EndsWaiting ==
    \A t \in Tasks : Handles(t) /\ pc \in {"return", "raise"} =>
        /\ IsPrint(t) => jobState[work[t].job] \in {"submitted", "cancelled", "failed"}
        /\ IsCommand(t) /\ work[t].command = "retry" =>
             IF pc = "return" THEN LivePrints(work[t].job) # {} ELSE source[work[t].job] # "kept"

\* What the row of a task allows its executions to have submitted.
Allowed(t) ==
    IF phase[t] = "complete" \/ (Handles(t) /\ pc \in {"submitted", "return"})
    THEN lost[t] + 1 ELSE lost[t]

SubmittedOnce ==
    \A t \in Tasks : /\ Cardinality(MadeBy(t)) <= Allowed(t)
                     /\ MadeBy(t) # {} => IsPrint(t)

IInv ==
    /\ QueueOK /\ TypeOK /\ CupsNumbered /\ LossesCounted
    /\ WorkFits /\ RowsExist /\ PcFits
    /\ SubmittedFits /\ TrackedIsOwn /\ CommandFits /\ EndsWaiting
    /\ WaitingHasTask /\ CancelSticks /\ ShownStateIsTracked /\ SubmittedOnce
-----------------------------------------------------------------------------
(* The payloads.                                                           *)

LEMMA ContentFields ==
    /\ NoWork.kind = "none"
    /\ \A j \in Jobs : PrintOf(j).kind = "print" /\ PrintOf(j).job = j
    /\ \A j \in Jobs, c \in Commands :
         /\ CommandOf(j, c).kind = "print_job_command"
         /\ CommandOf(j, c).job = j /\ CommandOf(j, c).command = c
BY DEF NoWork, PrintOf, CommandOf

\* The kind of a payload tells what it is made of.
LEMMA ContentKinds ==
    ASSUME NEW x \in Contents
    PROVE  /\ x.kind = "print" => \E j \in Jobs : x = PrintOf(j) /\ x.job = j
           /\ x.kind = "print_job_command" => \E j \in Jobs, c \in Commands :
                x = CommandOf(j, c) /\ x.job = j /\ x.command = c
           /\ x # NoWork <=> x.kind \in {"print", "print_job_command"}
<1>1. CASE x = NoWork
  BY <1>1, ContentFields
<1>2. ASSUME NEW j \in Jobs, x = PrintOf(j)
      PROVE  x.kind = "print" /\ x.job = j
  BY <1>2, ContentFields
<1>3. ASSUME NEW j \in Jobs, NEW c \in Commands, x = CommandOf(j, c)
      PROVE  x.kind = "print_job_command" /\ x.job = j /\ x.command = c
  BY <1>3, ContentFields
<1>4. NoWork.kind = "none"
  BY ContentFields
<1> QED BY <1>1, <1>2, <1>3, <1>4 DEF Contents

LEMMA WorkIsContent ==
    ASSUME TypeOK
    PROVE  /\ work \in [Tasks -> Contents]
           /\ \A t \in Tasks : IsPrint(t) \/ IsCommand(t) => work[t].job \in Jobs
           /\ \A t \in Tasks : IsCommand(t) => work[t].command \in Commands
           /\ \A t \in Tasks : work[t] # NoWork <=> IsPrint(t) \/ IsCommand(t)
<1>1. work \in [Tasks -> Contents]
  BY DEF TypeOK
<1> QED BY <1>1, ContentKinds DEF IsPrint, IsCommand

\* The place in the handler says which kind of task executes.
LEMMA HandlerHasJob ==
    ASSUME TypeOK, PcFits, NEW t \in Tasks, Handles(t)
    PROVE  /\ work[t].job \in Jobs
           /\ IsCommand(t) => work[t].command \in Commands
BY WorkIsContent DEF PcFits

-----------------------------------------------------------------------------
(* Types.                                                                  *)

\* What Task.enqueue leaves behind.
LEMMA EnqueueEffect ==
    ASSUME TypeOK, QueueOK, WorkFits, NEW content \in Contents \ {NoWork}, Enqueue(content)
    PROVE  \E t \in Tasks :
             /\ Submit(t) /\ QueueOK'
             /\ phase[t] = "absent" /\ phase'[t] = "waiting" /\ work[t] = NoWork
             /\ work' = [work EXCEPT ![t] = content]
             /\ work' \in [Tasks -> Contents] /\ work'[t] = content
             /\ \A u \in Tasks : u # t => phase'[u] = phase[u] /\ work'[u] = work[u]
             /\ \A u \in Tasks : Handles(u)' <=> Handles(u)
             /\ WorkFits'
<1> PICK t \in Tasks : Submit(t) /\ work' = [work EXCEPT ![t] = content]
  BY DEF Enqueue, Free
<1>1. work \in [Tasks -> Contents]
  BY WorkIsContent
<1>2. QueueOK'
  BY SubmitKeeps
<1>3. /\ phase[t] = "absent" /\ phase'[t] = "waiting"
      /\ \A u \in Tasks : u # t => phase'[u] = phase[u]
  BY SubmitPhases
<1>4. /\ work' \in [Tasks -> Contents] /\ work'[t] = content
      /\ \A u \in Tasks : u # t => work'[u] = work[u]
  BY <1>1
<1>5. \A u \in Tasks : Handles(u)' <=> Handles(u)
  BY <1>3 DEF Handles
<1>6. WorkFits'
  BY <1>3, <1>4 DEF WorkFits
<1> QED BY <1>2, <1>3, <1>4, <1>5, <1>6 DEF WorkFits

RowsTyped ==
    /\ jobState \in [Jobs -> JobStates]
    /\ cupsId \in [Jobs -> 0..Len(cups)]
    /\ cancelRequested \in [Jobs -> BOOLEAN]
    /\ source \in [Jobs -> {"kept", "unlinked", "cleared"}]

LEMMA CupsJobTyped ==
    ASSUME CupsNumbered, NEW i \in DOMAIN cups
    PROVE  cups[i].task \in Tasks /\ cups[i].state \in CupsStates
<1>1. cups[i] \in CupsJobs
  BY DEF CupsNumbered
<1> QED BY <1>1 DEF CupsJobs

\* CUPS gives a job another state.
LEMMA CupsUpdate ==
    ASSUME CupsNumbered, NEW i \in DOMAIN cups, NEW s \in CupsStates,
           cups' = [cups EXCEPT ![i].state = s]
    PROVE  /\ CupsNumbered' /\ Len(cups') = Len(cups) /\ DOMAIN cups' = DOMAIN cups
           /\ cups'[i].state = s
           /\ \A k \in DOMAIN cups : cups'[k].task = cups[k].task
           /\ \A k \in DOMAIN cups : k # i => cups'[k].state = cups[k].state
<1> DEFINE new == [cups[i] EXCEPT !.state = s]
<1>1. cups \in Seq(CupsJobs) /\ cups[i] \in CupsJobs
  BY DEF CupsNumbered
<1>2. new \in CupsJobs /\ new.task = cups[i].task /\ new.state = s
  BY <1>1 DEF CupsJobs
<1>3. cups' = [cups EXCEPT ![i] = new]
  OBVIOUS
<1> HIDE DEF new
<1>4. cups' \in Seq(CupsJobs) /\ Len(cups') = Len(cups) /\ DOMAIN cups' = DOMAIN cups
  BY <1>1, <1>2, <1>3
<1>5. cups'[i] = new /\ \A k \in DOMAIN cups : k # i => cups'[k] = cups[k]
  BY <1>3
<1> QED BY <1>2, <1>4, <1>5 DEF CupsNumbered

\* CUPS takes a new job.
LEMMA CupsAppend ==
    ASSUME CupsNumbered, NEW t \in Tasks, NEW s \in CupsStates,
           cups' = Append(cups, [task |-> t, state |-> s])
    PROVE  /\ CupsNumbered' /\ Len(cups') = Len(cups) + 1
           /\ DOMAIN cups' = DOMAIN cups \cup {Len(cups')}
           /\ cups'[Len(cups')].task = t
           /\ \A k \in DOMAIN cups : cups'[k] = cups[k]
<1> DEFINE new == [task |-> t, state |-> s]
<1>1. new \in CupsJobs /\ new.task = t
  BY DEF CupsJobs
<1>2. cups \in Seq(CupsJobs) /\ cups' = Append(cups, new)
  BY DEF CupsNumbered
<1> HIDE DEF new
<1> QED BY <1>1, <1>2 DEF CupsNumbered

\* Four kinds of steps are all that happens to CUPS.
LEMMA CupsSteps ==
    ASSUME [Next]_vars
    PROVE  \/ UNCHANGED cups
           \/ \E t \in Tasks : PrintSubmit(t) \/ CommandCups(t)
           \/ \E i \in DOMAIN cups : CupsWorks(i)
<1>1. ASSUME NEW j \in Jobs,
             \/ CreateJob(j) \/ EnqueuePrint(j) \/ RequestDies(j)
             \/ \E c \in Commands : RequestCommand(j, c)
             \/ SyncJob(j) \/ CleanupJob(j)
      PROVE  UNCHANGED cups
  BY <1>1 DEF CreateJob, EnqueuePrint, RequestDies, RequestCommand, SyncJob, CleanupJob
<1>2. ASSUME NEW t \in Tasks, StartTask(t) \/ WorkerDies(t) \/ EndTask(t) PROVE UNCHANGED cups
  BY <1>2 DEF StartTask, WorkerDies, EndTask
<1>3. ASSUME NEW t \in Tasks,
             \/ PrintCancelled(t) \/ PrintConverting(t) \/ PrintSubmitted(t) \/ PrintFails(t)
             \/ RetryReset(t) \/ RetryRefused(t) \/ RetryEnqueue(t)
             \/ CommandRefused(t) \/ CommandSaved(t) \/ CancelWaiting(t) \/ CommandIgnored(t)
      PROVE  UNCHANGED cups
  BY <1>3 DEF PrintCancelled, PrintConverting, PrintSubmitted, PrintFails, RetryReset,
              RetryRefused, RetryEnqueue, CommandRefused, CommandSaved, CancelWaiting,
              CommandIgnored
<1>4. CASE UNCHANGED vars
  BY <1>4 DEF vars
<1> QED BY <1>1, <1>2, <1>3, <1>4 DEF Next, HandlerStep

\* What any step leaves of the CUPS jobs: finished ones stay as they are.
LEMMA CupsKept ==
    ASSUME TypeOK, PcFits, CupsNumbered, [Next]_vars
    PROVE  /\ CupsNumbered' /\ Len(cups') >= Len(cups)
           /\ \A k \in DOMAIN cups :
                /\ k \in DOMAIN cups' /\ cups'[k].task = cups[k].task
                /\ cups[k].state \notin CupsActive => cups'[k].state = cups[k].state
<1>1. CASE UNCHANGED cups
  BY <1>1 DEF CupsNumbered
<1>2. ASSUME NEW t \in Tasks, PrintSubmit(t)
      PROVE  /\ CupsNumbered' /\ Len(cups') = Len(cups) + 1
             /\ \A k \in DOMAIN cups : k \in DOMAIN cups' /\ cups'[k] = cups[k]
  BY <1>2, CupsAppend DEF PrintSubmit, CupsStates, CupsActive
<1>3. ASSUME NEW t \in Tasks, CommandCups(t)
      PROVE  \E i \in DOMAIN cups, s \in CupsStates :
               cups[i].state \in CupsActive /\ cups' = [cups EXCEPT ![i].state = s]
  <2> DEFINE i == cupsId[work[t].job]
             s == AfterCommand(cups[i].state, work[t].command)
  <2>1. work[t].job \in Jobs /\ work[t].command \in Commands \ {"retry"}
    BY <1>3, WorkIsContent DEF CommandCups, Running, IsCommand
  <2>2. i \in DOMAIN cups /\ cups[i].state \in CupsActive
    BY <1>3, <2>1 DEF CommandCups, TypeOK, CupsNumbered
  <2>3. s \in CupsStates
    BY <2>1, <2>2 DEF AfterCommand, Commands, CupsActive, CupsStates
  <2> QED BY <1>3, <2>2, <2>3 DEF CommandCups
<1>4. ASSUME NEW i \in DOMAIN cups, CupsWorks(i)
      PROVE  \E s \in CupsStates :
               cups[i].state \in CupsActive /\ cups' = [cups EXCEPT ![i].state = s]
  BY <1>4 DEF CupsWorks, CupsStates, CupsActive
<1>5. ASSUME NEW i \in DOMAIN cups, NEW s \in CupsStates,
             cups[i].state \in CupsActive, cups' = [cups EXCEPT ![i].state = s]
      PROVE  /\ CupsNumbered' /\ Len(cups') = Len(cups)
             /\ \A k \in DOMAIN cups :
                /\ k \in DOMAIN cups' /\ cups'[k].task = cups[k].task
                /\ cups[k].state \notin CupsActive => cups'[k].state = cups[k].state
  BY <1>5, CupsUpdate
<1>6. Len(cups) \in Nat
  BY DEF CupsNumbered
<1> QED BY <1>1, <1>2, <1>3, <1>4, <1>5, <1>6, CupsSteps
\* Every step leaves rows, tasks and the places in the handlers of their types.
LEMMA TypesInductive ==
    ASSUME IInv, [Next]_vars
    PROVE  QueueOK' /\ TypeOK' /\ CupsNumbered' /\ LossesCounted'
<1> USE PrintJobsAssumption DEF IInv
<1>1. /\ work \in [Tasks -> Contents] /\ RowsTyped /\ pc \in PCs
      /\ inFlight \subseteq Jobs /\ dropped \subseteq Jobs
      /\ exits \in 0..MaxExits /\ lost \in [Tasks -> 0..MaxExits]
  BY DEF TypeOK, RowsTyped
<1>2. CupsNumbered' /\ Len(cups') >= Len(cups) /\ Len(cups) \in Nat /\ Len(cups') \in Nat
  BY CupsKept DEF CupsNumbered
<1> DEFINE Rest == /\ QueueOK' /\ RowsTyped' /\ work' \in [Tasks -> Contents] /\ pc' \in PCs
                   /\ inFlight' \subseteq Jobs /\ dropped' \subseteq Jobs
                   /\ exits' \in 0..MaxExits /\ lost' \in [Tasks -> 0..MaxExits]
                   /\ LossesCounted'
<1>3. UNCHANGED <<cupsId>> => cupsId' \in [Jobs -> 0..Len(cups')]
  BY <1>1, <1>2 DEF RowsTyped
<1>4. ASSUME NEW j \in Jobs, CreateJob(j) PROVE Rest
  BY <1>1, <1>3, <1>4, StutterKeeps DEF CreateJob, Set, RowsTyped, JobStates, LossesCounted
<1>5. ASSUME NEW j \in Jobs, EnqueuePrint(j) PROVE Rest
  <2>1. PrintOf(j) \in Contents \ {NoWork}
    BY ContentFields DEF Contents
  <2>2. QueueOK' /\ work' \in [Tasks -> Contents]
    BY <1>5, <2>1, EnqueueEffect DEF EnqueuePrint
  <2> QED BY <1>1, <1>3, <1>5, <2>2 DEF EnqueuePrint, RowsTyped, jobVars, LossesCounted
<1>6. ASSUME NEW j \in Jobs, RequestDies(j) PROVE Rest
  BY <1>1, <1>3, <1>6, StutterKeeps DEF RequestDies, RowsTyped, jobVars, LossesCounted
<1>7. ASSUME NEW j \in Jobs, NEW c \in Commands, RequestCommand(j, c) PROVE Rest
  <2>1. CommandOf(j, c) \in Contents \ {NoWork}
    BY ContentFields DEF Contents
  <2>2. QueueOK' /\ work' \in [Tasks -> Contents]
    BY <1>7, <2>1, EnqueueEffect DEF RequestCommand
  <2> QED BY <1>1, <1>3, <1>7, <2>2 DEF RequestCommand, RowsTyped, jobVars, LossesCounted
<1>8. ASSUME NEW t \in Tasks, StartTask(t) PROVE Rest
  BY <1>1, <1>3, <1>8, StartKeeps DEF StartTask, RowsTyped, jobVars, PCs, LossesCounted
<1>9. ASSUME NEW t \in Tasks, EndTask(t) PROVE Rest
  BY <1>1, <1>3, <1>9, EndingKeeps DEF EndTask, RowsTyped, jobVars, PCs, LossesCounted
<1>10. ASSUME NEW t \in Tasks, WorkerDies(t) PROVE Rest
  <2>1. QueueOK'
    BY <1>10, EndingKeeps DEF WorkerDies
  <2>2. exits' \in 0..MaxExits /\ lost' \in [Tasks -> 0..MaxExits] /\ LossesCounted'
    BY <1>1, <1>10 DEF WorkerDies, LossesCounted
  <2> QED BY <1>1, <1>3, <1>10, <2>1, <2>2 DEF WorkerDies, RowsTyped, jobVars, PCs
<1>11. ASSUME NEW j \in Jobs, NEW s \in JobStates, NEW next \in PCs, Save(j, s, next),
              cupsId' \in [Jobs -> 0..Len(cups')], cancelRequested' \in [Jobs -> BOOLEAN]
       PROVE  Rest
  BY <1>1, <1>11, StutterKeeps DEF Save, Set, RowsTyped, LossesCounted
<1>12. ASSUME UNCHANGED <<queueVars, work, jobVars, inFlight, exits, dropped, lost>>, pc' \in PCs
       PROVE  Rest
  BY <1>1, <1>3, <1>12, StutterKeeps DEF RowsTyped, jobVars, LossesCounted
<1>13. /\ UNCHANGED cancelRequested => cancelRequested' \in [Jobs -> BOOLEAN]
       /\ UNCHANGED cupsId => cupsId' \in [Jobs -> 0..Len(cups')]
  BY <1>1, <1>3 DEF RowsTyped
<1> HIDE DEF Rest
<1>14. ASSUME NEW t \in Tasks, PrintCancelled(t) \/ PrintConverting(t) \/ PrintFails(t) PROVE Rest
  <2>1. work[t].job \in Jobs
    BY <1>14, HandlerHasJob DEF PrintCancelled, PrintConverting, PrintFails, Running, Handles
  <2> QED BY <1>11, <1>13, <1>14, <2>1
          DEF PrintCancelled, PrintConverting, PrintFails, JobStates, PCs
<1>15. ASSUME NEW t \in Tasks, PrintSubmitted(t) PROVE Rest
  <2>1. work[t].job \in Jobs
    BY <1>15, HandlerHasJob DEF PrintSubmitted, Running, Handles
  <2>2. cupsId' \in [Jobs -> 0..Len(cups')]
    BY <1>1, <1>2, <1>15, <2>1 DEF PrintSubmitted, RowsTyped, Set
  <2> QED BY <1>11, <1>13, <1>15, <2>1, <2>2 DEF PrintSubmitted, JobStates, PCs
<1>16. ASSUME NEW t \in Tasks, RetryReset(t) PROVE Rest
  <2>1. work[t].job \in Jobs
    BY <1>16, HandlerHasJob DEF RetryReset, Running, Handles
  <2>2. cupsId' \in [Jobs -> 0..Len(cups')] /\ cancelRequested' \in [Jobs -> BOOLEAN]
    BY <1>1, <1>2, <1>16, <2>1 DEF RetryReset, RowsTyped, Set
  <2> QED BY <1>11, <1>16, <2>1, <2>2 DEF RetryReset, JobStates, PCs
<1>17. ASSUME NEW t \in Tasks, CommandSaved(t) PROVE Rest
  <2>1. work[t].job \in Jobs /\ work[t].command \in Commands \ {"retry"}
    BY <1>17, HandlerHasJob DEF CommandSaved, Running, Handles, PcFits, IsCommand, IsPrint
  <2> QED BY <1>11, <1>13, <1>17, <2>1 DEF CommandSaved, JobStates, PCs, Commands
<1>18. ASSUME NEW t \in Tasks, CancelWaiting(t) PROVE Rest
  <2>1. work[t].job \in Jobs
    BY <1>18, HandlerHasJob DEF CancelWaiting, Running, Handles
  <2>2. cancelRequested' \in [Jobs -> BOOLEAN]
    BY <1>1, <1>18, <2>1 DEF CancelWaiting, RowsTyped, Set
  <2> QED BY <1>11, <1>13, <1>18, <2>1, <2>2 DEF CancelWaiting, JobStates, PCs
<1>19. ASSUME NEW t \in Tasks, RetryEnqueue(t) PROVE Rest
  <2>1. PrintOf(work[t].job) \in Contents \ {NoWork}
    BY <1>19, HandlerHasJob, ContentFields DEF Contents, RetryEnqueue, Running, Handles
  <2>2. QueueOK' /\ work' \in [Tasks -> Contents]
    BY <1>19, <2>1, EnqueueEffect DEF RetryEnqueue
  <2> QED BY <1>1, <1>3, <1>19, <2>2 DEF Rest, RetryEnqueue, RowsTyped, jobVars, PCs, LossesCounted
<1>20. ASSUME NEW t \in Tasks,
              PrintSubmit(t) \/ RetryRefused(t) \/ CommandCups(t) \/ CommandRefused(t)
                \/ CommandIgnored(t)
       PROVE  Rest
  BY <1>12, <1>20 DEF PrintSubmit, RetryRefused, CommandCups, CommandRefused, CommandIgnored, PCs
<1>21. ASSUME NEW j \in Jobs, SyncJob(j) PROVE Rest
  <2>1. ShownFor(cups[cupsId[j]].state) \in JobStates
    <3>1. cupsId[j] \in DOMAIN cups
      BY <1>1, <1>21 DEF SyncJob, RowsTyped, CupsNumbered
    <3>2. cups[cupsId[j]].state \in CupsStates
      BY <3>1, CupsJobTyped
    <3> QED BY <3>2 DEF ShownFor, CupsStates, CupsActive, JobStates
  <2> QED BY <1>11, <1>13, <1>21, <2>1 DEF SyncJob, PCs
<1>22. ASSUME NEW j \in Jobs, CleanupJob(j) PROVE Rest
  <2>1. QueueOK' /\ UNCHANGED <<work, jobState, cupsId, cancelRequested, pc, inFlight, dropped, lost>>
    BY <1>22, StutterKeeps DEF CleanupJob
  <2>2. source' \in [Jobs -> {"kept", "unlinked", "cleared"}]
    BY <1>1, <1>22 DEF CleanupJob, RowsTyped, Set
  <2>3. exits' \in 0..MaxExits /\ exits <= exits'
    BY <1>1, <1>22 DEF CleanupJob
  <2>4. LossesCounted'
    BY <1>1, <2>1, <2>3 DEF LossesCounted
  <2> QED BY <1>1, <1>3, <2>1, <2>2, <2>3, <2>4 DEF Rest, RowsTyped
<1>23. ASSUME NEW i \in DOMAIN cups, CupsWorks(i) PROVE Rest
  <2>1. UNCHANGED <<queueVars, work, jobVars, inFlight, exits, dropped, lost>> /\ pc' = pc
    BY <1>23 DEF CupsWorks
  <2> QED BY <1>1, <1>12, <2>1
<1>24. ASSUME UNCHANGED vars PROVE Rest
  <2>1. UNCHANGED <<queueVars, work, jobVars, inFlight, exits, dropped, lost>> /\ pc' = pc
    BY <1>24 DEF vars
  <2> QED BY <1>1, <1>12, <2>1
<1>25. Rest
  BY <1>4, <1>5, <1>6, <1>7, <1>8, <1>9, <1>10, <1>14, <1>15, <1>16, <1>17, <1>18, <1>19,
     <1>20, <1>21, <1>22, <1>23, <1>24 DEF Next, HandlerStep
<1>26. TypeOK'
  <2>1. \A i \in DOMAIN cups' : cups'[i] \in CupsJobs
    BY <1>2 DEF CupsNumbered
  <2>2. \A i \in DOMAIN cups' : cups'[i].task \in Tasks
          /\ cups'[i].state \in CupsActive \cup {"canceled", "aborted", "completed"}
    BY <2>1 DEF CupsJobs, CupsStates
  <2>3. /\ phase' \in [Tasks -> {"absent", "waiting", "executing", "complete", "failed"}]
        /\ executor' \in [Tasks -> Workers \cup {NoWorker}]
        /\ tries' \in [Tasks -> Nat]
        /\ limit' \in [Tasks -> RetryLimits \cup {0}]
    BY <1>25 DEF Rest, QueueOK, QueueTypeOK, Phases
  <2> QED BY <1>25, <2>2, <2>3 DEF Rest, TypeOK, RowsTyped
<1> QED BY <1>2, <1>25, <1>26 DEF Rest
-----------------------------------------------------------------------------
(* What the steps leave to the invariants.                                 *)

LEMMA OneHandler ==
    ASSUME QueueOK, NEW t \in Tasks, NEW u \in Tasks, Handles(t), Handles(u)
    PROVE  t = u
BY OneExecutes, PrintJobsAssumption DEF Handles

\* The steps that the worker has no part in.
Outside ==
    \/ \E j \in Jobs : CreateJob(j) \/ EnqueuePrint(j) \/ RequestDies(j)
                         \/ \E c \in Commands : RequestCommand(j, c)
    \/ \E i \in DOMAIN cups : CupsWorks(i)
    \/ UNCHANGED vars

\* Tasks keep their phases and their work, but for one that is new.
Grows ==
    /\ \A t \in Tasks : Handles(t)' <=> Handles(t)
    /\ \A t \in Tasks : work[t] # NoWork => phase'[t] = phase[t] /\ work'[t] = work[t]

LEMMA EnqueueGrows ==
    ASSUME IInv, NEW content \in Contents \ {NoWork}, Enqueue(content)
    PROVE  Grows /\ WorkFits' /\ \E t \in Tasks : phase'[t] = "waiting" /\ work'[t] = content
BY EnqueueEffect DEF IInv, Grows

LEMMA GrowsKeepsLive ==
    ASSUME Grows, NEW j \in Jobs
    PROVE  /\ \A t \in LivePrints(j) : t \in LivePrints(j)'
           /\ \A t \in LiveRetries(j) : t \in LiveRetries(j)'
           /\ RetryGivenUp(j) /\ source'[j] # "kept" => RetryGivenUp(j)'
<1>1. PrintOf(j) # NoWork /\ \A c \in Commands : CommandOf(j, c) # NoWork
  BY ContentFields
<1>2. "retry" \in Commands
  BY DEF Commands
<1> QED BY <1>1, <1>2 DEF Grows, LivePrints, LiveRetries, Live, RetryGivenUp

\* What happens outside the worker adds tasks and pending jobs.
LEMMA OutsideKeeps ==
    ASSUME IInv, Outside
    PROVE  /\ Grows /\ WorkFits' /\ UNCHANGED <<pc, cupsId, cancelRequested, lost>>
           /\ \A j \in Jobs : jobState[j] # "absent" =>
                jobState'[j] = jobState[j] /\ source'[j] = source[j]
           /\ \A j \in Jobs : jobState'[j] # jobState[j] =>
                jobState'[j] = "pending" /\ j \in inFlight'
           /\ \A j \in inFlight \cup dropped :
                j \in inFlight' \cup dropped' \/ \E t \in Tasks : t \in LivePrints(j)'
           /\ \A j \in inFlight' : jobState'[j] # "absent"
<1> DEFINE Kept == /\ Grows /\ WorkFits' /\ UNCHANGED <<pc, cupsId, cancelRequested, lost>>
                   /\ \A j \in Jobs : jobState[j] # "absent" =>
                        jobState'[j] = jobState[j] /\ source'[j] = source[j]
                   /\ \A j \in Jobs : jobState'[j] # jobState[j] =>
                        jobState'[j] = "pending" /\ j \in inFlight'
                   /\ \A j \in inFlight \cup dropped :
                        j \in inFlight' \cup dropped' \/ \E t \in Tasks : t \in LivePrints(j)'
                   /\ \A j \in inFlight' : jobState'[j] # "absent"
<1> USE DEF IInv
<1>1. UNCHANGED <<phase, work>> => Grows /\ WorkFits'
  BY DEF Grows, WorkFits, Handles
<1>2. /\ jobState \in [Jobs -> JobStates] /\ inFlight \subseteq Jobs
      /\ source \in [Jobs -> {"kept", "unlinked", "cleared"}]
  BY DEF TypeOK
<1>3. ASSUME NEW j \in Jobs, CreateJob(j) PROVE Kept
  BY <1>1, <1>2, <1>3 DEF CreateJob, Set, queueVars, RowsExist
<1>4. ASSUME NEW j \in Jobs, EnqueuePrint(j) PROVE Kept
  <2>1. PrintOf(j) \in Contents \ {NoWork} /\ Enqueue(PrintOf(j))
    BY <1>4, ContentFields DEF Contents, EnqueuePrint
  <2>2. Grows /\ WorkFits' /\ \E t \in Tasks : phase'[t] = "waiting" /\ work'[t] = PrintOf(j)
    BY <2>1, EnqueueGrows
  <2>3. \E t \in Tasks : t \in LivePrints(j)'
    BY <2>2 DEF LivePrints, Live
  <2> QED BY <1>4, <2>2, <2>3 DEF EnqueuePrint, jobVars, RowsExist
<1>5. ASSUME NEW j \in Jobs, RequestDies(j) PROVE Kept
  BY <1>1, <1>5 DEF RequestDies, queueVars, jobVars, RowsExist
<1>6. ASSUME NEW j \in Jobs, NEW c \in Commands, RequestCommand(j, c) PROVE Kept
  <2>1. CommandOf(j, c) \in Contents \ {NoWork} /\ Enqueue(CommandOf(j, c))
    BY <1>6, ContentFields DEF Contents, RequestCommand
  <2>2. Grows /\ WorkFits'
    BY <2>1, EnqueueGrows
  <2> QED BY <1>6, <2>2 DEF RequestCommand, jobVars, RowsExist
<1>7. ASSUME NEW i \in DOMAIN cups, CupsWorks(i) PROVE Kept
  BY <1>1, <1>7 DEF CupsWorks, queueVars, jobVars, RowsExist
<1>8. ASSUME UNCHANGED vars PROVE Kept
  BY <1>1, <1>8 DEF vars, queueVars, jobVars, RowsExist
<1> HIDE DEF Kept
<1>9. Kept
  BY <1>3, <1>4, <1>5, <1>6, <1>7, <1>8 DEF Outside
<1> QED BY <1>9 DEF Kept
-----------------------------------------------------------------------------
(* The steps of the worker.                                                *)

\* The handler steps that leave the queue alone.
Within(t) ==
    \/ PrintCancelled(t) \/ PrintConverting(t) \/ PrintSubmit(t)
    \/ PrintSubmitted(t) \/ PrintFails(t)
    \/ RetryReset(t) \/ RetryRefused(t)
    \/ CommandCups(t) \/ CommandRefused(t) \/ CommandSaved(t)
    \/ CancelWaiting(t) \/ CommandIgnored(t)

LEMMA StepKinds ==
    ASSUME [Next]_vars
    PROVE  \/ Outside
           \/ \E j \in Jobs : SyncJob(j) \/ CleanupJob(j)
           \/ \E t \in Tasks : \/ StartTask(t) \/ Within(t) \/ RetryEnqueue(t)
                               \/ EndTask(t) \/ WorkerDies(t)
BY DEF Next, HandlerStep, Outside, Within

\* A step within a handler saves one row, of its own job.
LEMMA WithinKeeps ==
    ASSUME IInv, NEW t \in Tasks, Within(t)
    PROVE  /\ Handles(t) /\ work[t].job \in Jobs
           /\ UNCHANGED <<queueVars, work, lost, source, inFlight, dropped>>
           /\ WorkFits'
           /\ pc # "idle" /\ pc' # "idle"
           /\ \/ IsPrint(t) /\ pc' \in {"converting", "submitted", "return", "raise"}
              \/ IsCommand(t) /\ pc' \in {"return", "raise"}
              \/ IsCommand(t) /\ pc' = "reset" /\ work[t].command = "retry"
              \/ IsCommand(t) /\ pc' = "commanded" /\ work[t].command # "retry"
           /\ \A j \in Jobs : j # work[t].job =>
                /\ jobState'[j] = jobState[j] /\ cupsId'[j] = cupsId[j]
                /\ cancelRequested'[j] = cancelRequested[j]
<1> USE DEF IInv
<1>1. Handles(t) /\ UNCHANGED <<queueVars, work, lost, source, inFlight, dropped>>
  BY DEF Within, PrintCancelled, PrintConverting, PrintSubmit, PrintSubmitted, PrintFails,
         RetryReset, RetryRefused, CommandCups, CommandRefused, CommandSaved, CancelWaiting,
         CommandIgnored, Running, Save, jobVars, Handles
<1>2. /\ work[t].job \in Jobs
      /\ IsCommand(t) => work[t].command \in Commands
  BY <1>1, HandlerHasJob
<1>3. WorkFits'
  BY <1>1 DEF WorkFits, queueVars
<1>4. /\ pc # "idle" /\ pc' # "idle"
      /\ \/ IsPrint(t) /\ pc' \in {"converting", "submitted", "return", "raise"}
         \/ IsCommand(t) /\ pc' \in {"return", "raise"}
         \/ IsCommand(t) /\ pc' = "reset" /\ work[t].command = "retry"
         \/ IsCommand(t) /\ pc' = "commanded" /\ work[t].command # "retry"
  BY DEF Within, PrintCancelled, PrintConverting, PrintSubmit, PrintSubmitted, PrintFails,
         RetryReset, RetryRefused, CommandCups, CommandRefused, CommandSaved, CancelWaiting,
         CommandIgnored, Running, Save, IsPrint, IsCommand
<1>5. /\ jobState \in [Jobs -> JobStates] /\ cupsId \in [Jobs -> 0..Len(cups)]
      /\ cancelRequested \in [Jobs -> BOOLEAN]
  BY DEF TypeOK
<1>6. \A j \in Jobs : j # work[t].job =>
        /\ jobState'[j] = jobState[j] /\ cupsId'[j] = cupsId[j]
        /\ cancelRequested'[j] = cancelRequested[j]
  BY <1>5 DEF Within, PrintCancelled, PrintConverting, PrintSubmit, PrintSubmitted, PrintFails,
         RetryReset, RetryRefused, CommandCups, CommandRefused, CommandSaved, CancelWaiting,
         CommandIgnored, Save, jobVars, Set
<1> QED BY <1>1, <1>2, <1>3, <1>4, <1>6

\* What a save leaves in the row of the handler's job, by the step that saves it.
LEMMA WithinSaves ==
    ASSUME IInv, NEW t \in Tasks, Within(t), NEW j, j = work[t].job
    PROVE  \/ /\ PrintCancelled(t) /\ IsPrint(t) /\ cancelRequested[j]
              /\ jobState'[j] = "cancelled" /\ pc' = "return"
              /\ UNCHANGED <<cupsId, cancelRequested, cups>>
           \/ /\ PrintConverting(t) /\ IsPrint(t) /\ ~cancelRequested[j]
              /\ jobState'[j] = "converting" /\ pc' = "converting"
              /\ UNCHANGED <<cupsId, cancelRequested, cups>>
           \/ /\ PrintSubmit(t) /\ IsPrint(t) /\ pc = "converting" /\ pc' = "submitted"
              /\ UNCHANGED jobVars
           \/ /\ PrintSubmitted(t) /\ IsPrint(t) /\ pc = "submitted" /\ pc' = "return"
              /\ jobState'[j] = "submitted" /\ cupsId'[j] = Len(cups)
              /\ UNCHANGED <<cancelRequested, cups>>
           \/ /\ PrintFails(t) /\ IsPrint(t) /\ pc = "converting" /\ pc' = "raise"
              /\ jobState'[j] = "failed"
              /\ UNCHANGED <<cupsId, cancelRequested, cups>>
           \/ /\ RetryReset(t) /\ IsCommand(t) /\ work[t].command = "retry" /\ pc' = "reset"
              /\ jobState'[j] = "pending" /\ cupsId'[j] = 0 /\ ~cancelRequested'[j]
              /\ UNCHANGED cups
           \/ /\ RetryRefused(t) /\ IsCommand(t) /\ source[j] = "unlinked" /\ pc' = "raise"
              /\ UNCHANGED <<jobVars, cups>>
           \/ /\ CommandCups(t) /\ IsCommand(t) /\ pc = "begin" /\ pc' = "commanded"
              /\ work[t].command # "retry"
              /\ UNCHANGED jobVars
           \/ /\ CommandSaved(t) /\ IsCommand(t) /\ pc = "commanded" /\ pc' = "return"
              /\ work[t].command # "retry"
              /\ \/ work[t].command = "cancel" /\ jobState'[j] = "cancelled"
                 \/ work[t].command # "cancel" /\ jobState'[j] \in {"held", "submitted"}
              /\ UNCHANGED <<cupsId, cancelRequested, cups>>
           \/ /\ CancelWaiting(t) /\ IsCommand(t) /\ work[t].command # "retry"
              /\ jobState'[j] = "cancelled" /\ cupsId[j] = 0 /\ pc' = "return"
              /\ UNCHANGED <<cupsId, cups>>
           \/ /\ CommandRefused(t) \/ CommandIgnored(t)
              /\ IsCommand(t) /\ work[t].command # "retry" /\ pc' \in {"return", "raise"}
              /\ UNCHANGED <<jobVars, cups>>
<1> USE DEF IInv
<1>1. /\ Handles(t) /\ j \in Jobs
      /\ IsCommand(t) => work[t].command \in Commands
  BY WithinKeeps, HandlerHasJob
<1>2. /\ jobState \in [Jobs -> JobStates] /\ cupsId \in [Jobs -> 0..Len(cups)]
      /\ cancelRequested \in [Jobs -> BOOLEAN]
  BY DEF TypeOK
<1>3. CASE PrintCancelled(t)
  BY <1>1, <1>2, <1>3 DEF PrintCancelled, Running, Save, Set, IsPrint
<1>4. CASE PrintConverting(t)
  BY <1>1, <1>2, <1>4 DEF PrintConverting, Running, Save, Set, IsPrint
<1>5. CASE PrintSubmit(t)
  BY <1>1, <1>2, <1>5 DEF PrintSubmit, Running, IsPrint
<1>6. CASE PrintSubmitted(t)
  BY <1>1, <1>2, <1>6 DEF PrintSubmitted, Running, Save, Set, IsPrint
<1>7. CASE PrintFails(t)
  BY <1>1, <1>2, <1>7 DEF PrintFails, Running, Save, Set, IsPrint
<1>8. CASE RetryReset(t)
  BY <1>1, <1>2, <1>8 DEF RetryReset, Running, Save, Set, IsCommand
<1>9. CASE RetryRefused(t)
  BY <1>1, <1>2, <1>9 DEF RetryRefused, Running, IsCommand
<1>10. CASE CommandCups(t)
  BY <1>1, <1>2, <1>10 DEF CommandCups, Running, IsCommand
<1>11. CASE CommandSaved(t)
  <2>1. IsCommand(t) /\ work[t].command \in Commands \ {"retry"}
    BY <1>1, <1>11 DEF CommandSaved, Running, IsCommand, IsPrint, PcFits
  <2> QED BY <1>1, <1>2, <1>11, <2>1 DEF CommandSaved, Running, Save, Set, Commands
<1>12. CASE CancelWaiting(t)
  BY <1>1, <1>2, <1>12 DEF CancelWaiting, Running, Save, Set, IsCommand
<1>13. CASE CommandRefused(t) \/ CommandIgnored(t)
  BY <1>1, <1>2, <1>13 DEF CommandRefused, CommandIgnored, Running, IsCommand
<1> QED BY <1>3, <1>4, <1>5, <1>6, <1>7, <1>8, <1>9, <1>10, <1>11, <1>12, <1>13 DEF Within
\* Maintenance runs between tasks, on the row of one job.
LEMMA MaintenanceKeeps ==
    ASSUME IInv, NEW j \in Jobs, SyncJob(j) \/ CleanupJob(j)
    PROVE  /\ pc = "idle" /\ pc' = "idle"
           /\ UNCHANGED <<queueVars, work, cupsId, cancelRequested, inFlight, dropped, lost, cups>>
           /\ WorkFits' /\ \A t \in Tasks : ~Handles(t) /\ ~Handles(t)'
           /\ \A i \in Jobs : i # j => jobState'[i] = jobState[i]
           /\ \A i \in Jobs : source[i] # "kept" => source'[i] # "kept"
           /\ CleanupJob(j) => UNCHANGED jobState
           /\ SyncJob(j) => /\ Tracked(j) /\ cups[cupsId[j]].state \in CupsStates
                            /\ jobState'[j] = ShownFor(cups[cupsId[j]].state)
                            /\ jobState'[j] \in JobStates \ {"absent"}
<1> USE DEF IInv
<1>1. /\ pc = "idle" /\ pc' = "idle"
      /\ UNCHANGED <<queueVars, work, cupsId, cancelRequested, inFlight, dropped, lost, cups>>
  BY DEF SyncJob, CleanupJob, Save
<1>2. WorkFits' /\ \A t \in Tasks : ~Handles(t) /\ ~Handles(t)'
  BY <1>1 DEF PcFits, WorkFits, Handles, queueVars
<1>3. /\ jobState \in [Jobs -> JobStates] /\ cupsId \in [Jobs -> 0..Len(cups)]
      /\ source \in [Jobs -> {"kept", "unlinked", "cleared"}] /\ Len(cups) \in Nat
  BY DEF TypeOK, CupsNumbered
<1>4. CASE SyncJob(j)
  <2>1. cupsId[j] \in DOMAIN cups
    BY <1>3, <1>4 DEF SyncJob, CupsNumbered
  <2>2. cups[cupsId[j]].state \in CupsStates
    BY <2>1, CupsJobTyped
  <2>3. ShownFor(cups[cupsId[j]].state) \in JobStates \ {"absent"}
    BY <2>2 DEF ShownFor, CupsStates, CupsActive, JobStates
  <2>4. pc = "idle" /\ cupsId[j] # 0
    BY <1>4 DEF SyncJob
  <2>5. /\ jobState' = [jobState EXCEPT ![j] = ShownFor(cups[cupsId[j]].state)]
        /\ UNCHANGED source
    BY <1>4 DEF SyncJob, Save, Set
  <2>6. CleanupJob(j) => UNCHANGED jobState
    BY DEF CleanupJob
  <2> QED BY <1>1, <1>2, <1>3, <2>2, <2>3, <2>4, <2>5, <2>6 DEF Tracked
<1>5. CASE CleanupJob(j) /\ ~SyncJob(j)
  BY <1>1, <1>2, <1>3, <1>5 DEF CleanupJob, Set
<1> QED BY <1>4, <1>5

\* The places in the handlers are inductive.
LEMMA PlacesInductive ==
    ASSUME IInv, [Next]_vars
    PROVE  WorkFits' /\ PcFits'
<1> USE DEF IInv
<1>1. CASE Outside
  <2>1. Grows /\ WorkFits' /\ pc' = pc
    BY <1>1, OutsideKeeps
  <2>2. \A t \in Tasks : Handles(t)' => Handles(t) /\ work'[t] = work[t]
    BY <2>1 DEF Grows, Handles, WorkFits
  <2> QED BY <2>1, <2>2 DEF Grows, PcFits, IsPrint, IsCommand
<1>2. ASSUME NEW j \in Jobs, SyncJob(j) \/ CleanupJob(j) PROVE WorkFits' /\ PcFits'
  BY <1>2, MaintenanceKeeps DEF PcFits
<1>3. ASSUME NEW t \in Tasks, StartTask(t) PROVE WorkFits' /\ PcFits'
  <2> PICK w \in Workers : Start(w, t)
    BY <1>3 DEF StartTask
  <2>1. \A u \in Tasks : Handles(u)' <=> u = t
    BY NoneExecutes, StartPhases, PrintJobsAssumption DEF Handles
  <2>2. pc' = "begin" /\ work' = work
    BY <1>3 DEF StartTask
  <2>3. WorkFits'
    BY <2>2, StartPhases DEF WorkFits
  <2>4. IsPrint(t)' \/ IsCommand(t)'
    BY <2>2, StartPhases, WorkIsContent DEF WorkFits, IsPrint, IsCommand
  <2> QED BY <2>1, <2>2, <2>3, <2>4 DEF PcFits
<1>4. ASSUME NEW t \in Tasks, Within(t) PROVE WorkFits' /\ PcFits'
  <2>1. \A u \in Tasks : Handles(u)' <=> u = t
    BY <1>4, WithinKeeps, OneHandler DEF Handles, queueVars
  <2>2. IsPrint(t)' = IsPrint(t) /\ IsCommand(t)' = IsCommand(t)
        /\ work' = work
    BY <1>4, WithinKeeps DEF IsPrint, IsCommand
  <2> QED BY <1>4, <2>1, <2>2, WithinKeeps DEF PcFits
<1>5. ASSUME NEW t \in Tasks, RetryEnqueue(t) PROVE WorkFits' /\ PcFits'
  <2>1. Handles(t) /\ IsCommand(t)
    BY <1>5 DEF RetryEnqueue, Running, Handles, IsCommand
  <2>2. PrintOf(work[t].job) \in Contents \ {NoWork} /\ Enqueue(PrintOf(work[t].job))
    BY <1>5, <2>1, HandlerHasJob, ContentFields DEF Contents, RetryEnqueue
  <2>3. Grows /\ WorkFits'
    BY <2>2, EnqueueGrows
  <2>4. \A u \in Tasks : Handles(u)' <=> u = t
    BY <2>1, <2>3, OneHandler DEF Grows
  <2>5. work'[t] = work[t]
    BY <2>1, <2>3 DEF Grows, Handles, WorkFits
  <2>6. pc' = "return"
    BY <1>5 DEF RetryEnqueue
  <2> QED BY <2>1, <2>3, <2>4, <2>5, <2>6 DEF PcFits, IsCommand
<1>6. ASSUME NEW t \in Tasks, EndTask(t) \/ WorkerDies(t) PROVE WorkFits' /\ PcFits'
  <2>1. Succeed(t) \/ Fail(t) \/ Lose(t)
    BY <1>6 DEF EndTask, WorkerDies
  <2>2. pc' = "idle" /\ work' = work
    BY <1>6 DEF EndTask, WorkerDies
  <2>3. Handles(t) /\ phase'[t] \notin {"executing", "absent"}
    BY <2>1, EndingPhases DEF Handles
  <2>4. \A u \in Tasks : ~Handles(u)'
    BY <2>1, <2>3, EndingPhases, OneHandler DEF Handles
  <2>5. WorkFits'
    BY <2>1, <2>2, <2>3, EndingPhases DEF WorkFits, Handles
  <2> QED BY <2>2, <2>4, <2>5 DEF PcFits
<1> QED BY <1>1, <1>2, <1>3, <1>4, <1>5, <1>6, StepKinds

\* No job goes back to not being there.
LEMMA RowsInductive ==
    ASSUME IInv, [Next]_vars
    PROVE  RowsExist'
<1> USE DEF IInv
<1>1. \A j \in Jobs : jobState[j] # "absent" => jobState'[j] # "absent"
  <2>1. ASSUME NEW t \in Tasks, Within(t), NEW j \in Jobs, jobState[j] # "absent"
        PROVE  jobState'[j] # "absent"
    BY <2>1, WithinKeeps, WithinSaves DEF jobVars
  <2>2. ASSUME NEW t \in Tasks, StartTask(t) \/ RetryEnqueue(t) \/ EndTask(t) \/ WorkerDies(t)
        PROVE  UNCHANGED jobState
    BY <2>2 DEF StartTask, RetryEnqueue, EndTask, WorkerDies, jobVars
  <2>3. ASSUME NEW i \in Jobs, SyncJob(i) \/ CleanupJob(i), NEW j \in Jobs,
               jobState[j] # "absent"
        PROVE  jobState'[j] # "absent"
    BY <2>3, MaintenanceKeeps
  <2> QED BY <2>1, <2>2, <2>3, OutsideKeeps, StepKinds
<1>2. \A j \in inFlight' : jobState'[j] # "absent"
  <2>1. CASE Outside
    BY <2>1, OutsideKeeps
  <2>2. CASE ~Outside
    <3>1. inFlight' = inFlight
      BY <2>2, StepKinds, WithinKeeps, MaintenanceKeeps
         DEF StartTask, RetryEnqueue, EndTask, WorkerDies
    <3> QED BY <1>1, <3>1 DEF RowsExist, TypeOK
  <2> QED BY <2>1, <2>2
<1>3. ASSUME NEW t \in Tasks, work'[t] # work[t]
      PROVE  \E j \in Jobs : jobState[j] # "absent" /\ work'[t].job = j
  <2>1. ASSUME NEW content \in Contents \ {NoWork}, Enqueue(content) PROVE work'[t] = content
    BY <1>3, <2>1, EnqueueEffect
  <2>2. ASSUME NEW j \in Jobs, EnqueuePrint(j)
        PROVE  jobState[j] # "absent" /\ work'[t].job = j
    BY <2>1, <2>2, ContentFields DEF EnqueuePrint, RowsExist, Contents
  <2>3. ASSUME NEW j \in Jobs, NEW c \in Commands, RequestCommand(j, c)
        PROVE  jobState[j] # "absent" /\ work'[t].job = j
    BY <2>1, <2>3, ContentFields DEF RequestCommand, Contents
  <2>4. ASSUME NEW u \in Tasks, RetryEnqueue(u)
        PROVE  work[u].job \in Jobs /\ jobState[work[u].job] # "absent"
               /\ work'[t].job = work[u].job
    <3>1. Handles(u) /\ IsCommand(u)
      BY <2>4 DEF RetryEnqueue, Running, Handles, IsCommand
    <3>2. work[u].job \in Jobs
      BY <3>1, HandlerHasJob
    <3> QED BY <2>1, <2>4, <3>1, <3>2, ContentFields DEF RetryEnqueue, RowsExist, Contents
  <2>5. \/ UNCHANGED work
        \/ \E j \in Jobs : EnqueuePrint(j)
        \/ \E j \in Jobs, c \in Commands : RequestCommand(j, c)
        \/ \E u \in Tasks : RetryEnqueue(u)
    BY StepKinds, WithinKeeps, MaintenanceKeeps
       DEF Outside, CreateJob, RequestDies, CupsWorks, vars, StartTask, EndTask, WorkerDies
  <2> QED BY <1>3, <2>2, <2>3, <2>4, <2>5
<1>4. \A t \in Tasks : IsPrint(t) \/ IsCommand(t) => work[t].job \in Jobs
  BY WorkIsContent
<1> QED BY <1>1, <1>2, <1>3, <1>4 DEF RowsExist, IsPrint, IsCommand
-----------------------------------------------------------------------------
(* The row, the handler and CUPS.                                          *)

\* The document that is being handed over stays the newest CUPS job.
LEMMA HandedOver ==
    ASSUME IInv, [Next]_vars, PcFits'
    PROVE  SubmittedFits'
<1> USE DEF IInv
<1> SUFFICES ASSUME NEW t \in Tasks, Handles(t)', pc' = "submitted"
             PROVE  Len(cups') > 0 /\ cups'[Len(cups')].task = t
  BY DEF SubmittedFits
<1>1. CASE PrintSubmit(t)
  <2>1. cups' = Append(cups, [task |-> t, state |-> "pending"])
    BY <1>1 DEF PrintSubmit
  <2>2. Len(cups') = Len(cups) + 1 /\ cups'[Len(cups')].task = t
    BY <2>1, CupsAppend DEF CupsStates, CupsActive
  <2> QED BY <2>2 DEF CupsNumbered
<1>2. CASE Handles(t) /\ pc = "submitted" /\ ~PrintSubmit(t)
  <2>1. Len(cups) > 0 /\ cups[Len(cups)].task = t
    BY <1>2 DEF SubmittedFits
  <2>2. Len(cups') = Len(cups)
    <3>1. \A u \in Tasks : PrintSubmit(u) \/ CommandCups(u) => u = t
      BY <1>2, OneHandler DEF PrintSubmit, CommandCups, Running, Handles
    <3>2. ~CommandCups(t)
      BY <1>2 DEF CommandCups, Running
    <3>3. \A i \in DOMAIN cups : CupsWorks(i) => Len(cups') = Len(cups)
      BY CupsUpdate DEF CupsWorks, CupsStates, CupsActive
    <3> QED BY <1>2, <3>1, <3>2, <3>3, CupsSteps
  <2> QED BY <2>1, <2>2, CupsKept DEF CupsNumbered
<1>3. \/ PrintSubmit(t)
      \/ Handles(t) /\ pc = "submitted"
  <2>1. ASSUME NEW u \in Tasks, Within(u) PROVE PrintSubmit(t)
    <3>1. PrintSubmit(u)
      BY <2>1, WithinSaves
    <3>2. Handles(u) /\ Handles(t)
      BY <2>1, WithinKeeps DEF Handles, queueVars
    <3> QED BY <3>1, <3>2, OneHandler
  <2>2. CASE Outside
    BY <2>2, OutsideKeeps DEF Grows
  <2>3. ASSUME NEW u \in Tasks, StartTask(u) \/ RetryEnqueue(u) \/ EndTask(u) \/ WorkerDies(u)
        PROVE  FALSE
    BY <2>3 DEF StartTask, RetryEnqueue, EndTask, WorkerDies
  <2> QED BY <2>1, <2>2, <2>3, MaintenanceKeeps, StepKinds
<1> QED BY <1>1, <1>2, <1>3

\* A row points to a CUPS job of its own.
LEMMA TrackedInductive ==
    ASSUME IInv, [Next]_vars
    PROVE  TrackedIsOwn'
<1> USE DEF IInv
<1> SUFFICES ASSUME NEW j \in Jobs, cupsId'[j] # 0
             PROVE  work'[cups'[cupsId'[j]].task] = PrintOf(j)
  BY DEF TrackedIsOwn, Tracked
<1>1. cupsId \in [Jobs -> 0..Len(cups)] /\ Len(cups) \in Nat
  BY DEF TypeOK, CupsNumbered
<1>2. ASSUME cupsId'[j] = cupsId[j], \A t \in Tasks : work[t] # NoWork => work'[t] = work[t]
      PROVE  work'[cups'[cupsId'[j]].task] = PrintOf(j)
  <2>1. cupsId[j] \in DOMAIN cups /\ cups[cupsId[j]].task \in Tasks
    BY <1>1, <1>2, CupsJobTyped DEF CupsNumbered
  <2>2. work[cups[cupsId[j]].task] = PrintOf(j)
    BY <1>2 DEF TrackedIsOwn, Tracked
  <2> QED BY <1>2, <2>1, <2>2, CupsKept, ContentFields
<1>3. ASSUME NEW t \in Tasks, PrintSubmitted(t)
      PROVE  work'[cups'[cupsId'[j]].task] = PrintOf(j)
  <2>1. Within(t)
    BY <1>3 DEF Within
  <2>2. /\ Handles(t) /\ work[t].job \in Jobs /\ work' = work
        /\ j # work[t].job => cupsId'[j] = cupsId[j]
    BY <2>1, WithinKeeps
  <2>3. CASE j = work[t].job
    <3>1. cupsId'[j] = Len(cups) /\ cups' = cups /\ IsPrint(t) /\ pc = "submitted"
      BY <1>1, <1>3, <2>2, <2>3 DEF PrintSubmitted, Running, Save, Set, IsPrint
    <3>2. cups[Len(cups)].task = t
      BY <2>2, <3>1 DEF SubmittedFits
    <3>3. work[t] = PrintOf(j)
      BY <2>3, <3>1, WorkIsContent, ContentKinds DEF IsPrint
    <3> QED BY <2>2, <3>1, <3>2, <3>3
  <2> QED BY <1>2, <2>2, <2>3
<1>4. ASSUME NEW t \in Tasks, Within(t), ~PrintSubmitted(t)
      PROVE  work'[cups'[cupsId'[j]].task] = PrintOf(j)
  BY <1>2, <1>4, WithinKeeps, WithinSaves DEF jobVars
<1>5. ASSUME NEW t \in Tasks, StartTask(t) \/ EndTask(t) \/ WorkerDies(t)
      PROVE  work'[cups'[cupsId'[j]].task] = PrintOf(j)
  BY <1>2, <1>5 DEF StartTask, EndTask, WorkerDies, jobVars
<1>6. ASSUME NEW t \in Tasks, RetryEnqueue(t)
      PROVE  work'[cups'[cupsId'[j]].task] = PrintOf(j)
  <2>1. PrintOf(work[t].job) \in Contents \ {NoWork} /\ Enqueue(PrintOf(work[t].job))
    BY <1>6, HandlerHasJob, ContentFields DEF Contents, RetryEnqueue, Running, Handles
  <2>2. Grows /\ UNCHANGED cupsId
    BY <1>6, <2>1, EnqueueGrows DEF RetryEnqueue, jobVars
  <2> QED BY <1>2, <2>2 DEF Grows
<1>7. CASE Outside
  BY <1>2, <1>7, OutsideKeeps DEF Grows
<1>8. ASSUME NEW i \in Jobs, SyncJob(i) \/ CleanupJob(i)
      PROVE  work'[cups'[cupsId'[j]].task] = PrintOf(j)
  BY <1>2, <1>8, MaintenanceKeeps
<1> QED BY <1>3, <1>4, <1>5, <1>6, <1>7, <1>8, StepKinds
\* No step but the handler's own comes between a command to CUPS and its save.
LEMMA CommandInductive ==
    ASSUME IInv, [Next]_vars
    PROVE  CommandFits'
<1> USE DEF IInv
<1> SUFFICES ASSUME NEW t \in Tasks, Handles(t)', pc' = "commanded"
             PROVE  /\ Tracked(work[t].job)'
                    /\ work'[t].command = "cancel" =>
                         cups'[cupsId'[work'[t].job]].state = "canceled"
  BY DEF CommandFits
<1>1. cupsId \in [Jobs -> 0..Len(cups)] /\ Len(cups) \in Nat
  BY DEF TypeOK, CupsNumbered
<1>2. CASE CommandCups(t)
  <2> DEFINE j == work[t].job
             i == cupsId[j]
             s == AfterCommand(cups[i].state, work[t].command)
  <2>1. /\ Handles(t) /\ IsCommand(t) /\ i # 0 /\ work[t].command # "retry"
        /\ cups[i].state \in CupsActive /\ cups' = [cups EXCEPT ![i].state = s]
        /\ UNCHANGED <<work, cupsId>>
    BY <1>2 DEF CommandCups, Running, Handles, IsCommand, jobVars
  <2>2. j \in Jobs /\ work[t].command \in Commands
    BY <2>1, HandlerHasJob
  <2>3. i \in DOMAIN cups /\ s \in CupsStates
    BY <1>1, <2>1, <2>2
       DEF CupsNumbered, AfterCommand, Commands, CupsActive, CupsStates
  <2>4. cups'[i].state = s
    BY <2>1, <2>3, CupsUpdate
  <2>5. work[t].command = "cancel" => s = "canceled"
    BY DEF AfterCommand
  <2> QED BY <2>1, <2>4, <2>5 DEF Tracked
<1>3. ASSUME Handles(t), pc = "commanded", UNCHANGED cupsId, work'[t] = work[t]
      PROVE  /\ Tracked(work[t].job)'
             /\ work'[t].command = "cancel" =>
                  cups'[cupsId'[work'[t].job]].state = "canceled"
  <2>1. work[t].job \in Jobs
    BY <1>3, HandlerHasJob
  <2>2. cupsId[work[t].job] \in DOMAIN cups
    BY <1>1, <1>3, <2>1 DEF CommandFits, Tracked, CupsNumbered
  <2> QED BY <1>3, <2>2, CupsKept DEF CommandFits, Tracked, CupsActive
<1>4. CASE Outside
  BY <1>3, <1>4, OutsideKeeps DEF Grows, WorkFits, Handles
<1>5. ASSUME NEW u \in Tasks, Within(u) PROVE CommandCups(t)
  <2>1. CommandCups(u) /\ Handles(u) /\ Handles(t)
    BY <1>5, WithinSaves, WithinKeeps DEF Handles, queueVars
  <2> QED BY <2>1, OneHandler
<1>6. ASSUME NEW u \in Tasks, StartTask(u) \/ RetryEnqueue(u) \/ EndTask(u) \/ WorkerDies(u)
      PROVE  FALSE
  BY <1>6 DEF StartTask, RetryEnqueue, EndTask, WorkerDies
<1> QED BY <1>2, <1>4, <1>5, <1>6, MaintenanceKeeps, StepKinds

\* A handler that returns or raises has left its job as it should.
LEMMA EndsInductive ==
    ASSUME IInv, [Next]_vars
    PROVE  EndsWaiting'
<1> USE DEF IInv
<1> SUFFICES ASSUME NEW t \in Tasks, Handles(t)', pc' \in {"return", "raise"}
             PROVE  /\ IsPrint(t)' => jobState'[work'[t].job] \in {"submitted", "cancelled", "failed"}
                    /\ IsCommand(t)' /\ work'[t].command = "retry" =>
                         IF pc' = "return" THEN LivePrints(work[t].job)' # {}
                                           ELSE source'[work'[t].job] # "kept"
  BY DEF EndsWaiting
<1>1. CASE Outside
  <2>1. Handles(t) /\ work'[t] = work[t] /\ pc' = pc
    BY <1>1, OutsideKeeps DEF Grows, Handles, WorkFits
  <2>2. work[t].job \in Jobs /\ (IsPrint(t) \/ IsCommand(t))
    BY <2>1, HandlerHasJob DEF PcFits
  <2>3. jobState[work[t].job] # "absent"
    BY <2>2 DEF RowsExist
  <2>4. jobState'[work[t].job] = jobState[work[t].job] /\ source'[work[t].job] = source[work[t].job]
    BY <1>1, <2>2, <2>3, OutsideKeeps
  <2>5. LivePrints(work[t].job) # {} => LivePrints(work[t].job)' # {}
    <3>1. \A u \in LivePrints(work[t].job) :
            phase'[u] = phase[u] /\ work'[u] = work[u] /\ u \in Tasks
      BY <1>1, <2>2, OutsideKeeps, ContentFields DEF Grows, LivePrints
    <3> QED BY <2>1, <3>1 DEF LivePrints, Live
  <2> QED BY <2>1, <2>4, <2>5 DEF EndsWaiting, IsPrint, IsCommand
<1>2. ASSUME NEW u \in Tasks, Within(u)
      PROVE  /\ IsPrint(t)' => jobState'[work'[t].job] \in {"submitted", "cancelled", "failed"}
             /\ IsCommand(t)' /\ work'[t].command = "retry" =>
                  pc' = "raise" /\ source'[work'[t].job] # "kept"
  <2>1. Handles(u) /\ Handles(t) /\ UNCHANGED <<work, source>>
    BY <1>2, WithinKeeps DEF Handles, queueVars
  <2>2. t = u
    BY <2>1, OneHandler
  <2>3. IsPrint(t) => ~IsCommand(t)
    BY DEF IsPrint, IsCommand
  <2> QED BY <1>2, <2>1, <2>2, <2>3, WithinSaves DEF IsPrint, IsCommand
<1>3. ASSUME NEW u \in Tasks, RetryEnqueue(u)
      PROVE  ~IsPrint(t)' /\ pc' = "return" /\ LivePrints(work[t].job)' # {}
  <2>1. Handles(u) /\ IsCommand(u) /\ pc' = "return" /\ Enqueue(PrintOf(work[u].job))
    BY <1>3 DEF RetryEnqueue, Running, Handles, IsCommand
  <2>2. work[u].job \in Jobs /\ PrintOf(work[u].job) \in Contents \ {NoWork}
    BY <2>1, HandlerHasJob, ContentFields DEF Contents
  <2>3. Grows /\ \E v \in Tasks : phase'[v] = "waiting" /\ work'[v] = PrintOf(work[u].job)
    BY <2>1, <2>2, EnqueueGrows
  <2>4. Handles(t) /\ t = u /\ work'[t] = work[t]
    BY <2>1, <2>3, OneHandler DEF Grows, Handles, WorkFits
  <2> QED BY <2>1, <2>3, <2>4 DEF LivePrints, Live, IsPrint, IsCommand
<1>4. ASSUME NEW u \in Tasks, StartTask(u) \/ EndTask(u) \/ WorkerDies(u) PROVE FALSE
  BY <1>4 DEF StartTask, EndTask, WorkerDies
<1> QED BY <1>1, <1>2, <1>3, <1>4, MaintenanceKeeps, StepKinds
-----------------------------------------------------------------------------
(* The properties.                                                         *)

\* A job that shows as waiting goes on waiting for something.
LEMMA WaitingInductive ==
    ASSUME IInv, [Next]_vars
    PROVE  WaitingHasTask'
<1> USE DEF IInv
<1> DEFINE Converting(j) == jobState'[j] = "converting" => \E t \in Tasks : t \in LivePrints(j)'
           Pending(j) == jobState'[j] = "pending" /\ ~Tracked(j)' =>
               \/ \E t \in Tasks : t \in LivePrints(j)' \/ t \in LiveRetries(j)'
               \/ j \in inFlight' \cup dropped'
               \/ RetryGivenUp(j)'
<1> SUFFICES ASSUME NEW j \in Jobs PROVE Converting(j) /\ Pending(j)
  BY DEF WaitingHasTask
<1>1. /\ jobState[j] = "converting" => \E t \in Tasks : t \in LivePrints(j)
      /\ jobState[j] = "pending" /\ ~Tracked(j) =>
           \/ \E t \in Tasks : t \in LivePrints(j) \/ t \in LiveRetries(j)
           \/ j \in inFlight \cup dropped
           \/ RetryGivenUp(j)
  <2>1. LivePrints(j) \subseteq Tasks /\ LiveRetries(j) \subseteq Tasks
    BY DEF LivePrints, LiveRetries
  <2> QED BY <2>1 DEF WaitingHasTask
\* The job's row keeps its state, and its tasks and excuses stay.
<1>2. ASSUME jobState'[j] = jobState[j], cupsId'[j] = cupsId[j],
             \A t \in LivePrints(j) : t \in LivePrints(j)',
             \A t \in LiveRetries(j) : t \in LiveRetries(j)',
             j \in inFlight \cup dropped =>
               j \in inFlight' \cup dropped' \/ \E t \in Tasks : t \in LivePrints(j)',
             RetryGivenUp(j) => RetryGivenUp(j)'
      PROVE  Converting(j) /\ Pending(j)
  BY <1>1, <1>2 DEF Tracked
<1>3. CASE Outside
  <2>1. CASE jobState'[j] = jobState[j]
    <3>1. RetryGivenUp(j) => jobState[j] # "absent" /\ source[j] # "kept"
      <4>1. CommandOf(j, "retry").kind = "print_job_command" /\ CommandOf(j, "retry").job = j
        BY ContentFields DEF Commands
      <4> QED BY <4>1 DEF RetryGivenUp, RowsExist, IsCommand
    <3> QED BY <1>2, <1>3, <2>1, <3>1, OutsideKeeps, GrowsKeepsLive
  <2>2. CASE jobState'[j] # jobState[j]
    BY <1>3, <2>2, OutsideKeeps
  <2> QED BY <2>1, <2>2
<1>4. ASSUME NEW i \in Jobs, SyncJob(i) \/ CleanupJob(i) PROVE Converting(j) /\ Pending(j)
  <2>1. /\ \A t \in LivePrints(j) : t \in LivePrints(j)'
        /\ \A t \in LiveRetries(j) : t \in LiveRetries(j)'
    BY <1>4, MaintenanceKeeps DEF LivePrints, LiveRetries, Live, queueVars
  <2>2. RetryGivenUp(j) => RetryGivenUp(j)'
    BY <1>4, MaintenanceKeeps DEF RetryGivenUp, queueVars
  <2>3. CASE jobState'[j] = jobState[j]
    BY <1>2, <1>4, <2>1, <2>2, <2>3, MaintenanceKeeps
  <2>4. CASE jobState'[j] # jobState[j]
    <3>1. Tracked(j) /\ cups[cupsId[j]].state \in CupsStates
          /\ jobState'[j] = ShownFor(cups[cupsId[j]].state)
      BY <1>4, <2>4, MaintenanceKeeps
    <3>2. jobState'[j] # "converting"
      BY <3>1 DEF ShownFor, CupsStates, CupsActive
    <3> QED BY <1>4, <3>1, <3>2, MaintenanceKeeps DEF Tracked
  <2> QED BY <2>3, <2>4
<1>5. ASSUME NEW t \in Tasks, Within(t) PROVE Converting(j) /\ Pending(j)
  <2>1. /\ LivePrints(j)' = LivePrints(j) /\ LiveRetries(j)' = LiveRetries(j)
        /\ RetryGivenUp(j) => RetryGivenUp(j)'
        /\ inFlight' = inFlight /\ dropped' = dropped
    BY <1>5, WithinKeeps DEF LivePrints, LiveRetries, Live, RetryGivenUp, queueVars
  <2>2. CASE j # work[t].job \/ UNCHANGED jobVars
    BY <1>2, <1>5, <2>1, <2>2, WithinKeeps DEF jobVars
  <2>3. CASE j = work[t].job
    <3>1. /\ IsPrint(t) => t \in LivePrints(j)'
          /\ IsCommand(t) /\ work[t].command = "retry" => t \in LiveRetries(j)'
      <4>1. Handles(t) /\ work[t] \in Contents
        BY <1>5, WithinKeeps, WorkIsContent
      <4>2. /\ IsPrint(t) => work[t] = PrintOf(j)
            /\ IsCommand(t) /\ work[t].command = "retry" => work[t] = CommandOf(j, "retry")
        BY <2>3, <4>1, ContentKinds DEF IsPrint, IsCommand
      <4>3. phase'[t] = "executing" /\ work'[t] = work[t]
        BY <1>5, <4>1, WithinKeeps DEF Handles, queueVars
      <4> QED BY <4>2, <4>3 DEF LivePrints, LiveRetries, Live
    <3> QED BY <1>5, <2>2, <2>3, <3>1, WithinSaves
  <2> QED BY <2>2, <2>3
<1>6. ASSUME NEW t \in Tasks, StartTask(t) \/ WorkerDies(t) PROVE Converting(j) /\ Pending(j)
  <2>1. UNCHANGED <<work, jobState, cupsId, source, inFlight, dropped>>
    BY <1>6 DEF StartTask, WorkerDies, jobVars
  <2>2. Live(t)' /\ Live(t) /\ \A u \in Tasks : u # t => phase'[u] = phase[u]
    BY <1>6, StartPhases, EndingPhases DEF StartTask, WorkerDies, Live
  <2>3. phase[t] # "failed"
    BY <2>2 DEF Live
  <2> QED BY <1>2, <2>1, <2>2, <2>3 DEF LivePrints, LiveRetries, Live, RetryGivenUp
<1>7. ASSUME NEW t \in Tasks, RetryEnqueue(t) PROVE Converting(j) /\ Pending(j)
  <2>1. PrintOf(work[t].job) \in Contents \ {NoWork} /\ Enqueue(PrintOf(work[t].job))
    BY <1>7, HandlerHasJob, ContentFields DEF Contents, RetryEnqueue, Running, Handles
  <2>2. Grows /\ UNCHANGED <<jobState, cupsId, source, inFlight, dropped>>
    BY <1>7, <2>1, EnqueueGrows DEF RetryEnqueue, jobVars
  <2>3. RetryGivenUp(j) => source[j] # "kept"
    BY DEF RetryGivenUp
  <2> QED BY <1>2, <2>2, <2>3, GrowsKeepsLive
<1>8. ASSUME NEW t \in Tasks, EndTask(t) PROVE Converting(j) /\ Pending(j)
  <2>1. /\ UNCHANGED <<work, jobState, cupsId, source, inFlight, dropped>>
        /\ (pc = "return" /\ Succeed(t)) \/ (pc = "raise" /\ Fail(t))
    <3>1. UNCHANGED <<work, jobState, cupsId, source, inFlight, dropped>>
      BY <1>8 DEF EndTask, jobVars
    <3>2. (pc = "return" /\ Succeed(t)) \/ (pc = "raise" /\ Fail(t))
      BY <1>8 DEF EndTask
    <3> QED BY <3>1, <3>2
  <2>2. /\ Handles(t) /\ \A u \in Tasks : u # t => phase'[u] = phase[u]
        /\ Succeed(t) => phase'[t] = "complete"
        /\ Fail(t) => phase'[t] \in {"waiting", "failed"}
    BY <2>1, EndingPhases DEF Handles
  <2>3. \A u \in Tasks : u # t => (Live(u) <=> Live(u)')
    BY <2>2 DEF Live
  <2>4. RetryGivenUp(j) => RetryGivenUp(j)'
    BY <2>1, <2>2 DEF RetryGivenUp, Handles
  <2>5. CASE work[t] # PrintOf(j) /\ work[t] # CommandOf(j, "retry")
    BY <1>2, <2>1, <2>3, <2>4, <2>5 DEF LivePrints, LiveRetries
  <2>6. CASE work[t] = PrintOf(j)
    <3>1. IsPrint(t) /\ work[t].job = j
      BY <2>6, ContentFields DEF IsPrint
    <3>2. jobState[j] \in {"submitted", "cancelled", "failed"}
      BY <2>1, <2>2, <3>1 DEF EndsWaiting
    <3> QED BY <2>1, <3>2
  <2>7. CASE work[t] = CommandOf(j, "retry")
    <3>1. IsCommand(t) /\ work[t].job = j /\ work[t].command = "retry" /\ work[t] # PrintOf(j)
      BY <2>7, ContentFields DEF IsCommand, Commands
    <3>2. \A u \in LivePrints(j) : u \in LivePrints(j)'
      BY <2>1, <2>3, <3>1 DEF LivePrints
    <3>3. CASE pc = "return"
      <4>1. \E u \in Tasks : u \in LivePrints(j)
        BY <2>2, <3>1, <3>3 DEF EndsWaiting, LivePrints
      <4> QED BY <3>2, <4>1
    <3>4. CASE pc = "raise" /\ phase'[t] = "waiting"
      <4>1. t \in LiveRetries(j)'
        BY <2>1, <2>7, <3>4 DEF LiveRetries, Live
      <4> QED BY <1>1, <2>1, <3>2, <4>1
    <3>5. CASE pc = "raise" /\ phase'[t] = "failed"
      <4>1. source[j] # "kept"
        BY <2>2, <3>1, <3>5 DEF EndsWaiting
      <4>2. RetryGivenUp(j)'
        BY <2>1, <2>7, <3>5, <4>1 DEF RetryGivenUp
      <4> QED BY <1>1, <2>1, <3>2, <4>2
    <3> QED BY <2>1, <2>2, <3>3, <3>4, <3>5
  <2> QED BY <2>5, <2>6, <2>7
<1> QED BY <1>3, <1>4, <1>5, <1>6, <1>7, <1>8, StepKinds
\* A standing cancel request keeps the job out of CUPS.
LEMMA CancelInductive ==
    ASSUME IInv, [Next]_vars
    PROVE  CancelSticks'
<1> USE DEF IInv
<1> SUFFICES ASSUME NEW j \in Jobs, cancelRequested'[j]
             PROVE  /\ jobState'[j] = "cancelled"
                    /\ ~Tracked(j)'
                    /\ \A t \in Tasks : Handles(t)' /\ work'[t] = PrintOf(j) =>
                         pc' \notin {"converting", "submitted"}
  BY DEF CancelSticks, LivePrints, Handles
<1> DEFINE Held == /\ jobState'[j] = "cancelled"
                   /\ ~Tracked(j)'
                   /\ \A t \in Tasks : Handles(t)' /\ work'[t] = PrintOf(j) =>
                        pc' \notin {"converting", "submitted"}
<1>1. cancelRequested[j] =>
        /\ jobState[j] = "cancelled" /\ ~Tracked(j)
        /\ \A t \in Tasks : Handles(t) /\ work[t] = PrintOf(j) =>
             pc \notin {"converting", "submitted"}
  BY DEF CancelSticks, LivePrints, Live, Handles
<1>2. CASE Outside
  BY <1>1, <1>2, OutsideKeeps DEF Grows, WorkFits, Handles, Tracked
<1>3. ASSUME NEW i \in Jobs, SyncJob(i) \/ CleanupJob(i) PROVE Held
  BY <1>1, <1>3, MaintenanceKeeps DEF Tracked
<1>4. ASSUME NEW t \in Tasks, Within(t) PROVE Held
  <2>1. \A u \in Tasks : Handles(u)' <=> u = t
    BY <1>4, WithinKeeps, OneHandler DEF Handles, queueVars
  <2>2. Handles(t) /\ work' = work /\ work[t].job \in Jobs
    BY <1>4, WithinKeeps
  <2>3. CASE j # work[t].job
    <3>1. UNCHANGED <<jobState[j], cupsId[j], cancelRequested[j]>>
      BY <1>4, <2>3, WithinKeeps
    <3>2. work[t] # PrintOf(j)
      BY <2>3, ContentFields
    <3> QED BY <1>1, <2>1, <2>2, <3>1, <3>2 DEF Tracked
  <2>4. CASE j = work[t].job
    <3>1. IsPrint(t) => work[t] = PrintOf(j)
      BY <2>4, WorkIsContent, ContentKinds DEF IsPrint
    <3>2. IsCommand(t) => work[t] # PrintOf(j)
      BY ContentFields, <2>2, <2>4 DEF IsCommand
    <3>3. pc = "commanded" => Tracked(j)
      BY <2>2, <2>4 DEF CommandFits
    <3> QED BY <1>1, <1>4, <2>1, <2>2, <2>4, <3>1, <3>2, <3>3, WithinSaves DEF Tracked, jobVars
  <2> QED BY <2>3, <2>4
<1>5. ASSUME NEW t \in Tasks, StartTask(t) \/ EndTask(t) \/ WorkerDies(t) PROVE Held
  <2>1. pc' \in {"begin", "idle"} /\ UNCHANGED jobVars
    BY <1>5 DEF StartTask, EndTask, WorkerDies
  <2> QED BY <1>1, <2>1 DEF jobVars, Tracked
<1>6. ASSUME NEW t \in Tasks, RetryEnqueue(t) PROVE Held
  <2>1. pc' = "return" /\ UNCHANGED jobVars
    BY <1>6 DEF RetryEnqueue
  <2> QED BY <1>1, <2>1 DEF jobVars, Tracked
<1> QED BY <1>2, <1>3, <1>4, <1>5, <1>6, StepKinds

\* What a user is shown goes on agreeing with CUPS.
LEMMA ShownInductive ==
    ASSUME IInv, [Next]_vars
    PROVE  ShownStateIsTracked'
<1> USE DEF IInv
<1> DEFINE Agrees(j) ==
        /\ jobState'[j] \in ShownAtCups => cupsId'[j] # 0
        /\ jobState'[j] = "complete" => cupsId'[j] # 0 /\ cups'[cupsId'[j]].state = "completed"
        /\ jobState'[j] = "cancelled" /\ cupsId'[j] # 0 =>
             cups'[cupsId'[j]].state \in {"canceled", "aborted"}
<1> SUFFICES ASSUME NEW j \in Jobs PROVE Agrees(j)
  BY DEF ShownStateIsTracked, Tracked
<1>1. /\ jobState[j] \in ShownAtCups => cupsId[j] # 0
      /\ jobState[j] = "complete" => cupsId[j] # 0 /\ cups[cupsId[j]].state = "completed"
      /\ jobState[j] = "cancelled" /\ cupsId[j] # 0 =>
           cups[cupsId[j]].state \in {"canceled", "aborted"}
  BY DEF ShownStateIsTracked, Tracked
<1>2. cupsId[j] \in 0..Len(cups) /\ Len(cups) \in Nat /\ (cupsId[j] # 0 => cupsId[j] \in DOMAIN cups)
  BY DEF TypeOK, CupsNumbered
\* A finished CUPS job stays as it is, so a row that keeps its state still agrees.
<1>3. ASSUME jobState'[j] = jobState[j], cupsId'[j] = cupsId[j] PROVE Agrees(j)
  BY <1>1, <1>2, <1>3, CupsKept DEF CupsActive
<1>4. CASE Outside
  BY <1>3, <1>4, OutsideKeeps DEF ShownAtCups
<1>5. ASSUME NEW i \in Jobs, SyncJob(i) \/ CleanupJob(i) PROVE Agrees(j)
  <2>1. CASE jobState'[j] = jobState[j]
    BY <1>3, <1>5, <2>1, MaintenanceKeeps
  <2>2. CASE jobState'[j] # jobState[j]
    <3>1. /\ cupsId[j] # 0 /\ cups[cupsId[j]].state \in CupsStates
          /\ jobState'[j] = ShownFor(cups[cupsId[j]].state) /\ UNCHANGED <<cups, cupsId>>
      BY <1>5, <2>2, MaintenanceKeeps DEF Tracked
    <3>2. /\ jobState'[j] = "complete" => cups[cupsId[j]].state = "completed"
          /\ jobState'[j] = "cancelled" => cups[cupsId[j]].state \in {"canceled", "aborted"}
      BY <3>1 DEF ShownFor, CupsStates, CupsActive
    <3> QED BY <3>1, <3>2
  <2> QED BY <2>1, <2>2
<1>6. ASSUME NEW t \in Tasks, Within(t) PROVE Agrees(j)
  <2>1. Handles(t) /\ work[t].job \in Jobs
    BY <1>6, WithinKeeps
  <2>2. CASE j # work[t].job \/ UNCHANGED jobVars
    BY <1>3, <1>6, <2>2, WithinKeeps DEF jobVars
  <2>3. CASE j = work[t].job /\ ~UNCHANGED jobVars
    <3>1. PrintSubmitted(t) /\ pc = "submitted" => Len(cups) # 0
      BY <1>2, <2>1 DEF SubmittedFits
    <3>2. cancelRequested[j] => cupsId[j] = 0
      BY DEF CancelSticks, Tracked
    <3>3. pc = "commanded" => /\ cupsId[j] # 0
                              /\ work[t].command = "cancel" => cups[cupsId[j]].state = "canceled"
      BY <2>1, <2>3 DEF CommandFits, Tracked
    <3> QED BY <1>6, <2>3, <3>1, <3>2, <3>3, WithinSaves DEF ShownAtCups
  <2> QED BY <2>2, <2>3
<1>7. ASSUME NEW t \in Tasks,
             StartTask(t) \/ RetryEnqueue(t) \/ EndTask(t) \/ WorkerDies(t)
      PROVE  Agrees(j)
  BY <1>3, <1>7 DEF StartTask, RetryEnqueue, EndTask, WorkerDies, jobVars
<1> QED BY <1>4, <1>5, <1>6, <1>7, StepKinds

LEMMA MadeByFinite ==
    ASSUME CupsNumbered, NEW t \in Tasks
    PROVE  IsFiniteSet(MadeBy(t)) /\ Cardinality(MadeBy(t)) \in Nat
<1>1. MadeBy(t) \subseteq 1..Len(cups) /\ Len(cups) \in Nat
  BY DEF CupsNumbered, MadeBy
<1>2. IsFiniteSet(1..Len(cups))
  BY <1>1, FS_Interval
<1>3. IsFiniteSet(MadeBy(t))
  BY <1>1, <1>2, FS_Subset
<1> QED BY <1>3, FS_CardinalityType

\* The documents handed to CUPS are within what the row of the task accounts for.
LEMMA SubmittedInductive ==
    ASSUME IInv, [Next]_vars
    PROVE  SubmittedOnce'
<1> USE DEF IInv
<1> SUFFICES ASSUME NEW t \in Tasks
             PROVE  /\ Cardinality(MadeBy(t)') <= Allowed(t)'
                    /\ MadeBy(t)' # {} => IsPrint(t)'
  BY DEF SubmittedOnce
<1>1. /\ IsFiniteSet(MadeBy(t)) /\ Cardinality(MadeBy(t)) \in Nat
      /\ Cardinality(MadeBy(t)) <= Allowed(t)
      /\ MadeBy(t) # {} => IsPrint(t)
      /\ lost[t] \in Nat
  BY MadeByFinite DEF SubmittedOnce, TypeOK
<1>2. CASE \E u \in Tasks : PrintSubmit(u)
  <2> PICK u \in Tasks : PrintSubmit(u)
    BY <1>2
  <2>1. /\ Handles(u) /\ IsPrint(u) /\ pc = "converting" /\ pc' = "submitted"
        /\ UNCHANGED <<phase, lost, work>>
        /\ cups' = Append(cups, [task |-> u, state |-> "pending"])
    BY DEF PrintSubmit, Running, Handles, IsPrint, queueVars
  <2>2. /\ Len(cups') = Len(cups) + 1 /\ DOMAIN cups' = DOMAIN cups \cup {Len(cups')}
        /\ cups'[Len(cups')].task = u /\ \A k \in DOMAIN cups : cups'[k] = cups[k]
        /\ Len(cups') \notin DOMAIN cups
    BY <2>1, CupsAppend DEF CupsStates, CupsActive, CupsNumbered
  <2>3. CASE t = u
    <3>1. MadeBy(t)' = MadeBy(t) \cup {Len(cups')} /\ Len(cups') \notin MadeBy(t)
      BY <2>2, <2>3 DEF MadeBy
    <3>2. Cardinality(MadeBy(t)') = Cardinality(MadeBy(t)) + 1
      BY <1>1, <3>1, FS_AddElement
    <3>3. Allowed(t) = lost[t] /\ Allowed(t)' = lost[t] + 1
      BY <2>1, <2>3 DEF Allowed, Handles
    <3> QED BY <1>1, <2>1, <2>3, <3>2, <3>3 DEF IsPrint
  <2>4. CASE t # u
    <3>1. MadeBy(t)' = MadeBy(t)
      BY <2>2, <2>4 DEF MadeBy
    <3>2. Allowed(t)' = Allowed(t)
      <4>1. ~Handles(t) /\ ~Handles(t)'
        BY <2>1, <2>4, OneHandler DEF Handles
      <4> QED BY <2>1, <4>1 DEF Allowed
    <3> QED BY <1>1, <2>1, <3>1, <3>2 DEF IsPrint
  <2> QED BY <2>3, <2>4
<1>3. CASE \A u \in Tasks : ~PrintSubmit(u)
  <2>1. MadeBy(t)' = MadeBy(t)
    <3>1. DOMAIN cups' = DOMAIN cups
      <4>1. ASSUME NEW u \in Tasks, CommandCups(u) PROVE DOMAIN cups' = DOMAIN cups
        BY <4>1 DEF CommandCups
      <4>2. ASSUME NEW i \in DOMAIN cups, CupsWorks(i) PROVE DOMAIN cups' = DOMAIN cups
        BY <4>2 DEF CupsWorks
      <4> QED BY <1>3, <4>1, <4>2, CupsSteps
    <3> QED BY <3>1, CupsKept DEF MadeBy
  <2>2. Allowed(t) <= Allowed(t)' /\ Allowed(t) \in Nat /\ Allowed(t)' \in Nat
        /\ (IsPrint(t) => IsPrint(t)')
    <3>1. CASE Outside
      <4>1. /\ Handles(t)' <=> Handles(t)
            /\ phase[t] = "complete" => phase'[t] = "complete"
            /\ IsPrint(t) => IsPrint(t)'
        BY <3>1, OutsideKeeps, WorkIsContent DEF Grows, WorkFits, IsPrint
      <4> QED BY <1>1, <3>1, <4>1, OutsideKeeps DEF Allowed
    <3>2. ASSUME NEW i \in Jobs, SyncJob(i) \/ CleanupJob(i)
          PROVE  UNCHANGED <<phase, lost, work, pc>>
      BY <3>2, MaintenanceKeeps DEF queueVars
    <3>3. ASSUME NEW u \in Tasks, Within(u)
          PROVE  /\ Allowed(t) <= Allowed(t)' /\ Allowed(t) \in Nat /\ Allowed(t)' \in Nat
                 /\ (IsPrint(t) => IsPrint(t)')
      <4>1. UNCHANGED <<phase, lost, work>> /\ Handles(u)
        BY <3>3, WithinKeeps DEF queueVars
      <4>2. pc \in {"submitted", "return"} => pc' \in {"submitted", "return"}
        <5>1. pc # "return"
          BY <3>3 DEF Within, PrintCancelled, PrintConverting, PrintSubmit, PrintSubmitted,
             PrintFails, RetryReset, RetryRefused, CommandCups, CommandRefused, CommandSaved,
             CancelWaiting, CommandIgnored, Running
        <5>2. pc = "submitted" => PrintSubmitted(u)
          BY <3>3 DEF Within, PrintCancelled, PrintConverting, PrintSubmit,
             PrintFails, RetryReset, RetryRefused, CommandCups, CommandRefused, CommandSaved,
             CancelWaiting, CommandIgnored, Running
        <5> QED BY <5>1, <5>2 DEF PrintSubmitted, Save
      <4> QED BY <1>1, <4>1, <4>2 DEF Allowed, Handles, IsPrint
    <3>4. ASSUME NEW u \in Tasks, StartTask(u)
          PROVE  /\ Allowed(t) <= Allowed(t)' /\ Allowed(t) \in Nat /\ Allowed(t)' \in Nat
                 /\ (IsPrint(t) => IsPrint(t)')
      <4>1. \A v \in Tasks : ~Handles(v)
        BY <3>4, NoneExecutes, PrintJobsAssumption DEF StartTask, Handles
      <4>2. UNCHANGED <<lost, work>> /\ pc' = "begin"
        BY <3>4 DEF StartTask
      <4>3. phase[t] = "complete" => phase'[t] = "complete"
        BY <3>4, StartPhases DEF StartTask
      <4>4. phase[t] # "complete" => Allowed(t) = lost[t]
        BY <4>1 DEF Allowed
      <4> QED BY <1>1, <4>2, <4>3, <4>4 DEF Allowed, IsPrint
    <3>5. ASSUME NEW u \in Tasks, RetryEnqueue(u)
          PROVE  /\ Allowed(t) <= Allowed(t)' /\ Allowed(t) \in Nat /\ Allowed(t)' \in Nat
                 /\ (IsPrint(t) => IsPrint(t)')
      <4>1. PrintOf(work[u].job) \in Contents \ {NoWork} /\ Enqueue(PrintOf(work[u].job))
        BY <3>5, HandlerHasJob, ContentFields DEF Contents, RetryEnqueue, Running, Handles
      <4>2. Grows /\ lost' = lost /\ pc = "reset"
        BY <3>5, <4>1, EnqueueGrows DEF RetryEnqueue, Running
      <4>3. /\ phase[t] = "complete" => phase'[t] = "complete"
            /\ IsPrint(t) => IsPrint(t)'
        BY <4>2, WorkIsContent DEF Grows, WorkFits, IsPrint
      <4> QED BY <1>1, <4>2, <4>3 DEF Allowed
    <3>6. ASSUME NEW u \in Tasks, EndTask(u)
          PROVE  /\ Allowed(t) <= Allowed(t)' /\ Allowed(t) \in Nat /\ Allowed(t)' \in Nat
                 /\ (IsPrint(t) => IsPrint(t)')
      <4>1. (pc = "return" /\ Succeed(u)) \/ (pc = "raise" /\ Fail(u))
        BY <3>6 DEF EndTask
      <4>2. UNCHANGED <<lost, work>>
        BY <3>6 DEF EndTask
      <4>3. CASE t = u
        BY <1>1, <4>1, <4>2, <4>3, EndingPhases DEF Allowed, IsPrint
      <4>4. CASE t # u
        <5>1. ~Handles(t) /\ phase'[t] = phase[t]
          BY <4>1, <4>4, EndingPhases, OneHandler DEF Handles
        <5> QED BY <1>1, <4>2, <5>1 DEF Allowed, Handles, IsPrint
      <4> QED BY <4>3, <4>4
    <3>7. ASSUME NEW u \in Tasks, WorkerDies(u)
          PROVE  /\ Allowed(t) <= Allowed(t)' /\ Allowed(t) \in Nat /\ Allowed(t)' \in Nat
                 /\ (IsPrint(t) => IsPrint(t)')
      <4>1. Lose(u) /\ lost' = [lost EXCEPT ![u] = @ + 1] /\ work' = work
        BY <3>7 DEF WorkerDies
      <4>2. phase[u] = "executing" /\ \A v \in Tasks : v # u => phase'[v] = phase[v]
        BY <4>1, EndingPhases
      <4>3. lost \in [Tasks -> 0..MaxExits]
        BY DEF TypeOK
      <4>4. CASE t = u
        <5>1. phase[t] # "complete" /\ lost'[t] = lost[t] + 1
          BY <4>1, <4>2, <4>3, <4>4
        <5> QED BY <1>1, <4>1, <5>1 DEF Allowed, IsPrint
      <4>5. CASE t # u
        <5>1. ~Handles(t) /\ phase'[t] = phase[t] /\ lost'[t] = lost[t]
          BY <4>1, <4>2, <4>3, <4>5, OneHandler DEF Handles
        <5> QED BY <1>1, <4>1, <5>1 DEF Allowed, Handles, IsPrint
      <4> QED BY <4>4, <4>5
    <3>8. UNCHANGED <<phase, lost, work, pc>> =>
            /\ Allowed(t) <= Allowed(t)' /\ Allowed(t) \in Nat /\ Allowed(t)' \in Nat
            /\ (IsPrint(t) => IsPrint(t)')
      BY <1>1 DEF Allowed, Handles, IsPrint
    <3> QED BY <3>1, <3>2, <3>3, <3>4, <3>5, <3>6, <3>7, <3>8, StepKinds
  <2> QED BY <1>1, <2>1, <2>2
<1> QED BY <1>2, <1>3
-----------------------------------------------------------------------------
LEMMA Starts == Init => IInv
<1> SUFFICES ASSUME Init PROVE IInv
  OBVIOUS
<1> USE PrintJobsAssumption DEF Init
<1>1. QueueOK
  BY QueueStarts
<1>2. /\ \A t \in Tasks : work[t] = NoWork /\ phase[t] = "absent" /\ lost[t] = 0
      /\ \A j \in Jobs : jobState[j] = "absent" /\ cupsId[j] = 0 /\ ~cancelRequested[j]
      /\ \A t \in Tasks : ~IsPrint(t) /\ ~IsCommand(t) /\ ~Handles(t)
  BY ContentFields DEF QueueInit, IsPrint, IsCommand, Handles
<1>3. CupsNumbered /\ Len(cups) = 0 /\ DOMAIN cups = {}
  BY DEF CupsNumbered
<1>4. TypeOK
  <2>1. /\ phase \in [Tasks -> {"absent", "waiting", "executing", "complete", "failed"}]
        /\ executor \in [Tasks -> Workers \cup {NoWorker}]
        /\ tries \in [Tasks -> Nat]
        /\ limit \in [Tasks -> RetryLimits \cup {0}]
    BY DEF QueueInit
  <2>2. work \in [Tasks -> Contents] /\ pc \in PCs /\ jobState \in [Jobs -> JobStates]
    BY DEF Contents, PCs, JobStates
  <2>3. cupsId \in [Jobs -> 0..Len(cups)]
    BY <1>3
  <2> QED BY <1>3, <2>1, <2>2, <2>3 DEF TypeOK
<1>5. WorkFits /\ RowsExist /\ PcFits /\ LossesCounted
  BY <1>2 DEF WorkFits, RowsExist, PcFits, LossesCounted
<1>6. SubmittedFits /\ TrackedIsOwn /\ CommandFits /\ EndsWaiting
  BY <1>2 DEF SubmittedFits, TrackedIsOwn, Tracked, CommandFits, EndsWaiting
<1>7. WaitingHasTask /\ CancelSticks /\ ShownStateIsTracked
  BY <1>2 DEF WaitingHasTask, CancelSticks, ShownStateIsTracked, ShownAtCups
<1>8. SubmittedOnce
  <2> SUFFICES ASSUME NEW t \in Tasks
               PROVE  Cardinality(MadeBy(t)) <= Allowed(t) /\ MadeBy(t) = {}
    BY DEF SubmittedOnce
  <2>1. MadeBy(t) = {}
    BY <1>3 DEF MadeBy
  <2>2. Cardinality({}) = 0
    BY FS_EmptySet
  <2>3. Allowed(t) = 0
    BY <1>2 DEF Allowed
  <2> QED BY <2>1, <2>2, <2>3
<1> QED BY <1>1, <1>3, <1>4, <1>5, <1>6, <1>7, <1>8 DEF IInv

\* The inductive invariant: rows, tasks, the place in the handler and CUPS fit.
THEOREM Inductive == Spec => []IInv
<1>1. IInv /\ [Next]_vars => IInv'
  <2> SUFFICES ASSUME IInv, [Next]_vars PROVE IInv'
    OBVIOUS
  <2>1. QueueOK' /\ TypeOK' /\ CupsNumbered' /\ LossesCounted'
    BY TypesInductive
  <2>2. WorkFits' /\ PcFits' /\ RowsExist'
    BY PlacesInductive, RowsInductive
  <2>3. SubmittedFits' /\ TrackedIsOwn' /\ CommandFits' /\ EndsWaiting'
    BY <2>2, HandedOver, TrackedInductive, CommandInductive, EndsInductive
  <2>4. WaitingHasTask' /\ CancelSticks' /\ ShownStateIsTracked' /\ SubmittedOnce'
    BY WaitingInductive, CancelInductive, ShownInductive, SubmittedInductive
  <2> QED BY <2>1, <2>2, <2>3, <2>4 DEF IInv
<1> QED BY Starts, <1>1, PTL DEF Spec

\* Rows, tasks and CUPS jobs hold values of their kinds, whatever the handlers,
\* the cleanup and the deaths of the worker do to them.
THEOREM TypeCorrect == Spec => []TypeOK
<1>1. IInv => TypeOK
  BY DEF IInv
<1> QED BY Inductive, <1>1, PTL

\* A job that shows as pending or converting is waiting for a task, or has one of
\* the excuses WaitingHasTask names.
THEOREM WaitingJobHasTask == Spec => []WaitingHasTask
<1>1. IInv => WaitingHasTask
  BY DEF IInv
<1> QED BY Inductive, <1>1, PTL

\* A cancel request that handle_print_job_command leaves to handle_print is not
\* lost, whichever print task of the job runs first.
THEOREM CancelIsKept == Spec => []CancelSticks
<1>1. IInv => CancelSticks
  BY DEF IInv
<1> QED BY Inductive, <1>1, PTL

\* The shown state agrees with the CUPS job after every save, sync and death.
THEOREM ShownAgrees == Spec => []ShownStateIsTracked
<1>1. IInv => ShownStateIsTracked
  BY DEF IInv
<1> QED BY Inductive, <1>1, PTL

\* A print task hands over one document, and one more for each execution lost.
THEOREM NothingPrintsTwice == Spec => []SubmissionsAccounted
<1>1. IInv => SubmissionsAccounted
  <2> SUFFICES ASSUME IInv, NEW t \in Tasks
               PROVE  /\ Cardinality(MadeBy(t)) <= 1 + lost[t]
                      /\ MadeBy(t) # {} => work[t].kind = "print"
    BY DEF SubmissionsAccounted
  <2>1. /\ Cardinality(MadeBy(t)) <= Allowed(t)
        /\ MadeBy(t) # {} => IsPrint(t)
        /\ lost[t] \in Nat
    BY DEF IInv, SubmittedOnce, TypeOK
  <2>2. Cardinality(MadeBy(t)) \in Nat
    BY MadeByFinite DEF IInv
  <2> QED BY <2>1, <2>2 DEF Allowed, IsPrint
<1> QED BY Inductive, <1>1, PTL

\* The CUPS job in cups_job_id was made by a print task of the same job: no row
\* shows, holds or cancels the document of another.
THEOREM TracksItsOwn == Spec => []TrackedIsOwn
<1>1. IInv => TrackedIsOwn
  BY DEF IInv
<1> QED BY Inductive, <1>1, PTL

\* The handlers use the queue as AtLeastOnceQueue.tla allows: every step submits,
\* starts or ends one task or leaves the queue alone.
THEOREM JobsKeepToQueue == Spec => QueueSpec
<1>1. Init => QueueInit
  BY DEF Init
<1>2. [Next]_vars => [QueueNext]_queueVars
  <2> SUFFICES ASSUME [Next]_vars PROVE QueueNext \/ UNCHANGED queueVars
    OBVIOUS
  <2>1. ASSUME NEW content, Enqueue(content) PROVE QueueNext
    BY <2>1, SubmitIsStep DEF Enqueue, Free
  <2>2. CASE Outside
    BY <2>1, <2>2 DEF Outside, CreateJob, EnqueuePrint, RequestDies, RequestCommand,
                      CupsWorks, vars
  <2>3. ASSUME NEW j \in Jobs, SyncJob(j) \/ CleanupJob(j) PROVE UNCHANGED queueVars
    BY <2>3 DEF SyncJob, CleanupJob, Save
  <2>4. ASSUME NEW t \in Tasks, StartTask(t) \/ EndTask(t) \/ WorkerDies(t) PROVE QueueNext
    BY <2>4 DEF StartTask, EndTask, WorkerDies, QueueNext
  <2>5. ASSUME NEW t \in Tasks, Within(t) PROVE UNCHANGED queueVars
    BY <2>5 DEF Within, PrintCancelled, PrintConverting, PrintSubmit, PrintSubmitted,
                PrintFails, RetryReset, RetryRefused, CommandCups, CommandRefused,
                CommandSaved, CancelWaiting, CommandIgnored, Save
  <2>6. ASSUME NEW t \in Tasks, RetryEnqueue(t) PROVE QueueNext
    BY <2>1, <2>6 DEF RetryEnqueue
  <2> QED BY <2>2, <2>3, <2>4, <2>5, <2>6, StepKinds
<1> QED BY <1>1, <1>2, PTL DEF Spec, QueueSpec
=============================================================================
