--------------------------- MODULE ScanJobs_proofs ---------------------------
(***************************************************************************)
(* The invariants of ScanJobs.tla for any number of jobs, pages, retries   *)
(* and deaths, and that what it does to its tasks is what the abstract     *)
(* queue allows. One worker is assumed, as ScanJobsAssumption says.        *)
(***************************************************************************)
EXTENDS ScanJobs, AtLeastOnceQueue_proofs, FiniteSetTheorems

Handles(t) == phase[t] = "executing"
IsScan(t) == scanOf[t] \in Jobs

\* A row has a payload from its enqueueing on, and no two have the same job: the
\* job in flight is not enqueued yet.
OneScanEach ==
    /\ \A t \in Tasks : IsScan(t) <=> phase[t] # "absent"
    /\ \A t, u \in Tasks : IsScan(t) /\ scanOf[t] = scanOf[u] => t = u
    /\ \A t \in Tasks : IsScan(t) => jobState[scanOf[t]] # "absent" /\ scanOf[t] \notin inFlight
    /\ \A j \in inFlight : jobState[j] # "absent"

PcFits == pc = "idle" <=> \A t \in Tasks : ~Handles(t)

\* Pages are those of attempts that were begun.
PagesBegun ==
    \A j \in Jobs, n \in PageNumbers :
        pages[j][n] <= Begun(j) /\ result[j].pages[n] <= Begun(j)

\* A job that was never begun has nothing to offer.
Unbegun ==
    \A j \in Jobs : Begun(j) = 0 =>
        /\ jobState[j] \in {"absent", "pending", "cancelled"}
        /\ cancelling[j] \in {NotCancelling, "pending", "cancelled"}
        /\ ~offered[j] /\ j \notin deleting

\* An attempt that goes on in spite of a cancel had begun before it ...
CancelSeen ==
    \A t \in Tasks :
        Handles(t) /\ cancelRequested[scanOf[t]]
          /\ pc \notin {"begin", "cancelled", "return", "raise"}
          => tries[t] <= cancelledIn[scanOf[t]]

\* ... and a job cancelled before the first has no cancel that brings it back.
NeverBack ==
    \A j \in Jobs : cancelRequested[j] /\ cancelledIn[j] = 0 =>
        cancelling[j] \in {NotCancelling, "pending", "cancelled"}

\* A handler that is over has left an end state, or a cancel has overwritten it.
EndsShown ==
    \A t \in Tasks : Handles(t) /\ pc \in {"return", "raise"} =>
        jobState[scanOf[t]] \notin {"pending", "scanning"} \/ scanOf[t] \in stale

\* What the user has been offered is not scanned again, unless the worker died
\* before the task was over.
NotOffered ==
    \A t \in Tasks :
        phase[t] = "waiting" \/ (Handles(t) /\ pc # "return") =>
            scanOf[t] \in unrecorded \/ (~offered[scanOf[t]] /\ scanOf[t] \notin deleting)

\* What was delivered is not scanned again either, unless a cancel saved an older state.
NotAgain ==
    \A t \in Tasks :
        phase[t] = "waiting" \/ (Handles(t) /\ pc # "return") =>
            jobState[scanOf[t]] # "complete" \/ scanOf[t] \in unrecorded \cup stale

\* The result that the handler writes.
ResultFits ==
    \A t \in Tasks : Handles(t) /\ scanOf[t] \notin unrecorded =>
        /\ pc = "assembling" => result[scanOf[t]].file = "partial"
        /\ pc \in {"assembled", "protected"} => result[scanOf[t]].file = "whole"

InOrder(p) == \A m, n \in PageNumbers : m < n /\ p[m] # 0 => p[m] >= p[n]
FilesInOrder == \A j \in Jobs : InOrder(pages[j])

\* The pages of the running attempt come first; before scanimage starts it has none.
OwnPagesFirst ==
    \A t \in Tasks : Handles(t) =>
        /\ pc \in {"begin", "loaded", "resolving"} =>
             \A n \in PageNumbers : pages[scanOf[t]][n] < tries[t]
        /\ pc = "scanning" => \E k \in 0..MaxPages : OwnPages(scanOf[t], tries[t]) = 1..k

IInv ==
    /\ QueueOK /\ TypeOK /\ OneScanEach /\ PcFits
    /\ PagesBegun /\ Unbegun /\ CancelSeen /\ NeverBack /\ EndsShown
    /\ NotOffered /\ NotAgain /\ ResultFits /\ FilesInOrder /\ OwnPagesFirst
    /\ ActiveHasTask /\ CancelHolds /\ OfferedIsWhole /\ PagesInOrder
-----------------------------------------------------------------------------
(* The steps.                                                              *)

\* The handler steps that leave the queue alone.
Within(t) ==
    \/ Load(t) \/ ScanCancelled(t) \/ Scanning(t) \/ Launch(t)
    \/ NextPage(t) \/ PollCancelled(t) \/ Assemble(t) \/ Assembled(t)
    \/ UnlinkPage(t) \/ Protect(t) \/ Deliver(t) \/ ScanFails(t)

\* The requests that leave the queue alone.
Web(j) ==
    \/ CreateScan(j) \/ RequestDies(j) \/ ReadCancel(j) \/ SaveCancel(j)
    \/ DeleteFile(j) \/ DeletePath(j)

LEMMA StepKinds ==
    ASSUME [Next]_vars
    PROVE  \/ \E j \in Jobs : Web(j) \/ EnqueueScan(j) \/ CleanupScan(j)
           \/ \E t \in Tasks : StartTask(t) \/ Within(t) \/ EndTask(t) \/ WorkerDies(t)
           \/ UNCHANGED vars
BY DEF Next, HandlerStep, Web, Within

LEMMA WebKeeps ==
    ASSUME NEW j \in Jobs, Web(j)
    PROVE  UNCHANGED <<queueVars, scanOf, pages, pc, unrecorded, unswept>>
BY DEF Web, CreateScan, RequestDies, ReadCancel, SaveCancel, DeleteFile, DeletePath,
       fileVars, rowVars, history

LEMMA WithinKeeps ==
    ASSUME NEW t \in Tasks, Within(t)
    PROVE  /\ Handles(t) /\ pc # "idle" /\ pc' # "idle" /\ pc \notin {"return", "raise"}
           /\ UNCHANGED <<queueVars, scanOf, cancelRequested, webVars, history>>
BY DEF Within, Load, ScanCancelled, Scanning, Launch, NextPage, PollCancelled, Assemble,
       Assembled, UnlinkPage, Protect, Deliver, ScanFails, Running, Goto, SaveState,
       Handles, rowVars

LEMMA CleanupKeeps ==
    ASSUME NEW j \in Jobs, CleanupScan(j)
    PROVE  /\ pc = "idle"
           /\ UNCHANGED <<queueVars, scanOf, jobState, cancelRequested, pc, webVars,
                          dropped, unrecorded, stale, cancelledIn>>
BY DEF CleanupScan

\* The end of an execution, whichever way.
LEMMA EndingLeaves ==
    ASSUME QueueOK, NEW t \in Tasks, EndTask(t) \/ WorkerDies(t)
    PROVE  /\ Handles(t) /\ QueueOK' /\ pc' = "idle"
           /\ \A u \in Tasks : u # t => phase'[u] = phase[u]
           /\ phase'[t] \notin {"executing", "absent"}
           /\ UNCHANGED <<tries, scanOf, rowVars, fileVars, webVars, dropped, stale, unswept,
                          cancelledIn>>
           /\ EndTask(t) => UNCHANGED unrecorded
           /\ WorkerDies(t) => /\ phase'[t] = "waiting"
                               /\ unrecorded \subseteq unrecorded'
                               /\ pc = "return" => scanOf[t] \in unrecorded'
<1>1. CASE EndTask(t)
  <2>1. (pc = "return" /\ Succeed(t)) \/ (pc = "raise" /\ Fail(t))
    BY <1>1 DEF EndTask, Running
  <2>2. ~(WorkerDies(t)) \/ phase'[t] = "waiting"
    BY EndingPhases DEF WorkerDies
  <2>3. WorkerDies(t) => unrecorded \subseteq unrecorded' /\ (pc = "return" => scanOf[t] \in unrecorded')
    BY DEF WorkerDies
  <2> QED BY <1>1, <2>1, <2>2, <2>3, EndingKeeps, EndingPhases DEF EndTask, Handles, history
<1>2. CASE WorkerDies(t) /\ ~EndTask(t)
  BY <1>2, EndingKeeps, EndingPhases DEF WorkerDies, Handles
<1> QED BY <1>1, <1>2

LEMMA OneHandler ==
    ASSUME QueueOK, NEW t \in Tasks, NEW u \in Tasks, Handles(t), Handles(u)
    PROVE  t = u
BY OneExecutes, ScanJobsAssumption DEF Handles

LEMMA HandlerHasJob ==
    ASSUME IInv, NEW t \in Tasks, phase[t] # "absent"
    PROVE  scanOf[t] \in Jobs
BY DEF IInv, OneScanEach, IsScan

-----------------------------------------------------------------------------
(* Types.                                                                  *)

Results == [file : {"none", "partial", "whole"}, pages : [PageNumbers -> Nat]]

LEMMA ResultFields ==
    /\ NoPages \in [PageNumbers -> Nat] /\ \A n \in PageNumbers : NoPages[n] = 0
    /\ NoResult \in Results /\ NoResult.file = "none" /\ NoResult.pages = NoPages
    /\ \A f \in {"partial", "whole"}, p \in [PageNumbers -> Nat] :
         /\ [file |-> f, pages |-> p] \in Results
         /\ [file |-> f, pages |-> p].file = f /\ [file |-> f, pages |-> p].pages = p
<1>1. NoPages \in [PageNumbers -> Nat] /\ \A n \in PageNumbers : NoPages[n] = 0
  BY DEF NoPages
<1> QED BY <1>1 DEF NoResult, Results

PCs == {"idle", "begin", "cancelled", "loaded", "resolving", "scanning",
        "assembling", "assembled", "protected", "return", "raise"}

RowsTyped ==
    /\ jobState \in [Jobs -> JobStates]
    /\ cancelRequested \in [Jobs -> BOOLEAN]
    /\ offered \in [Jobs -> BOOLEAN]
    /\ pc \in PCs

FilesTyped ==
    /\ pages \in [Jobs -> [PageNumbers -> Nat]]
    /\ result \in [Jobs -> Results]

RestTyped ==
    /\ scanOf \in [Tasks -> Jobs \cup {NoJob}]
    /\ cancelling \in [Jobs -> (JobStates \ {"absent"}) \cup {NotCancelling}]
    /\ exits \in 0..MaxExits
    /\ inFlight \subseteq Jobs /\ deleting \subseteq Jobs /\ dropped \subseteq Jobs
    /\ unrecorded \subseteq Jobs /\ stale \subseteq Jobs /\ unswept \subseteq Jobs
    /\ cancelledIn \in [Jobs -> Nat]

LEMMA TypesSplit == TypeOK <=> RowsTyped /\ FilesTyped /\ RestTyped
BY DEF TypeOK, RowsTyped, FilesTyped, RestTyped, PCs, Results

\* A job has one task, and its executions are the attempts at it.
LEMMA TaskOfJob ==
    ASSUME OneScanEach, NEW t \in Tasks, IsScan(t)
    PROVE  TasksOf(scanOf[t]) = {t} /\ Begun(scanOf[t]) = tries[t]
<1>1. TasksOf(scanOf[t]) = {t}
  BY DEF TasksOf, OneScanEach
<1>2. (CHOOSE u \in TasksOf(scanOf[t]) : TRUE) = t
  BY <1>1
<1> QED BY <1>1, <1>2 DEF Begun

LEMMA BegunType ==
    ASSUME QueueOK, OneScanEach, NEW j \in Jobs
    PROVE  Begun(j) \in Nat
<1>1. CASE TasksOf(j) = {}
  BY <1>1 DEF Begun
<1>2. CASE \E t \in Tasks : scanOf[t] = j
  BY <1>2, TaskOfJob DEF IsScan, QueueOK, QueueTypeOK
<1> QED BY <1>1, <1>2 DEF TasksOf

\* A page file is written or, for 0, unlinked.
SetPage(j, n, a) == pages' = [pages EXCEPT ![j][n] = a]

LEMMA PageChanges ==
    ASSUME FilesTyped, NEW j \in Jobs, NEW n \in PageNumbers, NEW a \in Nat, SetPage(j, n, a)
    PROVE  /\ pages' \in [Jobs -> [PageNumbers -> Nat]]
           /\ pages'[j][n] = a
           /\ \A m \in PageNumbers : m # n => pages'[j][m] = pages[j][m]
           /\ \A i \in Jobs : i # j => pages'[i] = pages[i]
<1> DEFINE new == [pages[j] EXCEPT ![n] = a]
<1>1. pages \in [Jobs -> [PageNumbers -> Nat]] /\ pages[j] \in [PageNumbers -> Nat]
  BY DEF FilesTyped
<1>2. /\ new \in [PageNumbers -> Nat] /\ new[n] = a
      /\ \A m \in PageNumbers : m # n => new[m] = pages[j][m]
  BY <1>1
<1>3. pages' = [pages EXCEPT ![j] = new]
  BY DEF SetPage
<1> HIDE DEF new
<1> QED BY <1>1, <1>2, <1>3

\* scanimage numbers its next page within the feeder.
LEMMA NextNumber ==
    ASSUME NEW t \in Tasks, NextPage(t)
    PROVE  LET n == Cardinality(OwnPages(scanOf[t], tries[t])) + 1
           IN  n \in PageNumbers /\ SetPage(scanOf[t], n, tries[t])
<1> DEFINE own == OwnPages(scanOf[t], tries[t])
<1>1. IsFiniteSet(own)
  <2>1. IsFiniteSet(PageNumbers)
    BY FS_Interval, ScanJobsAssumption DEF PageNumbers
  <2>2. own \subseteq PageNumbers
    BY DEF OwnPages
  <2> QED BY <2>1, <2>2, FS_Subset
<1>2. Cardinality(own) \in Nat
  BY <1>1, FS_CardinalityType
<1> QED BY <1>2, ScanJobsAssumption DEF NextPage, PageNumbers, SetPage

LEMMA TypesInductive ==
    ASSUME IInv, [Next]_vars
    PROVE  QueueOK' /\ TypeOK'
<1> USE ScanJobsAssumption
<1>1. QueueOK /\ RowsTyped /\ FilesTyped /\ RestTyped
  BY TypesSplit DEF IInv
<1> DEFINE Rest == QueueOK' /\ RowsTyped' /\ FilesTyped' /\ RestTyped'
<1>2. ASSUME NEW j \in Jobs, Web(j) PROVE Rest
  <2>1. QueueOK' /\ pc' = pc /\ pages' = pages
    BY <1>1, <1>2, WebKeeps, StutterKeeps
  <2>2. RowsTyped'
    <3>1. cancelling[j] # NotCancelling => AfterCancel(cancelling[j]) \in JobStates
      BY <1>1 DEF RestTyped, AfterCancel, JobStates
    <3> QED BY <1>1, <1>2, <3>1 DEF Web, CreateScan, RequestDies, ReadCancel, SaveCancel,
            DeleteFile, DeletePath, RowsTyped, rowVars, Set, JobStates
  <2>3. FilesTyped'
    BY <1>1, <1>2, ResultFields DEF Web, CreateScan, RequestDies, ReadCancel, SaveCancel,
        DeleteFile, DeletePath, FilesTyped, fileVars, Set
  <2>4. RestTyped'
    <3>1. jobState[j] \in JobStates /\ Begun(j) \in Nat
      BY <1>1, BegunType DEF RowsTyped, IInv
    <3>2. cancelledIn' \in [Jobs -> Nat]
      BY <1>1, <1>2, <3>1 DEF Web, CreateScan, RequestDies, ReadCancel, SaveCancel,
          DeleteFile, DeletePath, RestTyped, Set, history
    <3>3. cancelling' \in [Jobs -> (JobStates \ {"absent"}) \cup {NotCancelling}]
      BY <1>1, <1>2, <3>1 DEF Web, CreateScan, RequestDies, ReadCancel, SaveCancel,
          DeleteFile, DeletePath, RestTyped, Set
    <3>4. scanOf' = scanOf /\ exits' \in 0..MaxExits
      <4>1. exits' = exits \/ (exits < MaxExits /\ exits' = exits + 1)
        BY <1>2 DEF Web, CreateScan, RequestDies, ReadCancel, SaveCancel,
           DeleteFile, DeletePath, history
      <4>2. exits \in 0..MaxExits
        BY <1>1 DEF RestTyped
      <4> QED BY <1>2, <4>1, <4>2, WebKeeps
    <3>5. inFlight' \subseteq Jobs /\ deleting' \subseteq Jobs /\ dropped' \subseteq Jobs
      BY <1>1, <1>2 DEF Web, CreateScan, RequestDies, ReadCancel, SaveCancel,
          DeleteFile, DeletePath, RestTyped, history
    <3>6. unrecorded' \subseteq Jobs /\ stale' \subseteq Jobs /\ unswept' \subseteq Jobs
      BY <1>1, <1>2 DEF Web, CreateScan, RequestDies, ReadCancel, SaveCancel,
          DeleteFile, DeletePath, RestTyped, history
    <3> QED BY <1>1, <3>2, <3>3, <3>4, <3>5, <3>6 DEF RestTyped
  <2> QED BY <2>1, <2>2, <2>3, <2>4
<1>3. ASSUME NEW j \in Jobs, EnqueueScan(j) PROVE Rest
  <2> PICK t \in Tasks : Submit(t) /\ scanOf' = [scanOf EXCEPT ![t] = j]
    BY <1>3 DEF EnqueueScan, Free
  <2>1. QueueOK'
    BY <1>1, SubmitKeeps
  <2>2. scanOf' \in [Tasks -> Jobs \cup {NoJob}]
    BY <1>1 DEF RestTyped
  <2> QED BY <1>1, <1>3, <2>1, <2>2 DEF EnqueueScan, RowsTyped, FilesTyped, RestTyped,
          rowVars, fileVars, history
<1>4. ASSUME NEW j \in Jobs, CleanupScan(j) PROVE Rest
  <2>1. QueueOK'
    BY <1>1, <1>4, CleanupKeeps, StutterKeeps
  <2>2. FilesTyped'
    BY <1>1, <1>4, ResultFields DEF CleanupScan, FilesTyped, Set
  <2>3. RowsTyped'
    BY <1>1, <1>4 DEF CleanupScan, RowsTyped, Set
  <2>4. exits' \in 0..MaxExits /\ unswept' \subseteq Jobs
    <3>1. \/ exits' = exits /\ unswept' = unswept
          \/ exits < MaxExits /\ exits' = exits + 1 /\ unswept' = unswept \cup {j}
      BY <1>4 DEF CleanupScan
    <3>2. exits \in 0..MaxExits /\ unswept \subseteq Jobs
      BY <1>1 DEF RestTyped
    <3> QED BY <3>1, <3>2
  <2>5. UNCHANGED <<scanOf, inFlight, cancelling, deleting, dropped, unrecorded, stale, cancelledIn>>
    BY <1>4 DEF CleanupScan, webVars
  <2> QED BY <1>1, <2>1, <2>2, <2>3, <2>4, <2>5 DEF RestTyped
<1>5. ASSUME NEW t \in Tasks, StartTask(t) PROVE Rest
  BY <1>1, <1>5, StartKeeps
     DEF StartTask, RowsTyped, FilesTyped, RestTyped, rowVars, fileVars, webVars, history, PCs
<1>6. ASSUME NEW t \in Tasks, EndTask(t) PROVE Rest
  BY <1>1, <1>6, EndingLeaves
     DEF EndTask, RowsTyped, FilesTyped, RestTyped, rowVars, fileVars, webVars, history, PCs
<1>7. ASSUME NEW t \in Tasks, WorkerDies(t) PROVE Rest
  <2>1. QueueOK' /\ Handles(t) /\ scanOf[t] \in Jobs
    BY <1>1, <1>7, EndingLeaves, HandlerHasJob DEF Handles
  <2> QED BY <1>1, <1>7, <2>1
     DEF WorkerDies, RowsTyped, FilesTyped, RestTyped, rowVars, fileVars, webVars, PCs
<1>8. ASSUME NEW t \in Tasks, Within(t) PROVE Rest
  <2>1. QueueOK' /\ Handles(t) /\ scanOf[t] \in Jobs /\ UNCHANGED <<webVars, history, scanOf>>
    BY <1>1, <1>8, WithinKeeps, HandlerHasJob, StutterKeeps DEF Handles
  <2>2. RowsTyped'
    BY <1>1, <1>8, <2>1 DEF Within, Load, ScanCancelled, Scanning, Launch, NextPage,
        PollCancelled, Assemble, Assembled, UnlinkPage, Protect, Deliver, ScanFails,
        Goto, SaveState, RowsTyped, rowVars, Set, PCs, JobStates
  <2>3. FilesTyped'
    <3> DEFINE j == scanOf[t]
    <3>1. tries[t] \in Nat
      BY <1>1 DEF QueueOK, QueueTypeOK
    <3>2. ASSUME UNCHANGED result, NEW n \in PageNumbers, NEW a \in Nat,
                 SetPage(j, n, a)
          PROVE  FilesTyped'
      BY <1>1, <2>1, <3>2, PageChanges DEF FilesTyped
    <3>3. CASE NextPage(t)
      BY <3>1, <3>2, <3>3, NextNumber DEF NextPage
    <3>4. CASE UnlinkPage(t)
      BY <3>2, <3>4 DEF UnlinkPage, SetPage
    <3>5. CASE Assemble(t)
      <4> DEFINE r == [file |-> "partial", pages |-> NoPages]
      <4>1. r \in Results
        BY ResultFields
      <4>2. pages' = pages /\ result' = [result EXCEPT ![j] = r]
        BY <3>5 DEF Assemble, Set
      <4> HIDE DEF r
      <4> QED BY <1>1, <4>1, <4>2 DEF FilesTyped
    <3>6. CASE Assembled(t)
      <4> DEFINE r == [file |-> "whole", pages |-> pages[j]]
      <4>1. r \in Results
        BY <1>1, <2>1, ResultFields DEF FilesTyped
      <4>2. pages' = pages /\ (result' = result \/ result' = [result EXCEPT ![j] = r])
        BY <3>6 DEF Assembled, Set
      <4> HIDE DEF r
      <4> QED BY <1>1, <4>1, <4>2 DEF FilesTyped
    <3>7. CASE UNCHANGED <<pages, result>>
      BY <1>1, <3>7 DEF FilesTyped
    <3> QED BY <1>8, <3>3, <3>4, <3>5, <3>6, <3>7 DEF Within, Load, ScanCancelled, Scanning,
            Launch, PollCancelled, Protect, Deliver, ScanFails, Goto, SaveState, fileVars
  <2> QED BY <1>1, <2>1, <2>2, <2>3 DEF RestTyped, webVars, history
<1>9. ASSUME UNCHANGED vars PROVE Rest
  BY <1>1, <1>9, StutterKeeps
     DEF vars, RowsTyped, FilesTyped, RestTyped, rowVars, fileVars, webVars, history
<1> HIDE DEF Rest
<1>10. Rest
  BY <1>2, <1>3, <1>4, <1>5, <1>6, <1>7, <1>8, <1>9, StepKinds
<1>11. RowsTyped' /\ FilesTyped' /\ RestTyped' => TypeOK'
  BY DEF TypeOK, RowsTyped, FilesTyped, RestTyped, PCs, Results
<1> QED BY <1>10, <1>11 DEF Rest
-----------------------------------------------------------------------------
(* Tasks and attempts.                                                     *)

LEMMA TasksInductive ==
    ASSUME IInv, [Next]_vars
    PROVE  OneScanEach' /\ PcFits'
<1> USE DEF IInv
<1>1. /\ jobState \in [Jobs -> JobStates] /\ inFlight \subseteq Jobs
      /\ scanOf \in [Tasks -> Jobs \cup {NoJob}]
  BY DEF TypeOK
<1> DEFINE Rest == OneScanEach' /\ PcFits'
\* Tasks and pc stay, and no job vanishes or comes back into flight.
<1>2. ASSUME UNCHANGED <<phase, scanOf>>, pc' = "idle" <=> pc = "idle",
             \A j \in Jobs : jobState[j] # "absent" => jobState'[j] # "absent",
             \A j \in inFlight' : j \in Jobs /\ jobState'[j] # "absent"
                                  /\ (j \in inFlight \/ jobState[j] = "absent")
      PROVE  Rest
  BY <1>2 DEF OneScanEach, IsScan, PcFits, Handles
<1>3. ASSUME NEW j \in Jobs, Web(j) PROVE Rest
  <2>1. UNCHANGED <<phase, scanOf, pc>>
    BY <1>3, WebKeeps DEF queueVars
  <2>2. cancelling[j] # NotCancelling => AfterCancel(cancelling[j]) # "absent"
    BY DEF TypeOK, AfterCancel
  <2>3. \A i \in Jobs : jobState[i] # "absent" => jobState'[i] # "absent"
    BY <1>1, <1>3, <2>2 DEF Web, CreateScan, RequestDies, ReadCancel, SaveCancel,
        DeleteFile, DeletePath, rowVars, Set
  <2>4. \A i \in inFlight' : /\ i \in Jobs /\ jobState'[i] # "absent"
                             /\ i \in inFlight \/ jobState[i] = "absent"
    BY <1>1, <1>3, <2>3 DEF Web, CreateScan, RequestDies, ReadCancel, SaveCancel,
        DeleteFile, DeletePath, Set, OneScanEach
  <2> QED BY <1>2, <2>1, <2>3, <2>4
<1>4. ASSUME NEW j \in Jobs, EnqueueScan(j) PROVE Rest
  <2> PICK t \in Tasks : Submit(t) /\ scanOf' = [scanOf EXCEPT ![t] = j]
    BY <1>4 DEF EnqueueScan, Free
  <2>1. /\ phase[t] = "absent" /\ phase'[t] = "waiting"
        /\ \A u \in Tasks : u # t => phase'[u] = phase[u]
    BY SubmitPhases
  <2>2. scanOf'[t] = j /\ \A u \in Tasks : u # t => scanOf'[u] = scanOf[u]
    BY <1>1
  <2>3. j \in inFlight /\ inFlight' = inFlight \ {j} /\ UNCHANGED <<jobState, pc>>
    BY <1>4 DEF EnqueueScan, rowVars
  <2>4. PcFits'
    BY <2>1, <2>3 DEF PcFits, Handles
  <2> QED BY <2>1, <2>2, <2>3, <2>4 DEF OneScanEach, IsScan
<1>5. ASSUME NEW t \in Tasks, StartTask(t) PROVE Rest
  <2>1. /\ \A u \in Tasks : phase'[u] = "absent" <=> phase[u] = "absent"
        /\ Handles(t)' /\ pc' = "begin"
        /\ UNCHANGED <<scanOf, jobState, inFlight>>
    BY <1>5, StartPhases DEF StartTask, Handles, rowVars, webVars
  <2> QED BY <2>1 DEF OneScanEach, IsScan, PcFits
<1>6. ASSUME NEW t \in Tasks, EndTask(t) \/ WorkerDies(t) PROVE Rest
  <2>1. /\ \A u \in Tasks : phase'[u] = "absent" <=> phase[u] = "absent"
        /\ pc' = "idle" /\ UNCHANGED <<scanOf, jobState, inFlight>>
    BY <1>6, EndingLeaves DEF Handles, rowVars, webVars
  <2>2. \A u \in Tasks : ~Handles(u)'
    BY <1>6, EndingLeaves, OneHandler DEF Handles
  <2> QED BY <2>1, <2>2 DEF OneScanEach, IsScan, PcFits
<1>7. ASSUME NEW t \in Tasks, Within(t) PROVE Rest
  <2>1. UNCHANGED <<phase, scanOf, inFlight>> /\ pc # "idle" /\ pc' # "idle"
    BY <1>7, WithinKeeps DEF queueVars, webVars
  <2>2. \A j \in Jobs : jobState[j] # "absent" => jobState'[j] # "absent"
    BY <1>1, <1>7 DEF Within, Load, ScanCancelled, Scanning, Launch, NextPage,
        PollCancelled, Assemble, Assembled, UnlinkPage, Protect, Deliver, ScanFails,
        Goto, SaveState, rowVars, Set
  <2> QED BY <1>1, <1>2, <2>1, <2>2 DEF OneScanEach
<1>8. ASSUME NEW j \in Jobs, CleanupScan(j) PROVE Rest
  BY <1>1, <1>2, <1>8, CleanupKeeps DEF queueVars, webVars, OneScanEach
<1>9. ASSUME UNCHANGED vars PROVE Rest
  BY <1>1, <1>2, <1>9 DEF vars, queueVars, rowVars, webVars, OneScanEach
<1> QED BY <1>3, <1>4, <1>5, <1>6, <1>7, <1>8, <1>9, StepKinds

\* Only the start of its task counts an attempt at a job.
LEMMA BegunSteps ==
    ASSUME IInv, [Next]_vars, NEW j \in Jobs
    PROVE  /\ Begun(j) \in Nat /\ Begun(j)' \in Nat /\ Begun(j)' >= Begun(j)
           /\ (\A t \in Tasks : ~(StartTask(t) /\ scanOf[t] = j)) => Begun(j)' = Begun(j)
<1> USE DEF IInv
<1>1. Begun(j) \in Nat
  BY BegunType
<1>2. UNCHANGED <<tries, scanOf>> => Begun(j)' = Begun(j)
  BY DEF Begun, TasksOf
<1>3. ASSUME NEW i \in Jobs, EnqueueScan(i) PROVE Begun(j)' = Begun(j)
  <2> PICK t \in Tasks : Submit(t) /\ scanOf' = [scanOf EXCEPT ![t] = i]
    BY <1>3 DEF EnqueueScan, Free
  <2>1. phase[t] = "absent" /\ UNCHANGED tries
    BY DEF Submit, SubmitAll
  <2>2. scanOf'[t] = i /\ \A u \in Tasks : u # t => scanOf'[u] = scanOf[u]
    BY DEF TypeOK
  <2>3. i \in inFlight /\ ~IsScan(t)
    BY <1>3, <2>1 DEF EnqueueScan, OneScanEach
  <2>4. CASE i # j
    <3>1. TasksOf(j)' = TasksOf(j)
      BY <2>2, <2>3, <2>4 DEF TasksOf, IsScan
    <3> QED BY <2>1, <3>1 DEF Begun
  <2>5. CASE i = j
    <3>1. TasksOf(j) = {}
      BY <2>3, <2>5 DEF TasksOf, OneScanEach, IsScan
    <3>2. TasksOf(j)' = {t}
      BY <2>2, <2>5, <3>1 DEF TasksOf
    <3>3. (CHOOSE u \in {t} : TRUE) = t
      OBVIOUS
    <3>4. tries[t] = 0
      BY <2>1 DEF QueueOK, Unsubmitted
    <3> QED BY <2>1, <3>1, <3>2, <3>3, <3>4 DEF Begun
  <2> QED BY <2>4, <2>5
<1>4. ASSUME NEW t \in Tasks, StartTask(t)
      PROVE  /\ scanOf[t] # j => Begun(j)' = Begun(j)
             /\ Begun(j)' \in Nat /\ Begun(j)' >= Begun(j)
  <2>1. scanOf' = scanOf /\ tries'[t] = tries[t] + 1
        /\ \A u \in Tasks : u # t => tries'[u] = tries[u]
    BY <1>4, StartPhases DEF StartTask
  <2>2. TasksOf(j)' = TasksOf(j)
    BY <2>1 DEF TasksOf
  <2>3. CASE TasksOf(j) = {}
    BY <2>2, <2>3 DEF Begun
  <2>4. ASSUME NEW u \in Tasks, scanOf[u] = j
        PROVE  /\ scanOf[t] # j => Begun(j)' = Begun(j)
               /\ Begun(j)' \in Nat /\ Begun(j)' >= Begun(j)
    <3>1. TasksOf(j) = {u} /\ Begun(j) = tries[u]
      BY <2>4, TaskOfJob DEF IsScan
    <3>2. (CHOOSE v \in {u} : TRUE) = u
      OBVIOUS
    <3>3. Begun(j)' = tries'[u]
      BY <2>2, <3>1, <3>2 DEF Begun
    <3> QED BY <1>1, <2>1, <2>4, <3>1, <3>3
  <2> QED BY <2>3, <2>4, <1>1 DEF TasksOf
<1>5. (\A t \in Tasks : ~StartTask(t)) /\ (\A i \in Jobs : ~EnqueueScan(i)) => UNCHANGED <<tries, scanOf>>
  BY StepKinds, WebKeeps, CleanupKeeps, EndingLeaves, WithinKeeps DEF queueVars, vars
<1> QED BY <1>1, <1>2, <1>3, <1>4, <1>5
-----------------------------------------------------------------------------
(* What a step within a handler does to the row and to the files.          *)

LEMMA WithinElsewhere ==
    ASSUME IInv, NEW t \in Tasks, Within(t), NEW i \in Jobs, i # scanOf[t]
    PROVE  /\ jobState'[i] = jobState[i] /\ offered'[i] = offered[i]
           /\ pages'[i] = pages[i] /\ result'[i] = result[i]
<1>1. RowsTyped /\ FilesTyped /\ scanOf[t] \in Jobs
  BY TypesSplit, HandlerHasJob, WithinKeeps DEF IInv, Handles
<1>2. jobState'[i] = jobState[i] /\ offered'[i] = offered[i]
  BY <1>1 DEF Within, Load, ScanCancelled, Scanning, Launch, NextPage, PollCancelled, Assemble,
     Assembled, UnlinkPage, Protect, Deliver, ScanFails, Goto, SaveState, rowVars, Set, RowsTyped
<1>3. result'[i] = result[i]
  BY <1>1 DEF Within, Load, ScanCancelled, Scanning, Launch, NextPage, PollCancelled, Assemble,
     Assembled, UnlinkPage, Protect, Deliver, ScanFails, Goto, SaveState, fileVars, Set, FilesTyped
<1>4. pages'[i] = pages[i]
  BY <1>1 DEF Within, Load, ScanCancelled, Scanning, Launch, NextPage, PollCancelled, Assemble,
     Assembled, UnlinkPage, Protect, Deliver, ScanFails, Goto, SaveState, fileVars, FilesTyped
<1> QED BY <1>2, <1>3, <1>4

\* The saves: the state follows the handler, and only delivery offers a result.
LEMMA WithinSaves ==
    ASSUME IInv, NEW t \in Tasks, Within(t), NEW j, j = scanOf[t]
    PROVE  /\ pc' \in {"return", "raise"} => jobState'[j] \in {"complete", "cancelled", "failed"}
           /\ jobState'[j] # jobState[j] =>
                \/ pc = "cancelled" /\ jobState'[j] = "cancelled"
                \/ pc \in {"loaded", "resolving", "scanning", "assembling", "assembled", "protected"}
           /\ jobState'[j] = "complete" => jobState[j] = "complete" \/ pc' = "return"
           /\ offered'[j] # offered[j] => pc = "protected" /\ pc' = "return" /\ offered'[j]
           /\ pc = "begin" => pc' \in {"cancelled", "loaded"}
           /\ pc = "begin" /\ cancelRequested[j] => pc' = "cancelled"
           /\ pc' \in {"loaded", "resolving"} => pc \in {"begin", "loaded"}
           /\ pc' \notin {"begin", "cancelled", "return", "raise"} =>
                pc \notin {"begin", "cancelled"} \/ ~cancelRequested[j]
           /\ pc = "cancelled" => jobState'[j] = "cancelled" /\ pc' = "return"
<1>1. RowsTyped /\ j \in Jobs /\ Handles(t)
  BY TypesSplit, HandlerHasJob, WithinKeeps DEF IInv, Handles
<1>2. CASE Load(t) \/ Launch(t) \/ PollCancelled(t) \/ Protect(t)
  BY <1>1, <1>2 DEF Load, Launch, PollCancelled, Protect, Goto, Running, rowVars
<1>3. CASE NextPage(t) \/ Assemble(t) \/ Assembled(t) \/ UnlinkPage(t)
  BY <1>1, <1>3 DEF NextPage, Assemble, Assembled, UnlinkPage, Running, rowVars
<1>4. CASE ScanCancelled(t) \/ Scanning(t) \/ ScanFails(t)
  BY <1>1, <1>4 DEF ScanCancelled, Scanning, ScanFails, SaveState, Running, Set, RowsTyped
<1>5. CASE Deliver(t)
  BY <1>1, <1>5 DEF Deliver, Running, Set, RowsTyped
<1> QED BY <1>2, <1>3, <1>4, <1>5 DEF Within

\* The files: pages of this attempt are written, pages are unlinked, and the
\* result is emptied or filled from the pages.
LEMMA WithinWrites ==
    ASSUME IInv, NEW t \in Tasks, Within(t), NEW j, j = scanOf[t]
    PROVE  /\ \A n \in PageNumbers : pages'[j][n] \in {0, pages[j][n], tries[t]}
           /\ (\E n \in PageNumbers : pages'[j][n] \notin {0, pages[j][n]}) => pc = "scanning"
           /\ \/ result'[j] = result[j]
              \/ result'[j].pages = NoPages /\ result'[j].file = "partial"
                 /\ pc = "scanning" /\ pc' = "assembling"
              \/ result'[j].pages = pages[j] /\ result'[j].file = "whole"
                 /\ pc = "assembling" /\ pc' = "assembled"
           /\ pc' = "assembling" /\ pc # "assembling" => result'[j].file = "partial"
           /\ pc' = "assembled" =>
                pc = "assembled" \/ result[j].file = "none" \/ result'[j].file = "whole"
           /\ pc' \in {"assembled", "protected"} /\ pc \in {"assembled", "protected"} =>
                result'[j] = result[j]
           /\ pc' = "protected" => pc = "assembled"
           /\ pc' = "assembled" => pc \in {"assembling", "assembled"}
           /\ pc' = "assembling" => pc = "scanning"
<1>1. RowsTyped /\ FilesTyped /\ j \in Jobs /\ Handles(t) /\ tries[t] \in Nat
  BY TypesSplit, HandlerHasJob, WithinKeeps DEF IInv, Handles, QueueOK, QueueTypeOK
<1>2. CASE Load(t) \/ Launch(t) \/ PollCancelled(t) \/ Protect(t)
  BY <1>2 DEF Load, Launch, PollCancelled, Protect, Goto, Running, fileVars
<1>3. CASE ScanCancelled(t) \/ Scanning(t) \/ ScanFails(t) \/ Deliver(t)
  BY <1>3 DEF ScanCancelled, Scanning, ScanFails, Deliver, SaveState, fileVars
<1>4. CASE NextPage(t)
  <2>1. \E n \in PageNumbers : SetPage(j, n, tries[t])
    BY <1>4, NextNumber
  <2>2. \A n \in PageNumbers : pages'[j][n] \in {0, pages[j][n], tries[t]}
    BY <1>1, <2>1, PageChanges
  <2> QED BY <1>4, <2>2 DEF NextPage, Running
<1>5. CASE UnlinkPage(t)
  <2>1. \E n \in PageNumbers : SetPage(j, n, 0)
    BY <1>5 DEF UnlinkPage, SetPage
  <2>2. \A n \in PageNumbers : pages'[j][n] \in {0, pages[j][n]}
    BY <1>1, <2>1, PageChanges
  <2> QED BY <1>5, <2>2 DEF UnlinkPage, Running
<1>6. CASE Assemble(t)
  <2> DEFINE r == [file |-> "partial", pages |-> NoPages]
  <2>1. r.file = "partial" /\ r.pages = NoPages
    OBVIOUS
  <2>2. pc = "scanning" /\ pc' = "assembling" /\ pages' = pages
        /\ result' = [result EXCEPT ![j] = r]
    BY <1>6 DEF Assemble, Running, Set
  <2> HIDE DEF r
  <2> QED BY <1>1, <2>1, <2>2 DEF FilesTyped
<1>7. CASE Assembled(t)
  <2> DEFINE r == [file |-> "whole", pages |-> pages[j]]
  <2>1. r.file = "whole" /\ r.pages = pages[j]
    OBVIOUS
  <2>2. pc = "assembling" /\ pc' = "assembled" /\ pages' = pages
        /\ \/ result' = result /\ result[j].file = "none"
           \/ result' = [result EXCEPT ![j] = r]
    BY <1>7 DEF Assembled, Running, Set
  <2> HIDE DEF r
  <2> QED BY <1>1, <2>1, <2>2 DEF FilesTyped
<1> QED BY <1>2, <1>3, <1>4, <1>5, <1>6, <1>7 DEF Within
-----------------------------------------------------------------------------
(* What any step does to one job.                                          *)

Acts(t, j) == Within(t) /\ scanOf[t] = j

LEMMA FileSteps ==
    ASSUME IInv, [Next]_vars, NEW j \in Jobs
    PROVE  /\ \A n \in PageNumbers :
                \/ pages'[j][n] \in {0, pages[j][n]}
                \/ \E t \in Tasks : Acts(t, j) /\ pc = "scanning" /\ pages'[j][n] = tries[t]
           /\ (\A t \in Tasks : ~Acts(t, j)) => pages'[j] \in {pages[j], NoPages}
           /\ result'[j].pages \in {result[j].pages, NoPages, pages[j]}
           /\ \/ result'[j] = result[j]
              \/ result'[j].file = "none" /\ (DeleteFile(j) \/ CleanupScan(j))
              \/ \E t \in Tasks : Acts(t, j)
<1> DEFINE Rest ==
             /\ \A n \in PageNumbers :
                \/ pages'[j][n] \in {0, pages[j][n]}
                \/ \E t \in Tasks : Acts(t, j) /\ pc = "scanning" /\ pages'[j][n] = tries[t]
             /\ (\A t \in Tasks : ~Acts(t, j)) => pages'[j] \in {pages[j], NoPages}
             /\ result'[j].pages \in {result[j].pages, NoPages, pages[j]}
             /\ \/ result'[j] = result[j]
                \/ result'[j].file = "none" /\ (DeleteFile(j) \/ CleanupScan(j))
                \/ \E t \in Tasks : Acts(t, j)
<1>1. FilesTyped
  BY TypesSplit DEF IInv
<1>2. UNCHANGED <<pages[j], result[j]>> => Rest
  OBVIOUS
<1>3. ASSUME NEW i \in Jobs, Web(i) PROVE Rest
  <2>1. pages' = pages
    BY <1>3, WebKeeps
  <2>2. CASE DeleteFile(i) /\ i = j
    <3>1. result'[j] = NoResult
      BY <1>1, <2>2 DEF DeleteFile, Set, FilesTyped
    <3> QED BY <2>1, <2>2, <3>1, ResultFields
  <2>3. CASE ~(DeleteFile(i) /\ i = j)
    <3>1. result'[j] = result[j]
      BY <1>1, <1>3, <2>3 DEF Web, CreateScan, RequestDies, ReadCancel, SaveCancel,
          DeleteFile, DeletePath, fileVars, Set, FilesTyped
    <3> QED BY <1>2, <2>1, <3>1
  <2> QED BY <2>2, <2>3
<1>4. ASSUME NEW i \in Jobs, CleanupScan(i) PROVE Rest
  <2>1. CASE i = j
    <3>1. result'[j] = NoResult /\ pages'[j] = NoPages
      BY <1>1, <1>4, <2>1 DEF CleanupScan, Set, FilesTyped
    <3> QED BY <1>4, <2>1, <3>1, ResultFields
  <2>2. CASE i # j
    <3>1. result'[j] = result[j] /\ pages'[j] = pages[j]
      BY <1>1, <1>4, <2>2 DEF CleanupScan, Set, FilesTyped
    <3> QED BY <1>2, <3>1
  <2> QED BY <2>1, <2>2
<1>5. ASSUME NEW t \in Tasks, Within(t) PROVE Rest
  <2>1. CASE scanOf[t] # j
    BY <1>2, <1>5, <2>1, WithinElsewhere
  <2>2. CASE scanOf[t] = j
    BY <1>5, <2>2, WithinWrites DEF Acts
  <2> QED BY <2>1, <2>2
<1>6. ASSUME \/ UNCHANGED vars
             \/ \E i \in Jobs : EnqueueScan(i)
             \/ \E t \in Tasks : StartTask(t) \/ EndTask(t) \/ WorkerDies(t)
      PROVE  Rest
  <2>1. UNCHANGED <<pages, result>>
    BY <1>6, EndingLeaves DEF vars, fileVars, EnqueueScan, StartTask, EndTask, WorkerDies
  <2> QED BY <1>2, <2>1
<1> HIDE DEF Rest
<1>7. Rest
  BY <1>3, <1>4, <1>5, <1>6, StepKinds
<1> QED BY <1>7 DEF Rest

LEMMA RowSteps ==
    ASSUME IInv, [Next]_vars, NEW j \in Jobs
    PROVE  /\ jobState'[j] # jobState[j] =>
                \/ jobState[j] = "absent" /\ jobState'[j] = "pending" /\ j \in inFlight'
                \/ SaveCancel(j)
                \/ \E t \in Tasks : Acts(t, j)
           /\ offered'[j] /\ ~offered[j] =>
                \E t \in Tasks : Acts(t, j) /\ pc = "protected" /\ pc' = "return"
           /\ j \in deleting' => j \in deleting \/ offered[j]
           /\ cancelling'[j] # cancelling[j] => cancelling'[j] \in {NotCancelling, jobState[j]}
           /\ \/ cancelRequested'[j] = cancelRequested[j] /\ cancelledIn'[j] = cancelledIn[j]
              \/ SaveCancel(j)
           /\ j \in unrecorded => j \in unrecorded'
           /\ j \in unswept => j \in unswept'
           /\ j \in dropped => j \in dropped'
           /\ j \in stale => j \in stale'
<1> DEFINE Rest ==
           /\ jobState'[j] # jobState[j] =>
                \/ jobState[j] = "absent" /\ jobState'[j] = "pending" /\ j \in inFlight'
                \/ SaveCancel(j)
                \/ \E t \in Tasks : Acts(t, j)
           /\ offered'[j] /\ ~offered[j] =>
                \E t \in Tasks : Acts(t, j) /\ pc = "protected" /\ pc' = "return"
           /\ j \in deleting' => j \in deleting \/ offered[j]
           /\ cancelling'[j] # cancelling[j] => cancelling'[j] \in {NotCancelling, jobState[j]}
           /\ \/ cancelRequested'[j] = cancelRequested[j] /\ cancelledIn'[j] = cancelledIn[j]
              \/ SaveCancel(j)
           /\ j \in unrecorded => j \in unrecorded'
           /\ j \in unswept => j \in unswept'
           /\ j \in dropped => j \in dropped'
           /\ j \in stale => j \in stale'
<1>1. RowsTyped /\ RestTyped
  BY TypesSplit DEF IInv
<1>2. ASSUME UNCHANGED <<rowVars, webVars, dropped, stale, unswept, cancelledIn>>,
             j \in unrecorded => j \in unrecorded'
      PROVE  Rest
  BY <1>2 DEF rowVars, webVars
<1>3. ASSUME NEW i \in Jobs, CreateScan(i) PROVE Rest
  BY <1>1, <1>3 DEF CreateScan, Set, RowsTyped, RestTyped, history
<1>4. ASSUME NEW i \in Jobs, RequestDies(i) PROVE Rest
  BY <1>1, <1>4 DEF RequestDies, rowVars
<1>5. ASSUME NEW i \in Jobs, ReadCancel(i) PROVE Rest
  BY <1>1, <1>5 DEF ReadCancel, Set, RestTyped, rowVars, history
<1>6. ASSUME NEW i \in Jobs, SaveCancel(i) PROVE Rest
  <2>1. CASE i = j
    <3>1. UNCHANGED <<offered, deleting, dropped, unrecorded, unswept>> /\ stale \subseteq stale'
          /\ cancelling'[j] = NotCancelling
      BY <1>1, <1>6, <2>1 DEF SaveCancel, Set, RestTyped
    <3> QED BY <1>6, <2>1, <3>1
  <2>2. CASE i # j
    <3>1. /\ UNCHANGED <<offered, deleting, dropped, unrecorded, unswept>> /\ stale \subseteq stale'
          /\ cancelling'[j] = cancelling[j] /\ jobState'[j] = jobState[j]
          /\ cancelRequested'[j] = cancelRequested[j] /\ cancelledIn'[j] = cancelledIn[j]
      BY <1>1, <1>6, <2>2 DEF SaveCancel, Set, RestTyped, RowsTyped
    <3> QED BY <3>1
  <2> QED BY <2>1, <2>2
<1>7. ASSUME NEW i \in Jobs, DeleteFile(i) PROVE Rest
  BY <1>1, <1>7 DEF DeleteFile, rowVars, history
<1>8. ASSUME NEW i \in Jobs, DeletePath(i) PROVE Rest
  BY <1>1, <1>8 DEF DeletePath, Set, RowsTyped, history
<1>9. ASSUME NEW i \in Jobs, EnqueueScan(i) PROVE Rest
  BY <1>9 DEF EnqueueScan, rowVars, history
<1>10. ASSUME NEW i \in Jobs, CleanupScan(i) PROVE Rest
  BY <1>1, <1>10 DEF CleanupScan, Set, RowsTyped, webVars
<1>11. ASSUME NEW t \in Tasks, StartTask(t) \/ EndTask(t) \/ WorkerDies(t) PROVE Rest
  BY <1>2, <1>11 DEF StartTask, EndTask, WorkerDies, history
<1>12. ASSUME NEW t \in Tasks, Within(t) PROVE Rest
  <2>1. UNCHANGED <<cancelRequested, webVars, history>> /\ Handles(t)
    BY <1>12, WithinKeeps
  <2>2. offered'[j] /\ ~offered[j] =>
          Acts(t, j) /\ pc = "protected" /\ pc' = "return"
    BY <1>12, WithinElsewhere, WithinSaves DEF Acts
  <2>3. jobState'[j] # jobState[j] => Acts(t, j)
    BY <1>12, WithinElsewhere DEF Acts
  <2> QED BY <2>1, <2>2, <2>3 DEF webVars, history
<1>13. ASSUME UNCHANGED vars PROVE Rest
  BY <1>2, <1>13 DEF vars, rowVars, webVars, history
<1> HIDE DEF Rest
<1>14. Rest
  BY <1>3, <1>4, <1>5, <1>6, <1>7, <1>8, <1>9, <1>10, <1>11, <1>12, <1>13, StepKinds DEF Web
<1> QED BY <1>14 DEF Rest

\* A cancel saves what it read, over whatever the row holds by now.
LEMMA SaveCancelEffect ==
    ASSUME IInv, NEW j \in Jobs, SaveCancel(j)
    PROVE  /\ cancelling[j] # NotCancelling /\ cancelling'[j] = NotCancelling
           /\ cancelRequested'[j] /\ jobState'[j] = AfterCancel(cancelling[j])
           /\ cancelling[j] # jobState[j] => j \in stale'
           /\ cancelledIn'[j] = IF cancelRequested[j] THEN cancelledIn[j] ELSE Begun(j)
           /\ UNCHANGED <<queueVars, scanOf, offered, fileVars, pc, inFlight, deleting>>
<1>1. RowsTyped /\ RestTyped
  BY TypesSplit DEF IInv
<1> QED BY <1>1 DEF SaveCancel, Set, RowsTyped, RestTyped

\* The task that executes after a step was started by it or executed before.
LEMMA HandlerSteps ==
    ASSUME IInv, [Next]_vars, NEW t \in Tasks, Handles(t)'
    PROVE  /\ scanOf[t] \in Jobs /\ scanOf'[t] = scanOf[t]
           /\ \/ /\ StartTask(t) /\ pc' = "begin" /\ tries'[t] = tries[t] + 1
                 /\ phase[t] = "waiting"
              \/ /\ Handles(t) /\ tries'[t] = tries[t]
                 /\ Within(t) \/ (pc' = pc /\ \A u \in Tasks : ~Within(u))
                 /\ \A j \in Jobs : ~CleanupScan(j)
<1> USE DEF IInv
<1>1. ASSUME NEW j \in Jobs, EnqueueScan(j)
      PROVE  /\ Handles(t) /\ scanOf'[t] = scanOf[t] /\ tries' = tries /\ pc' = pc
  <2> PICK u \in Tasks : Submit(u) /\ scanOf' = [scanOf EXCEPT ![u] = j]
    BY <1>1 DEF EnqueueScan, Free
  <2>1. u # t /\ phase'[t] = phase[t] /\ tries' = tries
    BY SubmitPhases DEF Handles
  <2>2. scanOf'[t] = scanOf[t]
    BY <2>1
  <2> QED BY <1>1, <2>1, <2>2 DEF Handles, EnqueueScan
<1>2. ASSUME NEW u \in Tasks, StartTask(u)
      PROVE  u = t /\ pc' = "begin" /\ tries'[t] = tries[t] + 1 /\ phase[t] = "waiting"
             /\ scanOf' = scanOf
  <2>1. u = t
    BY <1>2, NoneExecutes, StartPhases, ScanJobsAssumption DEF StartTask, Handles
  <2> QED BY <1>2, <2>1, StartPhases DEF StartTask
<1>3. ASSUME NEW u \in Tasks, EndTask(u) \/ WorkerDies(u) PROVE FALSE
  BY <1>3, EndingLeaves, OneHandler DEF Handles
<1>4. ASSUME NEW u \in Tasks, Within(u) PROVE u = t /\ Handles(t) /\ UNCHANGED <<tries, scanOf>>
  BY <1>4, WithinKeeps, OneHandler DEF Handles, queueVars
<1>5. ASSUME NEW j \in Jobs, Web(j) \/ CleanupScan(j)
      PROVE  Handles(t) /\ ~CleanupScan(j) /\ UNCHANGED <<tries, scanOf, pc>>
  <2>1. Handles(t)
    BY <1>5, WebKeeps, CleanupKeeps DEF Handles, queueVars
  <2>2. ~CleanupScan(j)
    BY <2>1, CleanupKeeps DEF PcFits
  <2> QED BY <1>5, <2>1, <2>2, WebKeeps DEF queueVars
<1>6. UNCHANGED vars => Handles(t) /\ UNCHANGED <<tries, scanOf, pc>>
  BY DEF vars, queueVars, Handles
<1>7. Handles(t) => \A j \in Jobs : ~CleanupScan(j)
  BY CleanupKeeps DEF PcFits
<1>8. scanOf'[t] = scanOf[t]
  BY <1>1, <1>2, <1>3, <1>4, <1>5, <1>6, StepKinds
<1>9. phase[t] # "absent"
  BY <1>1, <1>2, <1>3, <1>4, <1>5, <1>6, StepKinds DEF Handles
<1> QED BY <1>1, <1>2, <1>3, <1>4, <1>5, <1>6, <1>7, <1>8, <1>9, StepKinds, HandlerHasJob

\* A task that waits after a step waited before, is new, or has just lost or failed
\* its execution.
LEMMA WaitingSteps ==
    ASSUME IInv, [Next]_vars, NEW t \in Tasks, phase'[t] = "waiting"
    PROVE  \/ phase[t] = "waiting" /\ scanOf'[t] = scanOf[t]
           \/ EnqueueScan(scanOf'[t]) /\ phase[t] = "absent" /\ scanOf'[t] \in Jobs
           \/ EndTask(t) /\ pc = "raise" /\ Handles(t) /\ scanOf'[t] = scanOf[t]
           \/ WorkerDies(t) /\ Handles(t) /\ scanOf'[t] = scanOf[t]
<1> USE DEF IInv
<1>1. ASSUME NEW j \in Jobs, EnqueueScan(j), phase[t] # "waiting"
      PROVE  j = scanOf'[t] /\ phase[t] = "absent"
  BY <1>1, SubmitPhases DEF EnqueueScan, Free, TypeOK
<1>2. ASSUME NEW j \in Jobs, EnqueueScan(j), phase[t] = "waiting"
      PROVE  scanOf'[t] = scanOf[t]
  BY <1>2, SubmitPhases DEF EnqueueScan, Free, TypeOK
<1>3. ASSUME NEW u \in Tasks, StartTask(u) PROVE phase[t] = "waiting" /\ scanOf' = scanOf
  BY <1>3, StartPhases DEF StartTask
<1>4. ASSUME NEW u \in Tasks, EndTask(u)
      PROVE  /\ phase[t] = "waiting" \/ (u = t /\ pc = "raise" /\ Handles(t))
             /\ scanOf' = scanOf
  BY <1>4, EndingPhases DEF EndTask, Running, Handles
<1>5. ASSUME NEW u \in Tasks, WorkerDies(u)
      PROVE  /\ phase[t] = "waiting" \/ (u = t /\ Handles(t))
             /\ scanOf' = scanOf
  BY <1>5, EndingPhases DEF WorkerDies, Handles
<1>6. ASSUME \/ \E u \in Tasks : Within(u)
             \/ \E j \in Jobs : Web(j) \/ CleanupScan(j)
             \/ UNCHANGED vars
      PROVE  phase[t] = "waiting" /\ scanOf' = scanOf
  BY <1>6, WithinKeeps, WebKeeps, CleanupKeeps DEF queueVars, vars
<1> QED BY <1>1, <1>2, <1>3, <1>4, <1>5, <1>6, StepKinds

LEMMA ActsBegun ==
    ASSUME IInv, NEW j \in Jobs, NEW t \in Tasks, Acts(t, j)
    PROVE  /\ Handles(t) /\ scanOf[t] = j /\ pc \notin {"return", "raise"}
           /\ Begun(j) = tries[t] /\ tries[t] \in Nat \ {0}
<1> USE DEF IInv
<1>1. Handles(t) /\ scanOf[t] = j /\ pc \notin {"return", "raise"}
  BY WithinKeeps DEF Acts
<1>2. Begun(j) = tries[t]
  BY <1>1, TaskOfJob DEF IsScan
<1>3. tries[t] \in Nat \ {0}
  BY <1>1 DEF QueueOK, QueueTypeOK, StartedOnce, Handles
<1> QED BY <1>1, <1>2, <1>3

-----------------------------------------------------------------------------
(* Attempts and cancels.                                                   *)

LEMMA PagesInductive ==
    ASSUME IInv, [Next]_vars
    PROVE  PagesBegun'
<1> USE DEF IInv
<1> SUFFICES ASSUME NEW j \in Jobs, NEW n \in PageNumbers
             PROVE  pages'[j][n] <= Begun(j)' /\ result'[j].pages[n] <= Begun(j)'
  BY DEF PagesBegun
<1>1. /\ pages[j][n] \in Nat /\ result[j].pages[n] \in Nat
      /\ pages[j][n] <= Begun(j) /\ result[j].pages[n] <= Begun(j)
      /\ Begun(j) \in Nat /\ Begun(j)' \in Nat /\ Begun(j) <= Begun(j)'
  BY TypesSplit, BegunSteps DEF FilesTyped, Results, PagesBegun
<1>2. pages'[j][n] <= Begun(j)'
  BY <1>1, FileSteps, ActsBegun
<1>3. result'[j].pages[n] <= Begun(j)'
  BY <1>1, FileSteps, ResultFields
<1> QED BY <1>2, <1>3

LEMMA UnbegunInductive ==
    ASSUME IInv, [Next]_vars
    PROVE  Unbegun'
<1> USE DEF IInv
<1> SUFFICES ASSUME NEW j \in Jobs, Begun(j)' = 0
             PROVE  /\ jobState'[j] \in {"absent", "pending", "cancelled"}
                    /\ cancelling'[j] \in {NotCancelling, "pending", "cancelled"}
                    /\ ~offered'[j] /\ j \notin deleting'
  BY DEF Unbegun
<1>1. Begun(j) = 0
  BY BegunSteps
<1>2. /\ jobState[j] \in {"absent", "pending", "cancelled"}
      /\ cancelling[j] \in {NotCancelling, "pending", "cancelled"}
      /\ ~offered[j] /\ j \notin deleting
  BY <1>1 DEF Unbegun
<1>3. \A t \in Tasks : ~Acts(t, j)
  BY <1>1, ActsBegun
<1>4. cancelling'[j] # "absent"
  BY TypesInductive DEF TypeOK, NotCancelling
<1> QED BY <1>2, <1>3, <1>4, RowSteps, SaveCancelEffect DEF AfterCancel

LEMMA CancelSeenInductive ==
    ASSUME IInv, [Next]_vars
    PROVE  CancelSeen' /\ NeverBack'
<1> USE DEF IInv
<1>1. ASSUME NEW t \in Tasks, Handles(t)', cancelRequested'[scanOf'[t]],
             pc' \notin {"begin", "cancelled", "return", "raise"}
      PROVE  tries'[t] <= cancelledIn'[scanOf'[t]]
  <2> DEFINE j == scanOf[t]
  <2>1. /\ j \in Jobs /\ scanOf'[t] = j /\ Handles(t) /\ tries'[t] = tries[t]
        /\ Within(t) \/ (pc' = pc /\ \A u \in Tasks : ~Within(u))
    BY <1>1, HandlerSteps
  <2>2. Begun(j) = tries[t] /\ tries[t] \in Nat
    BY <2>1, TaskOfJob DEF IsScan, QueueOK, QueueTypeOK
  <2>3. CASE SaveCancel(j)
    <3>1. pc' = pc /\ cancelledIn'[j] = IF cancelRequested[j] THEN cancelledIn[j] ELSE Begun(j)
      BY <2>1, <2>3, SaveCancelEffect
    <3> QED BY <1>1, <2>1, <2>2, <3>1 DEF CancelSeen
  <2>4. CASE ~SaveCancel(j)
    <3>1. cancelRequested'[j] = cancelRequested[j] /\ cancelledIn'[j] = cancelledIn[j]
      BY <2>1, <2>4, RowSteps
    <3>2. pc \notin {"begin", "cancelled", "return", "raise"}
      BY <1>1, <2>1, <3>1, WithinSaves, WithinKeeps
    <3> QED BY <1>1, <2>1, <3>1, <3>2 DEF CancelSeen
  <2> QED BY <2>3, <2>4
<1>2. ASSUME NEW j \in Jobs, cancelRequested'[j], cancelledIn'[j] = 0
      PROVE  cancelling'[j] \in {NotCancelling, "pending", "cancelled"}
  BY <1>2, RowSteps, SaveCancelEffect DEF NeverBack, CancelHolds
<1> QED BY <1>1, <1>2 DEF CancelSeen, NeverBack

\* A cancel that has been saved holds against every later attempt.
LEMMA CancelInductive ==
    ASSUME IInv, [Next]_vars
    PROVE  CancelHolds'
<1> USE DEF IInv
<1> SUFFICES ASSUME NEW j \in Jobs, cancelRequested'[j]
             PROVE  /\ \A n \in PageNumbers : pages'[j][n] <= cancelledIn'[j]
                                           /\ result'[j].pages[n] <= cancelledIn'[j]
                    /\ cancelledIn'[j] = 0 => jobState'[j] = "cancelled" /\ ~offered'[j]
  BY DEF CancelHolds
<1>1. /\ cancelledIn[j] \in Nat
      /\ \A n \in PageNumbers : pages[j][n] \in Nat /\ result[j].pages[n] \in Nat
  BY TypesSplit DEF RestTyped, FilesTyped, Results
<1>2. CASE ~cancelRequested[j]
  <2>1. SaveCancel(j)
    BY <1>2, RowSteps
  <2>2. /\ cancelledIn'[j] = Begun(j) /\ UNCHANGED <<offered, pages, result>>
        /\ jobState'[j] = AfterCancel(cancelling[j]) /\ cancelling[j] # NotCancelling
    BY <1>2, <2>1, SaveCancelEffect DEF fileVars
  <2> QED BY <2>2 DEF PagesBegun, Unbegun, AfterCancel
<1>3. CASE cancelRequested[j]
  <2>1. cancelledIn'[j] = cancelledIn[j]
    BY <1>3, RowSteps, SaveCancelEffect
  <2>2. ASSUME NEW t \in Tasks, Acts(t, j), pc \notin {"begin", "cancelled"}
        PROVE  tries[t] <= cancelledIn[j] /\ tries[t] > 0
    BY <1>3, <2>2, ActsBegun DEF CancelSeen
  <2>3. ASSUME NEW n \in PageNumbers
        PROVE  pages'[j][n] <= cancelledIn[j] /\ result'[j].pages[n] <= cancelledIn[j]
    <3>1. pages[j][n] <= cancelledIn[j] /\ result[j].pages[n] <= cancelledIn[j]
      BY <1>3 DEF CancelHolds
    <3>2. pages'[j][n] <= cancelledIn[j]
      BY <1>1, <2>2, <3>1, FileSteps
    <3>3. result'[j].pages[n] <= cancelledIn[j]
      BY <1>1, <3>1, FileSteps, ResultFields
    <3> QED BY <3>2, <3>3
  <2>4. ASSUME cancelledIn[j] = 0
        PROVE  jobState'[j] = "cancelled" /\ ~offered'[j]
    <3>1. jobState[j] = "cancelled" /\ ~offered[j]
          /\ cancelling[j] \in {NotCancelling, "pending", "cancelled"}
      BY <1>3, <2>4 DEF CancelHolds, NeverBack
    <3>2. ASSUME NEW t \in Tasks, Acts(t, j) PROVE pc \in {"begin", "cancelled"}
      BY <2>2, <2>4, <3>2, ActsBegun
    <3>3. ~offered'[j]
      BY <3>1, <3>2, RowSteps
    <3>4. ASSUME NEW t \in Tasks, Acts(t, j) PROVE jobState'[j] = "cancelled"
      BY <3>1, <3>2, <3>4, WithinSaves DEF Acts
    <3>5. SaveCancel(j) => jobState'[j] = "cancelled"
      BY <3>1, SaveCancelEffect DEF AfterCancel
    <3> QED BY <3>1, <3>3, <3>4, <3>5, RowSteps
  <2> QED BY <2>1, <2>3, <2>4
<1> QED BY <1>2, <1>3

LEMMA EndsInductive ==
    ASSUME IInv, [Next]_vars
    PROVE  EndsShown'
<1> USE DEF IInv
<1> SUFFICES ASSUME NEW t \in Tasks, Handles(t)', pc' \in {"return", "raise"}
             PROVE  jobState'[scanOf'[t]] \notin {"pending", "scanning"} \/ scanOf'[t] \in stale'
  BY DEF EndsShown
<1> DEFINE j == scanOf[t]
<1>1. /\ j \in Jobs /\ scanOf'[t] = j /\ Handles(t)
      /\ Within(t) \/ (pc' = pc /\ \A u \in Tasks : ~Within(u))
  BY HandlerSteps
<1>2. CASE Within(t)
  BY <1>1, <1>2, WithinSaves
<1>3. CASE pc' = pc /\ \A u \in Tasks : ~Acts(u, j)
  <2>1. jobState[j] \notin {"pending", "scanning"} \/ j \in stale
    BY <1>1, <1>3 DEF EndsShown
  <2>2. jobState[j] # "absent"
    BY <1>1 DEF OneScanEach, IsScan
  <2> QED BY <1>1, <1>3, <2>1, <2>2, RowSteps, SaveCancelEffect DEF AfterCancel
<1> QED BY <1>1, <1>2, <1>3 DEF Acts
-----------------------------------------------------------------------------
(* The result.                                                             *)

LEMMA NotOfferedInductive ==
    ASSUME IInv, [Next]_vars
    PROVE  NotOffered'
<1> USE DEF IInv
<1> SUFFICES ASSUME NEW t \in Tasks,
                    phase'[t] = "waiting" \/ (Handles(t)' /\ pc' # "return"),
                    scanOf'[t] \notin unrecorded'
             PROVE  ~offered'[scanOf'[t]] /\ scanOf'[t] \notin deleting'
  BY DEF NotOffered
<1> DEFINE j == scanOf'[t]
<1>1. j \in Jobs /\ ~offered[j] /\ j \notin deleting
  <2>1. CASE EnqueueScan(j) /\ phase[t] = "absent" /\ j \in Jobs
    <3>1. j \in inFlight
      BY <2>1 DEF EnqueueScan
    <3>2. TasksOf(j) = {}
      BY <2>1, <3>1 DEF TasksOf, OneScanEach, IsScan
    <3>3. Begun(j) = 0
      BY <3>2 DEF Begun
    <3> QED BY <2>1, <3>3 DEF Unbegun
  <2>2. CASE /\ scanOf[t] = j
             /\ phase[t] = "waiting" \/ (Handles(t) /\ pc # "return")
    <3>1. j \in Jobs
      BY <2>2, HandlerHasJob DEF Handles
    <3>2. j \notin unrecorded
      BY <3>1, RowSteps
    <3> QED BY <2>2, <3>1, <3>2 DEF NotOffered
  <2>3. CASE phase'[t] = "waiting" /\ WorkerDies(t) /\ scanOf[t] = j /\ Handles(t)
    BY <2>2, <2>3, EndingLeaves
  <2>4. CASE Handles(t)' /\ pc' # "return"
    BY <2>2, <2>4, HandlerSteps, WithinKeeps
  <2> QED BY <2>1, <2>2, <2>3, <2>4, WaitingSteps
<1>2. j \notin deleting'
  BY <1>1, RowSteps
<1>3. ~offered'[j]
  <2>1. ASSUME NEW u \in Tasks, Acts(u, j), pc' = "return" PROVE FALSE
    <3>1. Handles(u)' /\ scanOf' = scanOf
      BY <2>1, WithinKeeps DEF Acts, Handles, queueVars
    <3>2. scanOf[t] = j /\ IsScan(t)
      BY <1>1, <3>1 DEF IsScan
    <3>3. u = t
      BY <2>1, <3>2 DEF Acts, OneScanEach
    <3> QED BY <2>1, <3>1, <3>3 DEF Handles
  <2> QED BY <1>1, <2>1, RowSteps
<1> QED BY <1>2, <1>3

LEMMA NotAgainInductive ==
    ASSUME IInv, [Next]_vars
    PROVE  NotAgain'
<1> USE DEF IInv
<1> SUFFICES ASSUME NEW t \in Tasks,
                    phase'[t] = "waiting" \/ (Handles(t)' /\ pc' # "return"),
                    scanOf'[t] \notin unrecorded' \cup stale'
             PROVE  jobState'[scanOf'[t]] # "complete"
  BY DEF NotAgain
<1> DEFINE j == scanOf'[t]
<1>1. j \in Jobs /\ jobState[j] # "complete"
  <2>1. CASE EnqueueScan(j) /\ phase[t] = "absent" /\ j \in Jobs
    <3>1. j \in inFlight
      BY <2>1 DEF EnqueueScan
    <3>2. TasksOf(j) = {}
      BY <2>1, <3>1 DEF TasksOf, OneScanEach, IsScan
    <3>3. Begun(j) = 0
      BY <3>2 DEF Begun
    <3> QED BY <2>1, <3>3 DEF Unbegun
  <2>2. CASE /\ scanOf[t] = j
             /\ phase[t] = "waiting" \/ (Handles(t) /\ pc # "return")
    <3>1. j \in Jobs
      BY <2>2, HandlerHasJob DEF Handles
    <3>2. j \notin unrecorded \cup stale
      BY <3>1, RowSteps
    <3> QED BY <2>2, <3>1, <3>2 DEF NotAgain
  <2>3. CASE phase'[t] = "waiting" /\ WorkerDies(t) /\ scanOf[t] = j /\ Handles(t)
    BY <2>2, <2>3, EndingLeaves
  <2>4. CASE Handles(t)' /\ pc' # "return"
    BY <2>2, <2>4, HandlerSteps, WithinKeeps
  <2> QED BY <2>1, <2>2, <2>3, <2>4, WaitingSteps
<1>2. ASSUME NEW u \in Tasks, Acts(u, j) PROVE jobState'[j] # "complete"
  <2>1. Handles(u)' /\ scanOf' = scanOf
    BY <1>2, WithinKeeps DEF Acts, Handles, queueVars
  <2>2. scanOf[t] = j /\ IsScan(t)
    BY <1>1, <2>1 DEF IsScan
  <2>3. u = t
    BY <1>2, <2>2 DEF Acts, OneScanEach
  <2>4. pc' # "return"
    BY <2>1, <2>3 DEF Handles
  <2> QED BY <1>1, <1>2, <2>4, WithinSaves DEF Acts
<1>3. CASE SaveCancel(j)
  BY <1>1, <1>3, SaveCancelEffect DEF AfterCancel
<1> QED BY <1>1, <1>2, <1>3, RowSteps

LEMMA ResultInductive ==
    ASSUME IInv, [Next]_vars
    PROVE  ResultFits'
<1> USE DEF IInv
<1> SUFFICES ASSUME NEW t \in Tasks, Handles(t)', scanOf'[t] \notin unrecorded'
             PROVE  /\ pc' = "assembling" => result'[scanOf'[t]].file = "partial"
                    /\ pc' \in {"assembled", "protected"} => result'[scanOf'[t]].file = "whole"
  BY DEF ResultFits
<1> DEFINE j == scanOf[t]
<1>1. /\ j \in Jobs /\ scanOf'[t] = j
      /\ \/ pc' = "begin"
         \/ Handles(t) /\ Within(t)
         \/ Handles(t) /\ pc' = pc /\ (\A u \in Tasks : ~Within(u)) /\ ~CleanupScan(j)
  BY HandlerSteps
<1>2. j \notin unrecorded
  BY <1>1, RowSteps
<1>3. Handles(t) => /\ pc = "assembling" => result[j].file = "partial"
                    /\ pc \in {"assembled", "protected"} => result[j].file = "whole"
                    /\ pc # "return" => ~offered[j]
  BY <1>2 DEF ResultFits, NotOffered
<1>4. CASE Handles(t) /\ Within(t)
  <2>1. CASE pc' = "assembling"
    BY <1>1, <1>4, <2>1, WithinWrites
  <2>2. CASE pc' \in {"assembled", "protected"}
    <3>1. CASE pc \in {"assembled", "protected"}
      BY <1>3, <1>4, <2>2, <3>1, WithinWrites, <1>1
    <3>2. CASE pc = "assembling"
      BY <1>3, <1>4, <2>2, <3>2, WithinWrites, <1>1
    <3> QED BY <1>4, <2>2, <3>1, <3>2, WithinWrites
  <2> QED BY <1>1, <2>1, <2>2
<1>5. CASE Handles(t) /\ pc' = pc /\ (\A u \in Tasks : ~Within(u)) /\ ~CleanupScan(j)
  <2>1. DeleteFile(j) => offered[j]
    BY DEF DeleteFile
  <2>2. pc # "return" => result'[j] = result[j]
    BY <1>1, <1>3, <1>5, <2>1, FileSteps DEF Acts
  <2> QED BY <1>1, <1>3, <1>5, <2>2
<1> QED BY <1>1, <1>4, <1>5

\* What an attempt finds and writes, page by page.
LEMMA NextPageWrites ==
    ASSUME IInv, NEW t \in Tasks, NextPage(t), NEW j, j = scanOf[t]
    PROVE  \E n \in PageNumbers :
             /\ OwnPages(j, tries[t]) = 1..(n - 1)
             /\ pages'[j][n] = tries[t]
             /\ \A m \in PageNumbers : m # n => pages'[j][m] = pages[j][m]
<1> USE DEF IInv
<1>1. Handles(t) /\ pc = "scanning" /\ j \in Jobs
  BY HandlerHasJob DEF NextPage, Running, Handles
<1>2. PICK k \in 0..MaxPages : OwnPages(j, tries[t]) = 1..k
  BY <1>1 DEF OwnPagesFirst
<1>3. k \in Nat /\ Cardinality(1..k) = k
  BY FS_Interval, ScanJobsAssumption
<1>4. k + 1 \in PageNumbers /\ SetPage(j, k + 1, tries[t])
  BY <1>2, <1>3, NextNumber
<1>5. FilesTyped /\ tries[t] \in Nat
  BY TypesSplit DEF QueueOK, QueueTypeOK
<1>6. PICK n \in PageNumbers : n = k + 1 /\ SetPage(j, n, tries[t])
  BY <1>4
<1>7. /\ pages'[j][n] = tries[t]
      /\ \A m \in PageNumbers : m # n => pages'[j][m] = pages[j][m]
  BY <1>1, <1>5, <1>6, PageChanges
<1>8. OwnPages(j, tries[t]) = 1..(n - 1)
  BY <1>2, <1>3, <1>6
<1> QED BY <1>7, <1>8

\* The other steps of a handler write no page, or unlink the first.
LEMMA OthersUnlink ==
    ASSUME IInv, NEW t \in Tasks, Within(t), ~NextPage(t), NEW j, j = scanOf[t]
    PROVE  /\ \A n \in PageNumbers : pages'[j][n] \in {0, pages[j][n]}
           /\ pages' = pages \/ pc = "assembled"
           /\ pc' = "scanning" => pc = "resolving"
<1> USE DEF IInv
<1>1. CASE UnlinkPage(t)
  <2>1. \E n \in PageNumbers : SetPage(j, n, 0)
    BY <1>1 DEF UnlinkPage, SetPage
  <2>2. FilesTyped /\ j \in Jobs
    BY TypesSplit, HandlerHasJob, WithinKeeps DEF Handles
  <2>3. \A n \in PageNumbers : pages'[j][n] \in {0, pages[j][n]}
    BY <2>1, <2>2, PageChanges
  <2> QED BY <1>1, <2>3 DEF UnlinkPage, Running
<1>2. CASE ~UnlinkPage(t)
  <2>1. pages' = pages
    BY <1>2 DEF Within, Load, ScanCancelled, Scanning, Launch, PollCancelled, Assemble,
       Assembled, Protect, Deliver, ScanFails, Goto, SaveState, fileVars
  <2>2. pc' = "scanning" => pc = "resolving"
    BY <1>2 DEF Within, Load, ScanCancelled, Scanning, Launch, PollCancelled, Assemble,
       Assembled, Protect, Deliver, ScanFails, Goto, SaveState, Running
  <2> QED BY <2>1, <2>2
<1> QED BY <1>1, <1>2

LEMMA FilesInductive ==
    ASSUME IInv, [Next]_vars
    PROVE  FilesInOrder' /\ PagesInOrder'
<1> USE DEF IInv
<1>1. \A i \in Jobs : \A n \in PageNumbers : pages[i][n] \in Nat /\ result[i].pages[n] \in Nat
  BY TypesSplit DEF FilesTyped, Results
<1>2. ASSUME NEW j \in Jobs PROVE InOrder(pages'[j])
  <2>1. CASE \A t \in Tasks : ~Acts(t, j)
    BY <2>1, FileSteps, ResultFields DEF FilesInOrder, InOrder
  <2>2. ASSUME NEW t \in Tasks, Acts(t, j), ~NextPage(t) PROVE InOrder(pages'[j])
    <3>1. \A n \in PageNumbers : pages'[j][n] \in {0, pages[j][n]}
      BY <2>2, OthersUnlink DEF Acts
    <3> QED BY <1>1, <3>1 DEF FilesInOrder, InOrder
  <2>3. ASSUME NEW t \in Tasks, Acts(t, j), NextPage(t) PROVE InOrder(pages'[j])
    <3>1. PICK n \in PageNumbers :
             /\ OwnPages(j, tries[t]) = 1..(n - 1)
             /\ pages'[j][n] = tries[t]
             /\ \A m \in PageNumbers : m # n => pages'[j][m] = pages[j][m]
      BY <2>3, NextPageWrites DEF Acts
    <3>2. \A m \in PageNumbers : pages[j][m] <= tries[t] /\ tries[t] \in Nat
      BY <2>3, ActsBegun DEF PagesBegun
    <3>3. \A m \in PageNumbers : m < n => pages[j][m] = tries[t]
      BY <3>1 DEF OwnPages, PageNumbers
    <3> SUFFICES ASSUME NEW a \in PageNumbers, NEW b \in PageNumbers, a < b, pages'[j][a] # 0
                 PROVE  pages'[j][a] >= pages'[j][b]
      BY DEF InOrder
    <3>4. CASE a = n
      <4>1. b # n
        BY <3>4 DEF PageNumbers
      <4> QED BY <1>1, <3>1, <3>2, <3>4, <4>1
    <3>5. CASE b = n
      <4>1. a # n
        BY <3>5 DEF PageNumbers
      <4> QED BY <1>1, <3>1, <3>2, <3>3, <3>5, <4>1
    <3>6. CASE a # n /\ b # n
      BY <1>1, <3>1, <3>6 DEF FilesInOrder, InOrder
    <3> QED BY <3>4, <3>5, <3>6
  <2> QED BY <2>1, <2>2, <2>3
<1>3. FilesInOrder'
  BY <1>2 DEF FilesInOrder
<1>4. ASSUME NEW j \in Jobs PROVE InOrder(result'[j].pages)
  <2>1. InOrder(result[j].pages) /\ InOrder(pages[j]) /\ InOrder(NoPages)
    BY ResultFields DEF PagesInOrder, FilesInOrder, InOrder
  <2> QED BY <2>1, FileSteps
<1>5. PagesInOrder'
  BY <1>4 DEF PagesInOrder, InOrder
<1> QED BY <1>3, <1>5

LEMMA OwnPagesInductive ==
    ASSUME IInv, [Next]_vars
    PROVE  OwnPagesFirst'
<1> USE DEF IInv
<1> SUFFICES ASSUME NEW t \in Tasks, Handles(t)'
             PROVE  /\ pc' \in {"begin", "loaded", "resolving"} =>
                         \A n \in PageNumbers : pages'[scanOf'[t]][n] < tries'[t]
                    /\ pc' = "scanning" =>
                         \E k \in 0..MaxPages :
                           {n \in PageNumbers : pages'[scanOf'[t]][n] = tries'[t]} = 1..k
  BY DEF OwnPagesFirst, OwnPages
<1> DEFINE j == scanOf[t]
           Own == {n \in PageNumbers : pages'[scanOf'[t]][n] = tries'[t]}
<1>1. j \in Jobs /\ scanOf'[t] = j
  BY HandlerSteps
<1>2. tries[t] \in Nat /\ \A n \in PageNumbers : pages[j][n] \in Nat
  BY <1>1, TypesSplit DEF QueueOK, QueueTypeOK, FilesTyped
<1>3. Begun(j) = tries[t] /\ \A n \in PageNumbers : pages[j][n] <= tries[t]
  BY <1>1, TaskOfJob DEF IsScan, PagesBegun
<1>4. Handles(t) => tries[t] > 0
  BY <1>2 DEF QueueOK, StartedOnce, Handles
\* Pages other than those written stay away from the attempt's number.
<1>5. ASSUME tries'[t] = tries[t], Handles(t),
             \A n \in PageNumbers : pages'[j][n] \in {0, pages[j][n]},
             \A n \in PageNumbers : pages[j][n] < tries[t]
      PROVE  /\ \A n \in PageNumbers : pages'[scanOf'[t]][n] < tries'[t]
             /\ \E k \in 0..MaxPages : Own = 1..k
  <2>1. \A n \in PageNumbers : pages'[j][n] < tries[t]
    BY <1>2, <1>4, <1>5
  <2>2. Own = {}
    BY <1>1, <1>2, <1>5, <2>1 DEF OwnPages
  <2>3. 0 \in 0..MaxPages /\ 1..0 = {}
    BY ScanJobsAssumption
  <2> QED BY <1>1, <1>5, <2>1, <2>2, <2>3
<1>6. CASE StartTask(t) /\ pc' = "begin" /\ tries'[t] = tries[t] + 1
  BY <1>1, <1>2, <1>3, <1>6 DEF StartTask, fileVars
<1>7. CASE Handles(t) /\ Within(t) /\ NextPage(t) /\ tries'[t] = tries[t]
  <2>1. pc' = "scanning"
    BY <1>7 DEF NextPage, Running
  <2>2. PICK n \in PageNumbers :
             /\ OwnPages(j, tries[t]) = 1..(n - 1)
             /\ pages'[j][n] = tries[t]
             /\ \A m \in PageNumbers : m # n => pages'[j][m] = pages[j][m]
    BY <1>7, NextPageWrites
  <2>3. \A m \in PageNumbers : pages'[j][m] = tries[t] <=> m <= n
    BY <2>2 DEF OwnPages, PageNumbers
  <2>4. Own = 1..n
    BY <1>1, <1>7, <2>3, ScanJobsAssumption DEF OwnPages, PageNumbers
  <2> QED BY <2>1, <2>4, ScanJobsAssumption DEF PageNumbers
<1>8. CASE Handles(t) /\ Within(t) /\ ~NextPage(t) /\ tries'[t] = tries[t]
  <2>1. \A n \in PageNumbers : pages'[j][n] \in {0, pages[j][n]}
    BY <1>8, OthersUnlink
  <2>2. pc' \in {"loaded", "resolving", "scanning"} => pc \in {"begin", "loaded", "resolving"}
    BY <1>8, OthersUnlink, WithinSaves
  <2>3. pc' # "begin"
    BY <1>8 DEF Within, Load, ScanCancelled, Scanning, Launch, PollCancelled, Assemble,
       Assembled, UnlinkPage, Protect, Deliver, ScanFails, Goto, SaveState, Running
  <2> QED BY <1>5, <1>8, <2>1, <2>2, <2>3 DEF OwnPagesFirst
<1>9. CASE Handles(t) /\ pc' = pc /\ (\A u \in Tasks : ~Within(u)) /\ tries'[t] = tries[t]
  <2>1. pages'[j] \in {pages[j], NoPages}
    BY <1>1, <1>9, FileSteps DEF Acts
  <2>2. \A n \in PageNumbers : pages'[j][n] \in {0, pages[j][n]}
    BY <2>1, ResultFields
  <2>3. CASE pc' = "scanning" /\ pages'[j] = pages[j]
    <3>1. Own = OwnPages(j, tries[t])
      BY <1>1, <1>9, <2>3 DEF OwnPages
    <3> QED BY <1>9, <2>3, <3>1 DEF OwnPagesFirst
  <2>4. CASE pc' = "scanning" /\ pages'[j] = NoPages
    <3>1. Own = {}
      BY <1>1, <1>4, <1>9, <2>4, ResultFields DEF OwnPages
    <3> QED BY <2>4, <3>1, ScanJobsAssumption
  <2> QED BY <1>5, <1>9, <2>1, <2>2, <2>3, <2>4 DEF OwnPagesFirst
<1> QED BY <1>6, <1>7, <1>8, <1>9, HandlerSteps

\* A download that is offered goes on being there, or has its excuse.
LEMMA OfferedInductive ==
    ASSUME IInv, [Next]_vars
    PROVE  OfferedIsWhole'
<1> USE DEF IInv
<1> SUFFICES ASSUME NEW j \in Jobs, offered'[j], result'[j].file # "whole",
                    j \notin unrecorded'
             PROVE  result'[j].file = "none" /\ j \in deleting' \cup unswept'
  BY DEF OfferedIsWhole
<1>1. RowsTyped /\ j \notin unrecorded
  BY TypesSplit, RowSteps
<1>2. ASSUME NEW t \in Tasks, Acts(t, j) PROVE ~offered[j]
  BY <1>1, <1>2, ActsBegun DEF NotOffered
<1>3. CASE ~offered[j]
  <2>1. PICK t \in Tasks : Acts(t, j) /\ pc = "protected" /\ pc' = "return"
    BY <1>3, RowSteps
  <2>2. result[j].file = "whole"
    BY <1>1, <2>1, ActsBegun DEF ResultFits
  <2>3. result'[j] = result[j]
    BY <2>1, WithinWrites DEF Acts
  <2> QED BY <2>2, <2>3
<1>4. CASE offered[j] /\ DeleteFile(j)
  <2>1. result'[j] = NoResult /\ j \in deleting'
    BY <1>4, TypesSplit DEF DeleteFile, Set, FilesTyped
  <2> QED BY <2>1, ResultFields
<1>5. CASE offered[j] /\ CleanupScan(j)
  <2>1. result'[j] = NoResult /\ j \in unswept'
    BY <1>1, <1>5, TypesSplit DEF CleanupScan, Set, FilesTyped, RowsTyped
  <2> QED BY <2>1, ResultFields
<1>6. CASE offered[j] /\ ~DeleteFile(j) /\ ~CleanupScan(j)
  <2>1. result'[j] = result[j]
    BY <1>2, <1>6, FileSteps
  <2>2. result[j].file = "none" /\ j \in deleting \cup unswept
    BY <1>1, <1>6, <2>1 DEF OfferedIsWhole
  <2>3. j \in deleting /\ j \notin deleting' => DeletePath(j)
    BY StepKinds, WithinKeeps, EndingLeaves
       DEF Web, CreateScan, RequestDies, ReadCancel, SaveCancel, DeleteFile, DeletePath,
           EnqueueScan, CleanupScan, StartTask, webVars, vars
  <2>4. ~DeletePath(j)
    BY <1>1 DEF DeletePath, Set, RowsTyped
  <2> QED BY <2>1, <2>2, <2>3, <2>4, RowSteps
<1> QED BY <1>3, <1>4, <1>5, <1>6

\* A live task stays live until its handler has come to an end.
LEMMA LiveSteps ==
    ASSUME IInv, [Next]_vars, NEW t \in Tasks, phase[t] \in {"waiting", "executing"}, ~EndTask(t)
    PROVE  phase'[t] \in {"waiting", "executing"} /\ scanOf'[t] = scanOf[t]
<1> USE DEF IInv
<1>1. ASSUME NEW j \in Jobs, EnqueueScan(j)
      PROVE  phase'[t] = phase[t] /\ scanOf'[t] = scanOf[t]
  BY <1>1, SubmitPhases DEF EnqueueScan, Free, TypeOK
<1>2. ASSUME NEW u \in Tasks, StartTask(u)
      PROVE  phase'[t] \in {"waiting", "executing"} /\ scanOf' = scanOf
  BY <1>2, StartPhases DEF StartTask
<1>3. ASSUME NEW u \in Tasks, EndTask(u) \/ WorkerDies(u)
      PROVE  phase'[t] \in {"waiting", "executing"} /\ scanOf' = scanOf
  BY <1>3, EndingLeaves
<1>4. ASSUME \/ \E u \in Tasks : Within(u)
             \/ \E j \in Jobs : Web(j) \/ CleanupScan(j)
             \/ UNCHANGED vars
      PROVE  phase'[t] = phase[t] /\ scanOf'[t] = scanOf[t]
  BY <1>4, WithinKeeps, WebKeeps, CleanupKeeps DEF queueVars, vars
<1> QED BY <1>1, <1>2, <1>3, <1>4, StepKinds

LEMMA ActiveInductive ==
    ASSUME IInv, [Next]_vars
    PROVE  ActiveHasTask'
<1> USE DEF IInv
<1> SUFFICES ASSUME NEW j \in Jobs, jobState'[j] \in {"pending", "scanning"},
                    j \notin inFlight' \cup dropped' \cup stale'
             PROVE  \E t \in Tasks : scanOf'[t] = j /\ phase'[t] \in {"waiting", "executing"}
  BY DEF ActiveHasTask, LiveScans, TasksOf
<1>1. j \notin dropped \cup stale
  BY RowSteps
<1>2. ASSUME NEW t \in Tasks, scanOf[t] = j, phase[t] \in {"waiting", "executing"}, ~EndTask(t)
      PROVE  scanOf'[t] = j /\ phase'[t] \in {"waiting", "executing"}
  BY <1>2, LiveSteps
<1>3. CASE \E t \in Tasks : Acts(t, j)
  <2> PICK t \in Tasks : Acts(t, j)
    BY <1>3
  <2>1. phase'[t] = "executing" /\ scanOf'[t] = j
    BY WithinKeeps DEF Acts, Handles, queueVars
  <2> QED BY <2>1
<1>4. CASE \A t \in Tasks : ~Acts(t, j)
  <2>1. jobState'[j] = jobState[j]
    BY <1>4, RowSteps, SaveCancelEffect DEF AfterCancel
  <2>2. CASE j \in inFlight
    <3>1. EnqueueScan(j)
      <4>1. j \notin inFlight' /\ j \notin dropped'
        OBVIOUS
      <4> QED BY <2>2, <4>1, StepKinds, WithinKeeps, EndingLeaves
              DEF Web, CreateScan, RequestDies, ReadCancel, SaveCancel, DeleteFile, DeletePath,
                  EnqueueScan, CleanupScan, StartTask, webVars, vars
    <3>2. PICK t \in Tasks : Submit(t) /\ scanOf' = [scanOf EXCEPT ![t] = j]
      BY <3>1 DEF EnqueueScan, Free
    <3>3. phase'[t] = "waiting" /\ scanOf'[t] = j
      BY <3>2, SubmitPhases DEF TypeOK
    <3> QED BY <3>3
  <2>3. CASE j \notin inFlight
    <3>1. PICK t \in Tasks : scanOf[t] = j /\ phase[t] \in {"waiting", "executing"}
      BY <1>1, <2>1, <2>3 DEF ActiveHasTask, LiveScans, TasksOf
    <3>2. CASE EndTask(t)
      <4>1. Handles(t) /\ pc \in {"return", "raise"}
        BY <3>2 DEF EndTask, Running, Handles
      <4> QED BY <1>1, <2>1, <3>1, <4>1 DEF EndsShown
    <3> QED BY <1>2, <3>1, <3>2
  <2> QED BY <2>2, <2>3
<1> QED BY <1>3, <1>4
-----------------------------------------------------------------------------
(* What was delivered.                                                     *)

\* A scan that shows as complete is not scanned again, its result is not written again, and
\* after it was deleted (scan_delete, cleanup_expired) it is not offered again; except when
\* the worker died before the task was saved as complete, or a cancel saved an older state.
DeliveredKept ==
    \A j \in Jobs : jobState[j] = "complete" /\ j \notin unrecorded \cup stale =>
        /\ jobState'[j] = "complete" \/ j \in stale'
        /\ result'[j] \in {result[j], NoResult}
        /\ offered'[j] => offered[j]

\* No step of handle_scan, scan_job_cancel, scan_delete or cleanup_expired does otherwise.
DeliveredStays == [][DeliveredKept]_vars

LEMMA DeliveredStep ==
    ASSUME IInv, [Next]_vars
    PROVE  DeliveredKept
<1> USE DEF IInv
<1> SUFFICES ASSUME NEW j \in Jobs, jobState[j] = "complete", j \notin unrecorded \cup stale
             PROVE  /\ jobState'[j] = "complete" \/ j \in stale'
                    /\ result'[j] \in {result[j], NoResult}
                    /\ offered'[j] => offered[j]
  BY DEF DeliveredKept
<1>1. \A t \in Tasks : ~Acts(t, j)
  BY ActsBegun DEF NotAgain
<1>2. jobState'[j] = "complete" \/ j \in stale'
  BY <1>1, RowSteps, SaveCancelEffect DEF AfterCancel
<1>3. DeleteFile(j) \/ CleanupScan(j) => result'[j] = NoResult
  BY TypesSplit DEF DeleteFile, CleanupScan, Set, FilesTyped
<1>4. result'[j] \in {result[j], NoResult}
  BY <1>1, <1>3, FileSteps
<1> QED BY <1>1, <1>2, <1>4, RowSteps
-----------------------------------------------------------------------------
LEMMA Starts == Init => IInv
<1> SUFFICES ASSUME Init PROVE IInv
  OBVIOUS
<1> USE ScanJobsAssumption DEF Init
<1>1. QueueOK
  BY QueueStarts
<1>2. /\ \A t \in Tasks : phase[t] = "absent" /\ ~Handles(t) /\ ~IsScan(t)
      /\ \A j \in Jobs : /\ jobState[j] = "absent" /\ ~offered[j] /\ ~cancelRequested[j]
                         /\ pages[j] = NoPages /\ result[j] = NoResult
                         /\ cancelling[j] = NotCancelling
                         /\ j \notin inFlight \cup deleting
  BY DEF QueueInit, Handles, IsScan
<1>3. TypeOK
  <2>1. RowsTyped
    BY DEF RowsTyped, JobStates, PCs
  <2>2. FilesTyped
    BY ResultFields DEF FilesTyped
  <2>3. RestTyped
    BY DEF RestTyped
  <2> QED BY <2>1, <2>2, <2>3, TypesSplit
<1>4. OneScanEach /\ PcFits
  BY <1>2 DEF OneScanEach, PcFits
<1>5. \A j \in Jobs : Begun(j) = 0
  BY <1>2 DEF Begun, TasksOf, IsScan
<1>6. PagesBegun /\ Unbegun /\ FilesInOrder /\ PagesInOrder
  BY <1>2, <1>5, ResultFields DEF PagesBegun, Unbegun, FilesInOrder, PagesInOrder, InOrder
<1>7. /\ CancelSeen /\ NeverBack /\ EndsShown
      /\ NotOffered /\ NotAgain /\ ResultFits /\ OwnPagesFirst
  BY <1>2 DEF CancelSeen, NeverBack, EndsShown, NotOffered, NotAgain, ResultFits, OwnPagesFirst
<1>8. ActiveHasTask /\ CancelHolds /\ OfferedIsWhole
  BY <1>2 DEF ActiveHasTask, CancelHolds, OfferedIsWhole
<1> QED BY <1>1, <1>3, <1>4, <1>6, <1>7, <1>8 DEF IInv

\* The inductive invariant: rows, tasks, the place in the handler and the files fit.
THEOREM Inductive == Spec => []IInv
<1>1. IInv /\ [Next]_vars => IInv'
  <2> SUFFICES ASSUME IInv, [Next]_vars PROVE IInv'
    OBVIOUS
  <2>1. QueueOK' /\ TypeOK' /\ OneScanEach' /\ PcFits'
    BY TypesInductive, TasksInductive
  <2>2. PagesBegun' /\ Unbegun' /\ CancelSeen' /\ NeverBack' /\ EndsShown'
    BY PagesInductive, UnbegunInductive, CancelSeenInductive, EndsInductive
  <2>3. NotOffered' /\ NotAgain' /\ ResultFits' /\ FilesInOrder' /\ OwnPagesFirst'
    BY NotOfferedInductive, NotAgainInductive, ResultInductive, FilesInductive, OwnPagesInductive
  <2>4. ActiveHasTask' /\ CancelHolds' /\ OfferedIsWhole' /\ PagesInOrder'
    BY ActiveInductive, CancelInductive, OfferedInductive, FilesInductive
  <2> QED BY <2>1, <2>2, <2>3, <2>4 DEF IInv
<1> QED BY Starts, <1>1, PTL DEF Spec

\* Rows, files and requests hold values of their kinds.
THEOREM TypeCorrect == Spec => []TypeOK
<1>1. IInv => TypeOK
  BY DEF IInv
<1> QED BY Inductive, <1>1, PTL

\* A scan that shows as pending or scanning has a task that will end it, or one of
\* the excuses that ActiveHasTask names.
THEOREM ActiveScanHasTask == Spec => []ActiveHasTask
<1>1. IInv => ActiveHasTask
  BY DEF IInv
<1> QED BY Inductive, <1>1, PTL

\* After scan_job_cancel has saved its request no attempt begins to scan, whatever
\* was running, waiting or dying then.
THEOREM CancelIsKept == Spec => []CancelHolds
<1>1. IInv => CancelHolds
  BY DEF IInv
<1> QED BY Inductive, <1>1, PTL

\* The download that a completed scan offers is there and whole, against deletions,
\* cleanups and scans that run again.
THEOREM OffersWhole == Spec => []OfferedIsWhole
<1>1. IInv => OfferedIsWhole
  BY DEF IInv
<1> QED BY Inductive, <1>1, PTL

\* The pages of a result keep their order, over the pages of attempts that failed.
THEOREM KeepsPageOrder == Spec => []PagesInOrder
<1>1. IInv => PagesInOrder
  BY DEF IInv
<1> QED BY Inductive, <1>1, PTL

\* What a user was told is complete stays, against retries, reruns and the cleanup, except
\* for the two cases that DeliveredKept names.
THEOREM DeliveredIsKept == Spec => DeliveredStays
<1>1. IInv /\ [Next]_vars => [DeliveredKept]_vars
  BY DeliveredStep
<1> QED BY Inductive, <1>1, PTL DEF Spec, DeliveredStays

\* The handlers use the queue as AtLeastOnceQueue.tla allows.
THEOREM ScansKeepToQueue == Spec => QueueSpec
<1>1. Init => QueueInit
  BY DEF Init
<1>2. [Next]_vars => [QueueNext]_queueVars
  <2> SUFFICES ASSUME [Next]_vars PROVE QueueNext \/ UNCHANGED queueVars
    OBVIOUS
  <2>1. ASSUME NEW j \in Jobs, EnqueueScan(j) PROVE QueueNext
    BY <2>1, SubmitIsStep DEF EnqueueScan, Free
  <2>2. ASSUME NEW t \in Tasks, StartTask(t) \/ EndTask(t) \/ WorkerDies(t) PROVE QueueNext
    BY <2>2 DEF StartTask, EndTask, WorkerDies, QueueNext
  <2> QED BY <2>1, <2>2, StepKinds, WebKeeps, WithinKeeps, CleanupKeeps DEF vars
<1> QED BY <1>1, <1>2, PTL DEF Spec, QueueSpec
=============================================================================
