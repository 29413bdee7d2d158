------------------------------ MODULE ScanJobs ------------------------------
(***************************************************************************)
(* The life of a scan job: scan_submit, scan_job_cancel and scan_delete in *)
(* the web processes, handle_scan with run_scan and the scan half of       *)
(* cleanup_expired in the one worker, scanimage, and the job's directory   *)
(* with its page files and its result.                                     *)
(*                                                                         *)
(* A request that reads the row, decides and saves it is cut between the   *)
(* two; a handler is cut at every save, file and signal others can see,    *)
(* and the worker may die between any two. A page is known by the attempt  *)
(* (the execution of the task) that scanned it.                            *)
(***************************************************************************)
EXTENDS AtLeastOnceQueue, FiniteSets

CONSTANTS
    Jobs,          \* ScanJob rows
    MaxPages,      \* bound: pages in the feeder
    MaxExits       \* bound: deaths of the worker or of a web request

NoJob == "no job"

\* One worker, as docker/supervisord.conf starts it.
ASSUME ScanJobsAssumption ==
    /\ NoJob \notin Jobs
    /\ MaxPages \in Nat \ {0}
    /\ MaxExits \in Nat
    /\ \A v, w \in Workers : v = w

VARIABLES
    scanOf,           \* the job in the payload of each task
    jobState,         \* ScanJob.state, "absent" before the row is created
    cancelRequested,  \* ScanJob.cancel_requested
    offered,          \* result_path is set: the page offers a download
    pages,            \* page-NNN.png by number, with the attempt that wrote it
    result,           \* the file at result_path: what of it there is, and its pages
    pc,               \* where the worker is in handle_scan
    inFlight,         \* scan_submit between the job and its task
    cancelling,       \* scan_job_cancel: the state it read and has yet to save
    deleting,         \* scan_delete between the file and the row
    exits,            \* deaths so far (bounded by MaxExits)
    dropped,          \* history: jobs whose scan_submit died in flight
    unrecorded,       \* history: jobs whose worker died after the scan was over
    stale,            \* history: jobs whose cancel saved a state no longer theirs
    unswept,          \* history: jobs whose cleanup died half way
    cancelledIn       \* history: attempts begun when the first cancel was saved

rowVars == <<jobState, cancelRequested, offered>>
fileVars == <<pages, result>>
webVars == <<inFlight, cancelling, deleting>>
history == <<exits, dropped, unrecorded, stale, unswept, cancelledIn>>
vars == <<queueVars, scanOf, rowVars, fileVars, pc, webVars, history>>

NotCancelling == "none"
PageNumbers == 1..MaxPages
NoPages == [n \in PageNumbers |-> 0]
NoResult == [file |-> "none", pages |-> NoPages]

Free == {t \in Tasks : phase[t] = "absent"}
TasksOf(j) == {t \in Tasks : scanOf[t] = j}
LiveScans(j) == {t \in TasksOf(j) : phase[t] \in {"waiting", "executing"}}

\* Attempts at j begun so far: a scan job has one task, there is no retry command.
Begun(j) == IF TasksOf(j) = {} THEN 0 ELSE tries[CHOOSE t \in TasksOf(j) : TRUE]

Set(f, j, v) == [f EXCEPT ![j] = v]

-----------------------------------------------------------------------------
(* The web processes.                                                      *)

\* scan_submit, up to ScanJob.objects.create. (Bound: a row is left for each.)
CreateScan(j) ==
    /\ jobState[j] = "absent"
    /\ Cardinality(Free) > Cardinality(inFlight)
    /\ jobState' = Set(jobState, j, "pending")
    /\ inFlight' = inFlight \cup {j}
    /\ UNCHANGED <<queueVars, scanOf, cancelRequested, offered, fileVars, pc,
                   cancelling, deleting, history>>

\* scan_submit, Task.enqueue("scan").
EnqueueScan(j) ==
    /\ j \in inFlight
    /\ \E t \in Free :
        /\ \A u \in Free : t <= u
        /\ Submit(t)
        /\ scanOf' = [scanOf EXCEPT ![t] = j]
    /\ inFlight' = inFlight \ {j}
    /\ UNCHANGED <<rowVars, fileVars, pc, cancelling, deleting, history>>

\* A gunicorn process dies between the two.
RequestDies(j) ==
    /\ j \in inFlight
    /\ exits < MaxExits
    /\ exits' = exits + 1
    /\ inFlight' = inFlight \ {j}
    /\ dropped' = dropped \cup {j}
    /\ UNCHANGED <<queueVars, scanOf, rowVars, fileVars, pc, cancelling, deleting,
                   unrecorded, stale, unswept, cancelledIn>>

\* scan_job_cancel, get_object_or_404: the row as it is now. (Bound: one request
\* per job at a time.)
ReadCancel(j) ==
    /\ jobState[j] # "absent"
    /\ cancelling[j] = NotCancelling
    /\ cancelling' = Set(cancelling, j, jobState[j])
    /\ UNCHANGED <<queueVars, scanOf, rowVars, fileVars, pc, inFlight, deleting, history>>

\* What scan_job_cancel makes of the state it read.
AfterCancel(s) == IF s = "pending" THEN "cancelled" ELSE s

\* scan_job_cancel, job.save(update_fields=[..., "state", ...]): the state is saved
\* whether or not the view changed it.
SaveCancel(j) ==
    /\ cancelling[j] # NotCancelling
    /\ cancelRequested' = Set(cancelRequested, j, TRUE)
    /\ jobState' = Set(jobState, j, AfterCancel(cancelling[j]))
    /\ cancelling' = Set(cancelling, j, NotCancelling)
    /\ stale' = IF cancelling[j] = jobState[j] THEN stale ELSE stale \cup {j}
    /\ cancelledIn' =
         IF cancelRequested[j] THEN cancelledIn ELSE Set(cancelledIn, j, Begun(j))
    /\ UNCHANGED <<queueVars, scanOf, offered, fileVars, pc, inFlight, deleting,
                   exits, dropped, unrecorded, unswept>>

\* scan_delete: the file goes ...
DeleteFile(j) ==
    /\ offered[j]
    /\ j \notin deleting
    /\ result' = Set(result, j, NoResult)
    /\ deleting' = deleting \cup {j}
    /\ UNCHANGED <<queueVars, scanOf, rowVars, pages, pc, inFlight, cancelling, history>>

\* ... then result_path is cleared.
DeletePath(j) ==
    /\ j \in deleting
    /\ offered' = Set(offered, j, FALSE)
    /\ deleting' = deleting \ {j}
    /\ UNCHANGED <<queueVars, scanOf, jobState, cancelRequested, fileVars, pc,
                   inFlight, cancelling, history>>

-----------------------------------------------------------------------------
(* handle_scan and run_scan.                                               *)

StartTask(t) ==
    /\ pc = "idle"
    /\ \E w \in Workers : Start(w, t)
    /\ pc' = "begin"
    /\ UNCHANGED <<scanOf, rowVars, fileVars, webVars, history>>

Running(t, at) == phase[t] = "executing" /\ pc = at

\* The handler moves on without touching the row or the files ...
Goto(next) ==
    /\ pc' = next
    /\ UNCHANGED <<queueVars, scanOf, rowVars, fileVars, webVars, history>>

\* ... or saves a state and moves on.
SaveState(j, s, next) ==
    /\ jobState' = Set(jobState, j, s)
    /\ pc' = next
    /\ UNCHANGED <<queueVars, scanOf, cancelRequested, offered, fileVars, webVars, history>>

\* Fault: the handler starts without looking at the cancel request.
LoadsAlways(t) == Running(t, "begin") /\ Goto("loaded")

\* ScanJob.objects.get and the test of cancel_requested.
Load(t) ==
    /\ Running(t, "begin")
    /\ Goto(IF cancelRequested[scanOf[t]] THEN "cancelled" ELSE "loaded")

\* Fault: the handler gives up a cancelled scan and leaves the row as it is.
CancelsQuietly(t) == Running(t, "cancelled") /\ Goto("return")

\* The two saves of CANCELLED: before the scan, and on InterruptedError.
ScanCancelled(t) ==
    /\ Running(t, "cancelled")
    /\ SaveState(scanOf[t], "cancelled", "return")

\* The save of SCANNING.
Scanning(t) ==
    /\ Running(t, "loaded")
    /\ SaveState(scanOf[t], "scanning", "resolving")

\* resolve_scanner has found the device, the directory exists, scanimage starts.
Launch(t) == Running(t, "resolving") /\ Goto("scanning")

\* Pages attempt a has written into the directory of j.
OwnPages(j, a) == {n \in PageNumbers : pages[j][n] = a}

\* Fault: a scan that is run again numbers its pages after those it finds.
AppendsPage(t) ==
    LET j == scanOf[t]
    IN  /\ Running(t, "scanning")
        /\ \E n \in PageNumbers :
             /\ pages[j][n] = 0
             /\ \A m \in 1..(n - 1) : pages[j][m] # 0
             /\ pages' = [pages EXCEPT ![j][n] = tries[t]]
        /\ UNCHANGED <<queueVars, scanOf, rowVars, result, pc, webVars, history>>

\* scanimage --batch=page-%03d.png writes its next page, counting from 1 in every
\* attempt, over a page of that number.
NextPage(t) ==
    LET j == scanOf[t]
        n == Cardinality(OwnPages(j, tries[t])) + 1
    IN  /\ Running(t, "scanning")
        /\ n <= MaxPages
        /\ pages' = [pages EXCEPT ![j][n] = tries[t]]
        /\ UNCHANGED <<queueVars, scanOf, rowVars, result, pc, webVars, history>>

\* A turn of the polling loop finds cancel_requested set and terminates scanimage.
\* It reads the row only while scanimage runs, so no later point sees a cancel.
PollCancelled(t) ==
    /\ Running(t, "scanning")
    /\ cancelRequested[scanOf[t]]
    /\ Goto("cancelled")

\* Fault: the job is shown in a state that nothing else in the code knows.
ShowsProcessing(t) ==
    /\ Running(t, "scanning")
    /\ pages[scanOf[t]] # NoPages
    /\ SaveState(scanOf[t], "processing", "assembling")

\* scanimage has ended. Whatever it returned, page files in the directory are taken
\* for its pages, and the result is opened for writing.
Assemble(t) ==
    LET j == scanOf[t]
    IN  /\ Running(t, "scanning")
        /\ pages[j] # NoPages
        /\ result' = Set(result, j, [file |-> "partial", pages |-> NoPages])
        /\ pc' = "assembling"
        /\ UNCHANGED <<queueVars, scanOf, rowVars, pages, webVars, history>>

\* The result is written from sorted(output_dir.glob("page-*.png")); a file that
\* scan_delete unlinks meanwhile is written to no avail.
Assembled(t) ==
    LET j == scanOf[t]
    IN  /\ Running(t, "assembling")
        /\ result' = IF result[j].file = "none" THEN result
                     ELSE Set(result, j, [file |-> "whole", pages |-> pages[j]])
        /\ pc' = "assembled"
        /\ UNCHANGED <<queueVars, scanOf, rowVars, pages, webVars, history>>

\* The page files go, the first one first.
UnlinkPage(t) ==
    LET j == scanOf[t]
    IN  /\ Running(t, "assembled")
        /\ \E n \in PageNumbers :
             /\ pages[j][n] # 0
             /\ \A m \in 1..(n - 1) : pages[j][m] = 0
             /\ pages' = [pages EXCEPT ![j][n] = 0]
        /\ UNCHANGED <<queueVars, scanOf, rowVars, result, pc, webVars, history>>

\* os.chmod of the result, which must still be there.
Protect(t) ==
    /\ Running(t, "assembled")
    /\ pages[scanOf[t]] = NoPages
    /\ result[scanOf[t]].file # "none"
    /\ Goto("protected")

\* The save of COMPLETE with result_path.
Deliver(t) ==
    LET j == scanOf[t]
    IN  /\ Running(t, "protected")
        /\ offered' = Set(offered, j, TRUE)
        /\ jobState' = Set(jobState, j, "complete")
        /\ pc' = "return"
        /\ UNCHANGED <<queueVars, scanOf, cancelRequested, fileVars, webVars, history>>

\* Fault: the error reaches the task but not the job.
FailsSilently(t) ==
    /\ \E at \in {"resolving", "scanning", "assembling", "assembled"} : Running(t, at)
    /\ Goto("raise")

\* No device, no page, the time limit, an error in writing the result or a result
\* that is gone: the save of FAILED. The files stay for the next attempt to find.
ScanFails(t) ==
    /\ \E at \in {"resolving", "scanning", "assembling", "assembled"} : Running(t, at)
    /\ SaveState(scanOf[t], "failed", "raise")

\* process_one after the handler.
EndTask(t) ==
    /\ \/ Running(t, "return") /\ Succeed(t)
       \/ Running(t, "raise") /\ Fail(t)
    /\ pc' = "idle"
    /\ UNCHANGED <<scanOf, rowVars, fileVars, webVars, history>>

\* The worker dies in the handler, and scanimage with it: the pipe it reports every
\* page to has no reader left. When handle_scan was over (pc is "return") but its task
\* is not saved as complete, a scan that was delivered will run again.
WorkerDies(t) ==
    /\ exits < MaxExits
    /\ Lose(t)
    /\ exits' = exits + 1
    /\ unrecorded' = IF pc = "return" THEN unrecorded \cup {scanOf[t]} ELSE unrecorded
    /\ pc' = "idle"
    /\ UNCHANGED <<scanOf, rowVars, fileVars, webVars, dropped, stale, unswept, cancelledIn>>

-----------------------------------------------------------------------------
(* cleanup_expired on one row, between two tasks of the worker. The        *)
(* retention period, a day at least, outlasts the request but may end at   *)
(* any time after it.                                                      *)

\* Fault: the file goes and the row keeps its path.
SweepsFileOnly(j) ==
    /\ pc = "idle"
    /\ offered[j]
    /\ result' = Set(result, j, NoResult)
    /\ UNCHANGED <<queueVars, scanOf, rowVars, pages, pc, webVars, history>>

\* The result and the directory go, then the path is cleared; a worker that dies
\* in between leaves a path to nothing. Rows without result_path are filtered out.
CleanupScan(j) ==
    /\ pc = "idle"
    /\ offered[j]
    /\ result' = Set(result, j, NoResult)
    /\ pages' = Set(pages, j, NoPages)
    /\ \/ /\ offered' = Set(offered, j, FALSE)
          /\ UNCHANGED <<exits, unswept>>
       \/ /\ exits < MaxExits
          /\ exits' = exits + 1
          /\ unswept' = unswept \cup {j}
          /\ UNCHANGED offered
    /\ UNCHANGED <<queueVars, scanOf, jobState, cancelRequested, pc, webVars,
                   dropped, unrecorded, stale, cancelledIn>>

-----------------------------------------------------------------------------
Init ==
    /\ QueueInit
    /\ scanOf = [t \in Tasks |-> NoJob]
    /\ jobState = [j \in Jobs |-> "absent"]
    /\ cancelRequested = [j \in Jobs |-> FALSE]
    /\ offered = [j \in Jobs |-> FALSE]
    /\ pages = [j \in Jobs |-> NoPages]
    /\ result = [j \in Jobs |-> NoResult]
    /\ pc = "idle"
    /\ cancelling = [j \in Jobs |-> NotCancelling]
    /\ inFlight = {} /\ deleting = {}
    /\ exits = 0
    /\ dropped = {} /\ unrecorded = {} /\ stale = {} /\ unswept = {}
    /\ cancelledIn = [j \in Jobs |-> 0]

HandlerStep(t) ==
    \/ Load(t) \/ ScanCancelled(t) \/ Scanning(t) \/ Launch(t)
    \/ NextPage(t) \/ PollCancelled(t) \/ Assemble(t) \/ Assembled(t)
    \/ UnlinkPage(t) \/ Protect(t) \/ Deliver(t) \/ ScanFails(t)
    \/ EndTask(t)

Next ==
    \/ \E j \in Jobs :
        \/ CreateScan(j) \/ EnqueueScan(j) \/ RequestDies(j)
        \/ ReadCancel(j) \/ SaveCancel(j)
        \/ DeleteFile(j) \/ DeletePath(j) \/ CleanupScan(j)
    \/ \E t \in Tasks : StartTask(t) \/ HandlerStep(t) \/ WorkerDies(t)

Spec == Init /\ [][Next]_vars

\* The worker's loop goes on, supervisord restarts it, and run_scan ends: its time
\* limit ends a scanner that does not. Users and clocks owe nothing.
FairSpec ==
    /\ Spec
    /\ WF_vars(\E t \in Tasks : StartTask(t))
    /\ WF_vars(\E t \in Tasks : HandlerStep(t))
-----------------------------------------------------------------------------
JobStates == {"absent", "pending", "scanning", "complete", "cancelled", "failed"}

\* Type invariant: rows, files and requests hold values of their kinds.
TypeOK ==
    /\ scanOf \in [Tasks -> Jobs \cup {NoJob}]
    /\ jobState \in [Jobs -> JobStates]
    /\ cancelRequested \in [Jobs -> BOOLEAN]
    /\ offered \in [Jobs -> BOOLEAN]
    /\ pages \in [Jobs -> [PageNumbers -> Nat]]
    /\ result \in [Jobs -> [file : {"none", "partial", "whole"}, pages : [PageNumbers -> Nat]]]
    /\ pc \in {"idle", "begin", "cancelled", "loaded", "resolving", "scanning",
               "assembling", "assembled", "protected", "return", "raise"}
    /\ cancelling \in [Jobs -> (JobStates \ {"absent"}) \cup {NotCancelling}]
    /\ exits \in 0..MaxExits
    /\ \A S \in {inFlight, deleting, dropped, unrecorded, stale, unswept} : S \subseteq Jobs
    /\ cancelledIn \in [Jobs -> Nat]

\* A scan that shows as waiting or running has a task that will end it, through
\* deaths of the worker too, unless its request died before it had one, or a cancel
\* saved over the state the worker had left meanwhile.
ActiveHasTask ==
    \A j \in Jobs : jobState[j] \in {"pending", "scanning"} =>
        LiveScans(j) # {} \/ j \in inFlight \cup dropped \cup stale

\* A cancel request holds against every later attempt, after a death of the worker
\* too: pages are those of attempts that had begun when it was saved, and a job
\* cancelled before the first one shows as cancelled for good.
CancelHolds ==
    \A j \in Jobs : cancelRequested[j] =>
        /\ \A n \in PageNumbers :
             /\ pages[j][n] <= cancelledIn[j]
             /\ result[j].pages[n] <= cancelledIn[j]
        /\ cancelledIn[j] = 0 => jobState[j] = "cancelled" /\ ~offered[j]

\* A download that is offered is there and whole. It is missing only while it is
\* being deleted or after a cleanup that died; only when a worker died after it had
\* delivered, so that the scan is run again under the eyes of the user, can it be
\* half written, or offered again after it was deleted.
OfferedIsWhole ==
    \A j \in Jobs : offered[j] /\ result[j].file # "whole" =>
        \/ j \in unrecorded
        \/ result[j].file = "none" /\ j \in deleting \cup unswept

\* The pages of a result are in the order they were scanned: what an interrupted
\* attempt left behind comes after the pages of a later one, never among them.
PagesInOrder ==
    \A j \in Jobs : \A m, n \in PageNumbers :
        m < n /\ result[j].pages[m] # 0 => result[j].pages[m] >= result[j].pages[n]

\* A scan that runs comes to an end, also when it is cancelled, fails, exceeds its
\* time or loses its worker; not when a cancel brought the state back (stale).
ScanningEnds ==
    \A j \in Jobs : jobState[j] = "scanning" ~> jobState[j] # "scanning" \/ j \in stale

\* README.md:112: "Running scans can be cancelled; the worker terminates the SANE
\* process". A scan that shows as running and is cancelled does not run for ever.
CancelEndsScan ==
    \A j \in Jobs :
        (jobState[j] = "scanning" /\ cancelRequested[j]) ~> jobState[j] # "scanning"

\* run_scan raises "The scanner returned no pages" (sane_service.py:178) when there
\* are none: a scan completes only with a page of its own.
CompleteHasOwnPages ==
    [][\A t \in Tasks : Deliver(t) =>
         \E n \in PageNumbers : result[scanOf[t]].pages[n] = tries[t]]_vars
=============================================================================
