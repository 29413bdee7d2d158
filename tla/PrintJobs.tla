----------------------------- MODULE PrintJobs -----------------------------
(***************************************************************************)
(* The life of a print job: print_submit and print_job_command in the web  *)
(* processes, handle_print, handle_print_job_command, sync_print_jobs and  *)
(* cleanup_expired in the one worker, and the jobs they create in CUPS.    *)
(*                                                                         *)
(* The tasks live in the queue of AtLeastOnceQueue.tla, which TaskQueue    *)
(* implements. A handler is cut at every point where its effects become    *)
(* visible to others or survive its death: each save of the row and each   *)
(* call to CUPS is a step, and the worker may die between any two.         *)
(***************************************************************************)
EXTENDS AtLeastOnceQueue, Sequences, FiniteSets

CONSTANTS
    Jobs,          \* PrintJob rows
    MaxExits       \* bound: deaths of the worker or of a web request

\* One worker, as docker/supervisord.conf starts it: the handlers of two tasks
\* never interleave, and pc is the worker's.
ASSUME PrintJobsAssumption ==
    /\ MaxExits \in Nat
    /\ \A v, w \in Workers : v = w

VARIABLES
    work,             \* kind and payload of each task
    jobState,         \* PrintJob.state, "absent" before the row is created
    cupsId,           \* PrintJob.cups_job_id, 0 for None
    cancelRequested,  \* PrintJob.cancel_requested
    source,           \* source_path and its file: "kept", "unlinked" or "cleared"
    cups,             \* external: the CUPS jobs by number, with the task that made them
    pc,               \* where the worker is in the handler it runs
    inFlight,         \* requests between the creation of the job and of its task
    exits,            \* deaths so far (bounded by MaxExits)
    dropped,          \* history: jobs whose request died in flight
    lost              \* history: executions of each task cut short

jobVars == <<jobState, cupsId, cancelRequested, source>>
vars == <<queueVars, work, jobVars, cups, pc, inFlight, exits, dropped, lost>>

Commands == {"cancel", "hold", "release", "retry"}
CupsActive == {"pending", "held", "processing"}

NoWork == [kind |-> "none"]
PrintOf(j) == [kind |-> "print", job |-> j]
CommandOf(j, c) == [kind |-> "print_job_command", job |-> j, command |-> c]

-----------------------------------------------------------------------------
Live(t) == phase[t] \in {"waiting", "executing"}
LivePrints(j) == {t \in Tasks : Live(t) /\ work[t] = PrintOf(j)}
LiveRetries(j) == {t \in Tasks : Live(t) /\ work[t] = CommandOf(j, "retry")}

Free == {t \in Tasks : phase[t] = "absent"}

\* Bound: rows that requests in flight and queued retries may still need, one per
\* run of a retry. A request is modelled only if these stay available.
Reserved ==
    Cardinality(inFlight)
      + Cardinality(UNION {LiveRetries(j) : j \in Jobs}) * (1 + MaxExits - exits)

\* Task.enqueue: the next row.
Enqueue(content) ==
    \E t \in Free :
        /\ \A u \in Free : t <= u
        /\ Submit(t)
        /\ work' = [work EXCEPT ![t] = content]

Set(f, j, v) == [f EXCEPT ![j] = v]

-----------------------------------------------------------------------------
(* The web processes.                                                      *)

\* print_submit, up to PrintJob.objects.create.
CreateJob(j) ==
    /\ jobState[j] = "absent"
    /\ Cardinality(Free) >= Reserved + 1
    /\ jobState' = Set(jobState, j, "pending")
    /\ source' = Set(source, j, "kept")
    /\ inFlight' = inFlight \cup {j}
    /\ UNCHANGED <<queueVars, work, cupsId, cancelRequested, cups, pc, exits, dropped, lost>>

\* print_submit, Task.enqueue("print").
EnqueuePrint(j) ==
    /\ j \in inFlight
    /\ Enqueue(PrintOf(j))
    /\ inFlight' = inFlight \ {j}
    /\ UNCHANGED <<jobVars, cups, pc, exits, dropped, lost>>

\* A gunicorn process dies between the two: the transaction of each is its own.
RequestDies(j) ==
    /\ j \in inFlight
    /\ exits < MaxExits
    /\ exits' = exits + 1
    /\ inFlight' = inFlight \ {j}
    /\ dropped' = dropped \cup {j}
    /\ UNCHANGED <<queueVars, work, jobVars, cups, pc, lost>>

\* The view print_job_command: it looks at the user, never at the job's state,
\* which may have changed since the page with the button was drawn.
RequestCommand(j, c) ==
    /\ jobState[j] # "absent"
    /\ Cardinality(Free) > Reserved + (IF c = "retry" THEN 1 + MaxExits - exits ELSE 0)
    /\ Enqueue(CommandOf(j, c))
    /\ UNCHANGED <<jobVars, cups, pc, inFlight, exits, dropped, lost>>

-----------------------------------------------------------------------------
(* The handlers. Running(t, kind) is the worker inside the handler of t.   *)

Running(t, kind, at) ==
    /\ phase[t] = "executing"
    /\ work[t].kind = kind
    /\ pc = at

StartTask(t) ==
    /\ pc = "idle"
    /\ \E w \in Workers : Start(w, t)
    /\ pc' = "begin"
    /\ UNCHANGED <<work, jobVars, cups, inFlight, exits, dropped, lost>>

\* A save of one row that moves the handler on.
Save(j, s, next) ==
    /\ jobState' = Set(jobState, j, s)
    /\ pc' = next
    /\ UNCHANGED <<queueVars, work, source, inFlight, exits, dropped, lost>>

\* handle_print, the job was cancelled while it waited.
PrintCancelled(t) ==
    /\ Running(t, "print", "begin")
    /\ cancelRequested[work[t].job]
    /\ Save(work[t].job, "cancelled", "return")
    /\ UNCHANGED <<cupsId, cancelRequested, cups>>

\* Fault: the cancel request is not looked at.
PrintConvertingAlways(t) ==
    /\ Running(t, "print", "begin")
    /\ Save(work[t].job, "converting", "converting")
    /\ UNCHANGED <<cupsId, cancelRequested, cups>>

PrintConverting(t) ==
    /\ Running(t, "print", "begin")
    /\ ~cancelRequested[work[t].job]
    /\ Save(work[t].job, "converting", "converting")
    /\ UNCHANGED <<cupsId, cancelRequested, cups>>

\* normalize_for_print and submit_file succeed: CUPS has a new job, the row does
\* not know it yet.
PrintSubmit(t) ==
    /\ Running(t, "print", "converting")
    /\ source[work[t].job] = "kept"
    /\ cups' = Append(cups, [task |-> t, state |-> "pending"])
    /\ pc' = "submitted"
    /\ UNCHANGED <<queueVars, work, jobVars, inFlight, exits, dropped, lost>>

\* Fault: an error after the job is saved fails the task all the same.
PrintSubmittedRaises(t) ==
    /\ Running(t, "print", "submitted")
    /\ cupsId' = Set(cupsId, work[t].job, Len(cups))
    /\ Save(work[t].job, "submitted", "raise")
    /\ UNCHANGED <<cancelRequested, cups>>

\* The number printFile returned is that of the newest CUPS job: only the worker
\* submits.
PrintSubmitted(t) ==
    /\ Running(t, "print", "submitted")
    /\ cupsId' = Set(cupsId, work[t].job, Len(cups))
    /\ Save(work[t].job, "submitted", "return")
    /\ UNCHANGED <<cancelRequested, cups>>

\* Fault: the error reaches the task but not the job.
PrintFailsSilently(t) ==
    /\ Running(t, "print", "converting")
    /\ pc' = "raise"
    /\ UNCHANGED <<queueVars, work, jobVars, cups, inFlight, exits, dropped, lost>>

\* The conversion or CUPS refuses; without its source file the job always does.
PrintFails(t) ==
    /\ Running(t, "print", "converting")
    /\ Save(work[t].job, "failed", "raise")
    /\ UNCHANGED <<cupsId, cancelRequested, cups>>

\* handle_print_job_command, retry: Path(source_path).exists() is false for a file
\* that is gone and true for the empty path, which is the current directory.
RetryReset(t) ==
    LET j == work[t].job
    IN  /\ Running(t, "print_job_command", "begin")
        /\ work[t].command = "retry"
        /\ source[j] # "unlinked"
        /\ cupsId' = Set(cupsId, j, 0)
        /\ cancelRequested' = Set(cancelRequested, j, FALSE)
        /\ Save(j, "pending", "reset")
        /\ UNCHANGED cups

RetryRefused(t) ==
    /\ Running(t, "print_job_command", "begin")
    /\ work[t].command = "retry"
    /\ source[work[t].job] = "unlinked"
    /\ pc' = "raise"
    /\ UNCHANGED <<queueVars, work, jobVars, cups, inFlight, exits, dropped, lost>>

RetryEnqueue(t) ==
    /\ Running(t, "print_job_command", "reset")
    /\ Enqueue(PrintOf(work[t].job))
    /\ pc' = "return"
    /\ UNCHANGED <<jobVars, cups, inFlight, exits, dropped, lost>>

\* Fault: hold stops the job in a state sync_print_jobs has no entry for.
HoldStops(s, c) ==
    CASE c = "cancel" -> "canceled"
      [] c = "hold" -> "stopped"
      [] c = "release" -> s

\* external: what CUPS does with a job on cancelJob and setJobHoldUntil.
AfterCommand(s, c) ==
    CASE c = "cancel" -> "canceled"
      [] c = "hold" -> "held"
      [] c = "release" -> IF s = "held" THEN "pending" ELSE s

\* cancel, hold or release of a job that CUPS knows: CUPS obeys ...
CommandCups(t) ==
    LET id == cupsId[work[t].job]
    IN  /\ Running(t, "print_job_command", "begin")
        /\ work[t].command # "retry"
        /\ id # 0
        /\ cups[id].state \in CupsActive
        /\ cups' = [cups EXCEPT ![id].state = AfterCommand(@, work[t].command)]
        /\ pc' = "commanded"
        /\ UNCHANGED <<queueVars, work, jobVars, inFlight, exits, dropped, lost>>

\* ... or raises, always for a job that is finished.
CommandRefused(t) ==
    /\ Running(t, "print_job_command", "begin")
    /\ work[t].command # "retry"
    /\ cupsId[work[t].job] # 0
    /\ pc' = "raise"
    /\ UNCHANGED <<queueVars, work, jobVars, cups, inFlight, exits, dropped, lost>>

CommandSaved(t) ==
    /\ Running(t, "print_job_command", "commanded")
    /\ Save(work[t].job, CASE work[t].command = "cancel" -> "cancelled"
                           [] work[t].command = "hold" -> "held"
                           [] work[t].command = "release" -> "submitted", "return")
    /\ UNCHANGED <<cupsId, cancelRequested, cups>>

\* cancel of a job that CUPS does not know: handle_print will see the request.
CancelWaiting(t) ==
    LET j == work[t].job
    IN  /\ Running(t, "print_job_command", "begin")
        /\ work[t].command = "cancel"
        /\ cupsId[j] = 0
        /\ cancelRequested' = Set(cancelRequested, j, TRUE)
        /\ Save(j, "cancelled", "return")
        /\ UNCHANGED <<cupsId, cups>>

\* hold and release do nothing to it.
CommandIgnored(t) ==
    /\ Running(t, "print_job_command", "begin")
    /\ work[t].command \in {"hold", "release"}
    /\ cupsId[work[t].job] = 0
    /\ pc' = "return"
    /\ UNCHANGED <<queueVars, work, jobVars, cups, inFlight, exits, dropped, lost>>

\* process_one after the handler.
EndTask(t) ==
    /\ phase[t] = "executing"
    /\ \/ pc = "return" /\ Succeed(t)
       \/ pc = "raise" /\ Fail(t)
    /\ pc' = "idle"
    /\ UNCHANGED <<work, jobVars, cups, inFlight, exits, dropped, lost>>

\* The worker dies in a handler and is started again; the queue finds out when
\* the lease expires.
WorkerDies(t) ==
    /\ exits < MaxExits
    /\ Lose(t)
    /\ exits' = exits + 1
    /\ lost' = [lost EXCEPT ![t] = @ + 1]
    /\ pc' = "idle"
    /\ UNCHANGED <<work, jobVars, cups, inFlight, dropped>>

-----------------------------------------------------------------------------
(* Maintenance, between two tasks of the worker.                           *)

\* Fault: an aborted job is shown as printed.
AbortedIsComplete(s) ==
    CASE s = "pending" -> "pending"
      [] s = "held" -> "held"
      [] s = "processing" -> "printing"
      [] s = "canceled" -> "cancelled"
      [] s \in {"aborted", "completed"} -> "complete"

\* sync_print_jobs' mapping. It has no entry for 6 (stopped): a job that cupsd has
\* stopped is left as it is, and is not told apart here from one it works on.
ShownFor(s) ==
    CASE s = "pending" -> "pending"
      [] s = "held" -> "held"
      [] s = "processing" -> "printing"
      [] s \in {"canceled", "aborted"} -> "cancelled"
      [] s = "completed" -> "complete"

\* Fault: only jobs that were seen in CUPS before are looked up.
SeenInCups == {"held", "printing"}

\* The states whose jobs sync_print_jobs looks up.
WithCups == {"submitted", "held", "printing"}

\* sync_print_jobs on one row; rows in other states are filtered out.
SyncJob(j) ==
    /\ pc = "idle"
    /\ cupsId[j] # 0
    /\ jobState[j] \in WithCups
    /\ ShownFor(cups[cupsId[j]].state) # jobState[j]
    /\ Save(j, ShownFor(cups[cupsId[j]].state), "idle")
    /\ UNCHANGED <<cupsId, cancelRequested, cups>>

\* cleanup_expired on one row. The retention period, an hour at least, outlasts the
\* request but may end at any time after it, whatever the job is doing. The file
\* goes, then the path is cleared; a worker that dies in between leaves a path to
\* nothing.
CleanupJob(j) ==
    /\ pc = "idle"
    /\ jobState[j] # "absent" /\ j \notin inFlight
    /\ source[j] # "cleared"
    /\ \/ source' = Set(source, j, "cleared") /\ UNCHANGED exits
       \/ /\ exits < MaxExits
          /\ exits' = exits + 1
          /\ source' = Set(source, j, "unlinked")
    /\ UNCHANGED <<queueVars, work, jobState, cupsId, cancelRequested, cups, pc,
                   inFlight, dropped, lost>>

\* external: cupsd prints, and may abort, what is not held.
CupsWorks(i) ==
    /\ \E s \in CASE cups[i].state = "pending" -> {"processing"}
                  [] cups[i].state = "processing" -> {"completed", "aborted"}
                  [] OTHER -> {} :
         cups' = [cups EXCEPT ![i].state = s]
    /\ UNCHANGED <<queueVars, work, jobVars, pc, inFlight, exits, dropped, lost>>

-----------------------------------------------------------------------------
Init ==
    /\ QueueInit
    /\ work = [t \in Tasks |-> NoWork]
    /\ jobState = [j \in Jobs |-> "absent"]
    /\ cupsId = [j \in Jobs |-> 0]
    /\ cancelRequested = [j \in Jobs |-> FALSE]
    /\ source = [j \in Jobs |-> "cleared"]
    /\ cups = <<>>
    /\ pc = "idle"
    /\ inFlight = {}
    /\ exits = 0
    /\ dropped = {}
    /\ lost = [t \in Tasks |-> 0]

HandlerStep(t) ==
    \/ PrintCancelled(t) \/ PrintConverting(t) \/ PrintSubmit(t)
    \/ PrintSubmitted(t) \/ PrintFails(t)
    \/ RetryReset(t) \/ RetryRefused(t) \/ RetryEnqueue(t)
    \/ CommandCups(t) \/ CommandRefused(t) \/ CommandSaved(t)
    \/ CancelWaiting(t) \/ CommandIgnored(t)
    \/ EndTask(t)

Next ==
    \/ \E j \in Jobs :
        \/ CreateJob(j) \/ EnqueuePrint(j) \/ RequestDies(j)
        \/ \E c \in Commands : RequestCommand(j, c)
        \/ SyncJob(j) \/ CleanupJob(j)
    \/ \E t \in Tasks : StartTask(t) \/ HandlerStep(t) \/ WorkerDies(t)
    \/ \E i \in DOMAIN cups : CupsWorks(i)

Spec == Init /\ [][Next]_vars

\* The worker's loop goes on, supervisord restarts it, and cupsd prints. Users
\* and clocks owe nothing.
FairSpec ==
    /\ Spec
    /\ WF_vars(\E t \in Tasks : StartTask(t))
    /\ WF_vars(\E t \in Tasks : HandlerStep(t))
    /\ WF_vars(\E i \in DOMAIN cups : CupsWorks(i))
    /\ \A j \in Jobs : WF_vars(SyncJob(j)) /\ WF_vars(EnqueuePrint(j))
-----------------------------------------------------------------------------
PCs == {"idle", "begin", "converting", "submitted", "reset", "commanded", "return", "raise"}
JobStates == {"absent", "pending", "converting", "submitted", "held", "printing",
              "complete", "cancelled", "failed"}

Contents == {NoWork} \cup {PrintOf(j) : j \in Jobs}
                     \cup {CommandOf(j, c) : j \in Jobs, c \in Commands}

\* Type invariant: rows, tasks and CUPS jobs hold values of their kinds.
TypeOK ==
    /\ phase \in [Tasks -> {"absent", "waiting", "executing", "complete", "failed"}]
    /\ executor \in [Tasks -> Workers \cup {NoWorker}]
    /\ tries \in [Tasks -> Nat]
    /\ limit \in [Tasks -> RetryLimits \cup {0}]
    /\ work \in [Tasks -> Contents]
    /\ jobState \in [Jobs -> JobStates]
    /\ cupsId \in [Jobs -> 0..Len(cups)]
    /\ cancelRequested \in [Jobs -> BOOLEAN]
    /\ source \in [Jobs -> {"kept", "unlinked", "cleared"}]
    /\ \A i \in DOMAIN cups : cups[i].task \in Tasks
                           /\ cups[i].state \in CupsActive \cup {"canceled", "aborted", "completed"}
    /\ pc \in PCs
    /\ inFlight \subseteq Jobs /\ dropped \subseteq Jobs
    /\ exits \in 0..MaxExits
    /\ lost \in [Tasks -> 0..MaxExits]

Tracked(j) == cupsId[j] # 0

\* The states that tell a user that CUPS has the document.
ShownAtCups == {"submitted", "held", "printing"}

\* A retry of j was refused, its file being gone, until it was given up.
RetryGivenUp(j) ==
    source[j] # "kept" /\ \E t \in Tasks : phase[t] = "failed" /\ work[t] = CommandOf(j, "retry")

\* A job that shows as waiting is waiting for something: converting, for a print
\* task of its own, even after the worker died in the middle; pending, for a print
\* or retry task, unless its request died before it had one, sync_print_jobs took
\* the state over from CUPS, or a retry that had reset it died before its print task
\* and then found its file taken by a cleanup that had died too.
WaitingHasTask ==
    \A j \in Jobs :
        /\ jobState[j] = "converting" => LivePrints(j) # {}
        /\ jobState[j] = "pending" /\ ~Tracked(j) =>
             \/ LivePrints(j) \cup LiveRetries(j) # {}
             \/ j \in inFlight \cup dropped
             \/ RetryGivenUp(j)

\* A cancel request is never lost: as long as it stands the job shows as cancelled
\* and no print task, waiting or interrupted, hands it to CUPS.
CancelSticks ==
    \A j \in Jobs : cancelRequested[j] =>
        /\ jobState[j] = "cancelled"
        /\ ~Tracked(j)
        /\ \A t \in LivePrints(j) :
             phase[t] = "executing" => pc \notin {"converting", "submitted"}

\* The state a user sees agrees with the CUPS job the row points to: what shows as
\* being with CUPS has one, what shows as complete was printed, and what shows as
\* cancelled will not be printed by it.
ShownStateIsTracked ==
    \A j \in Jobs :
        /\ jobState[j] \in ShownAtCups => Tracked(j)
        /\ jobState[j] = "complete" => Tracked(j) /\ cups[cupsId[j]].state = "completed"
        /\ jobState[j] = "cancelled" /\ Tracked(j) =>
             cups[cupsId[j]].state \in {"canceled", "aborted"}

MadeBy(t) == {i \in DOMAIN cups : cups[i].task = t}

\* A print task hands its document to CUPS once, plus at most once for each of its
\* executions that was cut short, and only print tasks do: retries after a failure
\* print nothing twice.
SubmissionsAccounted ==
    \A t \in Tasks :
        /\ Cardinality(MadeBy(t)) <= 1 + lost[t]
        /\ MadeBy(t) # {} => work[t].kind = "print"

\* handle_print never leaves a job in conversion: whatever happens to the worker,
\* the job is printed, fails or is cancelled.
ConvertingEnds ==
    \A j \in Jobs : jobState[j] = "converting" ~> jobState[j] # "converting"

\* sync_print_jobs catches up with CUPS: a job it follows does not stay in a state
\* its finished CUPS job has left.
SyncCatchesUp ==
    \A j \in Jobs :
        (jobState[j] \in ShownAtCups /\ cups[cupsId[j]].state = "completed")
            ~> jobState[j] \notin ShownAtCups

\* A new print task of j that is not the one its request enqueues comes from a retry.
RetryAccepted(j) ==
    /\ j \notin inFlight
    /\ \E t \in Tasks : phase[t] = "absent" /\ work'[t] = PrintOf(j)

\* README.md:102: "Retry is available only while the retained source still exists."
RetryNeedsSource == [][\A j \in Jobs : RetryAccepted(j) => source[j] = "kept"]_vars

Printed(j) == Tracked(j) /\ cups[cupsId[j]].state = "completed"

\* sync_print_jobs maps a completed CUPS job to a complete print job (its mapping,
\* task_processor.py:279): a job whose CUPS job is done does not wait for ever.
PrintedIsShown ==
    \A j \in Jobs : Printed(j) ~> jobState[j] = "complete" \/ ~Printed(j)
=============================================================================
