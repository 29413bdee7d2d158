------------------------------ MODULE Scanners ------------------------------
(***************************************************************************)
(* The validation of scanner endpoints: device_create and device_edit with *)
(* _save_endpoints, scanner_revalidate and the removal of an endpoint in   *)
(* the web processes; reconcile_scanner_validations when the worker        *)
(* starts and handle_configure_scanner with regenerate_config,             *)
(* resolve_scanner and fetch_capabilities in the worker.                   *)
(*                                                                         *)
(* An endpoint (address and driver) is a version number, new with every    *)
(* change. What scanimage reported is known by the device it was asked of, *)
(* so that a verdict can be compared with the row it ends up in.           *)
(***************************************************************************)
EXTENDS AtLeastOnceQueue, FiniteSets

CONSTANTS
    Scanners,      \* ScannerEndpoint rows, one for each device that has one
    NoScanner,     \* the row of a task whose endpoint was deleted
    MaxVersion,    \* bound: endpoints a device is given
    Hpaio,         \* the versions whose driver is hpaio; the others are AirScan
    NameWithin,    \* <<s, u>>: the name of s is part of the name of u
    MaxExits       \* bound: deaths of the worker or of a request

\* One worker, as docker/supervisord.conf starts it.
ASSUME ScannersAssumption ==
    /\ MaxVersion \in Nat \ {0}
    /\ MaxExits \in Nat
    /\ Hpaio \subseteq 1..MaxVersion
    /\ NameWithin \subseteq Scanners \X Scanners
    /\ NoScanner \notin Scanners
    /\ \A v, w \in Workers : v = w

VARIABLES
    scannerOf,       \* scanner_id of each task
    endpoint,        \* version in the row, 0 when there is no row
    validation,      \* ScannerEndpoint.validation_state
    capabilities,    \* what scanimage said, by the endpoint it was asked of
    pc,              \* where the worker is
    unknowns,        \* reconcile: rows it found UNKNOWN and has not looked at
    loaded,          \* handler: version of the row it holds in memory
    asked,           \* handler: the endpoint scanimage was sent to
    issued,          \* versions given to each device (bounded by MaxVersion)
    revalidating,    \* scanner_revalidate between the state and the task
    exits,           \* deaths so far (bounded by MaxExits)
    dropped          \* history: rows left PENDING by a death before the task

rowVars == <<endpoint, validation, capabilities>>
workerVars == <<pc, unknowns, loaded, asked>>
webVars == <<issued, revalidating>>
history == <<exits, dropped>>
vars == <<queueVars, scannerOf, rowVars, workerVars, webVars, history>>

Versions == 1..MaxVersion
Nothing == [of |-> NoScanner, version |-> 0]
Endpoint(s) == [of |-> s, version |-> endpoint[s]]

TasksOf(s) == {t \in Tasks : scannerOf[t] = s}
Queued(s) == \E t \in TasksOf(s) : phase[t] \in {"waiting", "executing"}
Free == {t \in Tasks : phase[t] = "absent"}
Set(f, s, v) == [f EXCEPT ![s] = v]

\* Task.enqueue("configure_scanner", ...).
Enqueue(s) ==
    \E t \in Free :
        /\ \A u \in Free : t <= u
        /\ Submit(t)
        /\ scannerOf' = [scannerOf EXCEPT ![t] = s]

\* Rows of the bound are kept back for what is sure to be enqueued.
Reserved == unknowns \cup {s \in Scanners : validation[s] = "unknown"}
HasRoom == Cardinality(Free) > Cardinality(revalidating) + Cardinality(Reserved)

-----------------------------------------------------------------------------
(* The web processes.                                                      *)

\* Fault: like reconcile, an edit relies on a validation that is queued or running.
SavesUnlessQueued(s, v) ==
    /\ v = issued[s] + 1 \/ v = endpoint[s]
    /\ v \in Versions
    /\ HasRoom
    /\ IF Queued(s) THEN UNCHANGED <<queueVars, scannerOf>> ELSE Enqueue(s)
    /\ endpoint' = Set(endpoint, s, v)
    /\ validation' = Set(validation, s, "pending")
    /\ capabilities' = Set(capabilities, s, Nothing)
    /\ issued' = IF v > issued[s] THEN Set(issued, s, v) ELSE issued
    /\ UNCHANGED <<workerVars, revalidating, history>>

\* _save_endpoints gives s the version v, new or forced by a changed address: the row
\* loses what was known of the old one and a validation is enqueued, in the
\* transaction of device_create or device_edit.
SaveEndpoint(s, v) ==
    /\ v = issued[s] + 1 \/ v = endpoint[s]
    /\ v \in Versions
    /\ HasRoom
    /\ Enqueue(s)
    /\ endpoint' = Set(endpoint, s, v)
    /\ validation' = Set(validation, s, "pending")
    /\ capabilities' = Set(capabilities, s, Nothing)
    /\ issued' = IF v > issued[s] THEN Set(issued, s, v) ELSE issued
    /\ UNCHANGED <<workerVars, revalidating, history>>

\* The endpoint is deleted, by device_edit or with its device (airscan.conf is written
\* anew before every use). Its tasks will not find the row; a revalidation in flight
\* would only add one more of them.
RemoveEndpoint(s) ==
    /\ endpoint[s] # 0
    /\ endpoint' = Set(endpoint, s, 0)
    /\ validation' = Set(validation, s, "absent")
    /\ capabilities' = Set(capabilities, s, Nothing)
    /\ scannerOf' = [t \in Tasks |-> IF scannerOf[t] = s THEN NoScanner ELSE scannerOf[t]]
    /\ revalidating' = revalidating \ {s}
    /\ dropped' = dropped \ {s}
    /\ UNCHANGED <<queueVars, workerVars, issued, exits>>

\* scanner_revalidate saves PENDING (bound: one request per row at a time) ...
Revalidate(s) ==
    /\ endpoint[s] # 0
    /\ s \notin revalidating
    /\ HasRoom
    /\ validation' = Set(validation, s, "pending")
    /\ revalidating' = revalidating \cup {s}
    /\ UNCHANGED <<queueVars, scannerOf, endpoint, capabilities, workerVars, issued, history>>

\* ... then enqueues the task.
RevalidateEnqueue(s) ==
    /\ s \in revalidating
    /\ Enqueue(s)
    /\ revalidating' = revalidating \ {s}
    /\ UNCHANGED <<rowVars, workerVars, issued, history>>

\* A gunicorn process dies between the two.
RequestDies(s) ==
    /\ s \in revalidating
    /\ exits < MaxExits
    /\ exits' = exits + 1
    /\ revalidating' = revalidating \ {s}
    /\ dropped' = dropped \cup {s}
    /\ UNCHANGED <<queueVars, scannerOf, rowVars, workerVars, issued>>

-----------------------------------------------------------------------------
(* reconcile_scanner_validations, before the worker's loop.                *)

\* The worker reads the rows that are UNKNOWN: those of before migration 0003.
ReadUnknown ==
    /\ pc = "starting"
    /\ pc' = "reconciling"
    /\ unknowns' = {s \in Scanners : validation[s] = "unknown"}
    /\ UNCHANGED <<queueVars, scannerOf, rowVars, loaded, asked, webVars, history>>

\* The row the loop is at.
Looked == CHOOSE s \in unknowns : TRUE

\* A row with a task is passed over.
SkipQueued ==
    /\ pc = "reconciling"
    /\ unknowns # {}
    /\ Queued(Looked)
    /\ unknowns' = unknowns \ {Looked}
    /\ UNCHANGED <<queueVars, scannerOf, rowVars, pc, loaded, asked, webVars, history>>

\* PENDING is saved; the save of a row deleted meanwhile fails, and with it the worker.
ReconcileSave ==
    /\ pc = "reconciling"
    /\ unknowns # {}
    /\ ~ Queued(Looked)
    /\ IF endpoint[Looked] = 0
       THEN pc' = "starting" /\ unknowns' = {} /\ UNCHANGED validation
       ELSE /\ pc' = "enqueueing"
            /\ validation' = Set(validation, Looked, "pending")
            /\ UNCHANGED unknowns
    /\ UNCHANGED <<queueVars, scannerOf, endpoint, capabilities, loaded, asked, webVars, history>>

\* Fault: the state is saved and the task left to scanner_revalidate.
ReconcilesState ==
    /\ pc = "enqueueing"
    /\ pc' = "reconciling"
    /\ unknowns' = unknowns \ {Looked}
    /\ UNCHANGED <<queueVars, scannerOf, rowVars, loaded, asked, webVars, history>>

\* The task follows; a row deleted since gives one that will not find it.
ReconcileEnqueue ==
    /\ pc = "enqueueing"
    /\ IF endpoint[Looked] = 0 THEN UNCHANGED <<queueVars, scannerOf>> ELSE Enqueue(Looked)
    /\ pc' = "reconciling"
    /\ unknowns' = unknowns \ {Looked}
    /\ UNCHANGED <<rowVars, loaded, asked, webVars, history>>

\* The worker enters its loop.
StartLoop ==
    /\ pc = "reconciling"
    /\ unknowns = {}
    /\ pc' = "idle"
    /\ UNCHANGED <<queueVars, scannerOf, rowVars, unknowns, loaded, asked, webVars, history>>

-----------------------------------------------------------------------------
(* handle_configure_scanner.                                               *)

StartTask(t) ==
    /\ pc = "idle"
    /\ \E w \in Workers : Start(w, t)
    /\ pc' = "begin"
    /\ UNCHANGED <<scannerOf, rowVars, unknowns, loaded, asked, webVars, history>>

Running(t, at) == phase[t] = "executing" /\ pc = at

\* The row of t is still there: a save of a deleted one raises.
Saves(t) == scannerOf[t] # NoScanner

\* The row is read; without one the handler raises before it can save anything.
Load(t) ==
    /\ Running(t, "begin")
    /\ IF Saves(t)
       THEN pc' = "loaded" /\ loaded' = endpoint[scannerOf[t]]
       ELSE pc' = "raise" /\ UNCHANGED loaded
    /\ UNCHANGED <<queueVars, scannerOf, rowVars, unknowns, asked, webVars, history>>

\* What list_scanners can show under a name that contains the name of s: airscan.conf
\* has just been written from the rows as they are now, without the hpaio ones.
Listed(s) ==
    {Endpoint(u) : u \in {u \in Scanners :
        /\ u = s \/ <<s, u>> \in NameWithin
        /\ endpoint[u] \in Versions \ Hpaio}}

\* ScannerDriver.resolve: hpaio takes the address from the row in memory, AirScan the
\* first device listed under the name. (A device that does not answer is not listed.)
Resolved(s) == IF loaded \in Hpaio THEN {[of |-> s, version |-> loaded]} ELSE Listed(s)

\* regenerate_config and resolve_scanner, up to the save of sane_name.
Resolve(t) ==
    /\ Running(t, "loaded")
    /\ Saves(t)
    /\ asked' \in Resolved(scannerOf[t])
    /\ pc' = "asking"
    /\ UNCHANGED <<queueVars, scannerOf, rowVars, unknowns, loaded, webVars, history>>

\* fetch_capabilities: scanimage has answered and the answer is saved.
SaveCapabilities(t) ==
    /\ Running(t, "asking")
    /\ Saves(t)
    /\ capabilities' = Set(capabilities, scannerOf[t], asked)
    /\ pc' = "fetched"
    /\ UNCHANGED <<queueVars, scannerOf, endpoint, validation, unknowns, loaded, asked,
                   webVars, history>>

\* A verdict is saved over whatever the row says by now. (Not kept: sane_name,
\* validation_message and validated_at, which go with it.)
SaveVerdict(t, verdict, next) ==
    /\ validation' = Set(validation, scannerOf[t], verdict)
    /\ pc' = next
    /\ loaded' = 0 /\ asked' = Nothing
    /\ UNCHANGED <<queueVars, scannerOf, endpoint, capabilities, unknowns, webVars, history>>

\* Fault: a validation that had an answer before is saved as a refresh.
SavesRefreshed(t) ==
    /\ Running(t, "fetched")
    /\ Saves(t)
    /\ SaveVerdict(t, "refreshed", "return")

\* READY is saved.
SaveReady(t) ==
    /\ Running(t, "fetched")
    /\ Saves(t)
    /\ SaveVerdict(t, "ready", "return")

\* Fault: an unreachable scanner is reported to the task only.
FailsQuietly(t) ==
    /\ \E at \in {"loaded", "asking"} : Running(t, at)
    /\ Saves(t)
    /\ SaveVerdict(t, validation[scannerOf[t]], "raise")

\* No device, a refusal or a time-out: FAILED is saved and the task is tried again.
SaveFailed(t) ==
    /\ \E at \in {"loaded", "asking"} : Running(t, at)
    /\ Saves(t)
    /\ SaveVerdict(t, "failed", "raise")

\* The row is deleted under the handler: its next save raises, and so does the save of
\* FAILED that would report it.
SaveFindsNoRow(t) ==
    /\ \E at \in {"loaded", "asking", "fetched"} : Running(t, at)
    /\ ~ Saves(t)
    /\ pc' = "raise"
    /\ loaded' = 0 /\ asked' = Nothing
    /\ UNCHANGED <<queueVars, scannerOf, rowVars, unknowns, webVars, history>>

\* process_one after the handler.
EndTask(t) ==
    /\ \/ Running(t, "return") /\ Succeed(t)
       \/ Running(t, "raise") /\ Fail(t)
    /\ pc' = "idle"
    /\ UNCHANGED <<scannerOf, rowVars, unknowns, loaded, asked, webVars, history>>

\* The worker dies, in a handler or at its start, and supervisord starts another.
WorkerDies ==
    /\ pc # "idle"
    /\ exits < MaxExits
    /\ exits' = exits + 1
    /\ \/ \E t \in Tasks : Lose(t)
       \/ (\A t \in Tasks : phase[t] # "executing") /\ UNCHANGED queueVars
    /\ dropped' = IF pc = "enqueueing" THEN dropped \cup {Looked} ELSE dropped
    /\ pc' = "starting"
    /\ unknowns' = {} /\ loaded' = 0 /\ asked' = Nothing
    /\ UNCHANGED <<scannerOf, rowVars, webVars>>

-----------------------------------------------------------------------------
\* A fresh database, or one in which migration 0003 has just added validation_state.
Init ==
    /\ QueueInit
    /\ scannerOf = [t \in Tasks |-> NoScanner]
    /\ endpoint \in [Scanners -> {0, 1}]
    /\ validation = [s \in Scanners |-> IF endpoint[s] = 0 THEN "absent" ELSE "unknown"]
    /\ capabilities = [s \in Scanners |-> Nothing]
    /\ issued = endpoint
    /\ pc = "starting"
    /\ unknowns = {} /\ loaded = 0 /\ asked = Nothing
    /\ revalidating = {}
    /\ exits = 0 /\ dropped = {}

WorkerStarts ==
    ReadUnknown \/ SkipQueued \/ ReconcileSave \/ ReconcileEnqueue \/ StartLoop

HandlerStep(t) ==
    \/ Load(t) \/ Resolve(t) \/ SaveCapabilities(t) \/ SaveReady(t)
    \/ SaveFailed(t) \/ SaveFindsNoRow(t) \/ EndTask(t)

Next ==
    \/ \E s \in Scanners :
        \/ \E v \in Versions : SaveEndpoint(s, v)
        \/ RemoveEndpoint(s) \/ Revalidate(s) \/ RevalidateEnqueue(s) \/ RequestDies(s)
    \/ WorkerStarts
    \/ \E t \in Tasks : StartTask(t) \/ HandlerStep(t)
    \/ WorkerDies

Spec == Init /\ [][Next]_vars

\* supervisord restarts the worker, its loop goes on and handlers end (every call of
\* scanimage has a time-out); a request that saved PENDING goes on or dies.
FairSpec ==
    /\ Spec
    /\ WF_vars(WorkerStarts)
    /\ WF_vars(\E t \in Tasks : StartTask(t))
    /\ WF_vars(\E t \in Tasks : HandlerStep(t))
    /\ \A s \in Scanners : WF_vars(RevalidateEnqueue(s) \/ RequestDies(s))
-----------------------------------------------------------------------------
\* Type invariant: rows, tasks and the worker's memory hold values of their kinds.
TypeOK ==
    /\ scannerOf \in [Tasks -> Scanners \cup {NoScanner}]
    /\ endpoint \in [Scanners -> 0..MaxVersion]
    /\ validation \in [Scanners -> {"absent", "unknown", "pending", "ready", "failed"}]
    /\ capabilities \in [Scanners -> [of : Scanners \cup {NoScanner}, version : 0..MaxVersion]]
    /\ pc \in {"starting", "reconciling", "enqueueing", "idle", "begin", "loaded",
               "asking", "fetched", "return", "raise"}
    /\ unknowns \subseteq Scanners
    /\ loaded \in 0..MaxVersion
    /\ asked \in [of : Scanners \cup {NoScanner}, version : 0..MaxVersion]
    /\ issued \in [Scanners -> 0..MaxVersion]
    /\ exits \in 0..MaxExits
    /\ revalidating \subseteq Scanners /\ dropped \subseteq Scanners

\* Executions of validations of s whose verdict is still to come.
Owed(s) ==
    {t \in TasksOf(s) : \/ phase[t] = "waiting"
                        \/ phase[t] = "executing" /\ pc \notin {"return", "raise"}}

\* A scanner that shows as pending is going to get a verdict, through edits,
\* revalidations, retries and deaths of the worker, unless a request or the worker
\* died between the state and the task.
PendingHasTask ==
    \A s \in Scanners : validation[s] = "pending" =>
        \/ Owed(s) # {}
        \/ s \in revalidating \cup dropped
        \/ pc = "enqueueing" /\ s \in unknowns

\* A validation that was running when the endpoint was edited saves READY over the
\* PENDING of the new one, but it never has the last word: a scanner that is ready with
\* no verdict to come has what its own, present endpoint answered (or, when its name
\* is part of another's, what that one answered).
ReadyIsOfEndpoint ==
    \A s \in Scanners : validation[s] = "ready" /\ Owed(s) = {} =>
        \/ capabilities[s] = Endpoint(s)
        \/ <<s, capabilities[s].of>> \in NameWithin

\* Every scanner gets a verdict: those being validated, those edited meanwhile and
\* those that were there before validation was introduced.
VerdictComes ==
    \A s \in Scanners : validation[s] \in {"unknown", "pending"} ~>
        validation[s] \in {"ready", "failed", "absent"} \/ s \in dropped
=============================================================================
