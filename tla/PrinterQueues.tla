--------------------------- MODULE PrinterQueues ---------------------------
(***************************************************************************)
(* The registered printers and their queues in CUPS: device_create,        *)
(* device_edit and device_delete with _save_endpoints, printer_command in  *)
(* the web processes; handle_configure_printer, handle_refresh_printer,    *)
(* handle_printer_command and handle_delete_printer_queue in the worker,   *)
(* with the calls cups_service makes for them.                             *)
(*                                                                         *)
(* cupsd keeps queues by name, the database keeps printers by device, and  *)
(* nothing but the order of tasks makes the two agree.                     *)
(***************************************************************************)
EXTENDS AtLeastOnceQueue, FiniteSets, Sequences

CONSTANTS
    Devices, NoDevice,     \* Device rows; the row of a task whose printer was deleted
    Queues, NoQueue,       \* queue names
    Requests,              \* what administrators ask of printers
    MaxEdits               \* bound: uses of device_edit

\* One worker, as docker/supervisord.conf starts it.
ASSUME PrintersAssumption ==
    /\ MaxTasks \in Nat /\ MaxEdits \in Nat
    /\ Requests \subseteq {"refresh", "enable", "disable"}
    /\ NoDevice \notin Devices
    /\ NoQueue \notin Queues
    /\ \A v, w \in Workers : v = w

VARIABLES
    job,             \* kind and payload of each task
    device,          \* where each Device row is in its life
    queueOf,         \* PrinterEndpoint.queue_name, NoQueue without an endpoint
    status,          \* Device.status
    shown,           \* PrinterEndpoint.queue_enabled and accepting_jobs
    printed,         \* devices whose printer has PrintJob rows
    editing,         \* device_edit: the row it read, until it saves
    deleting,        \* device_delete: the device between the task and the row
    cups,            \* cupsd: the device each queue prints to, and whether it is open
    pc, held,        \* the handler: where it is and the row it holds in memory
    edits,           \* edits begun so far (bounded by MaxEdits)
    unconfigured,    \* history: devices whose last configuration was given up
    unseen,          \* history: devices a task of which was given up after the last refresh
    begun,           \* history: devices whose deletion was begun
    late,            \* history: queues deleted, late or with a deletion begun, that a printer has
    leaked,          \* history: queues nothing was going to delete
    stopped          \* history: queues cupsd stopped after a task last set or showed their state

rowVars == <<device, queueOf, status, shown, printed>>
requestVars == <<editing, deleting>>
workerVars == <<pc, held>>
history == <<unconfigured, unseen, begun, late, leaked, stopped>>
vars == <<queueVars, job, rowVars, requestVars, cups, workerVars, edits, history>>

TasksOf(d) == {t \in Tasks : job[t].of = d}
NoJob == [kind |-> "delete", of |-> NoDevice, queue |-> NoQueue]
NoRow == [of |-> NoDevice, queue |-> NoQueue]
NoEdit == [of |-> NoDevice, status |-> "unknown"]
NoneInCups == [of |-> NoDevice, open |-> FALSE]
Set(f, x, v) == [f EXCEPT ![x] = v]

Configure(d) == [kind |-> "configure", of |-> d, queue |-> NoQueue]
Ask(kind, d) == [kind |-> kind, of |-> d, queue |-> NoQueue]
Delete(q) == [kind |-> "delete", of |-> NoDevice, queue |-> q]

Commands == {"enable", "disable"}
Free == {t \in Tasks : phase[t] = "absent"}
Live(t) == phase[t] \in {"waiting", "executing"}
FreeQueues == {q \in Queues : \A d \in Devices : queueOf[d] # q}
OwnerOf(q) == IF q \in FreeQueues THEN NoDevice ELSE CHOOSE d \in Devices : queueOf[d] = q
InCups(q) == cups[q].of # NoDevice

\* Task.enqueue of the tasks in list, which a transaction makes visible at once. The
\* tasks in lost are those whose endpoint the same step deletes.
EnqueueAll(list, lost) ==
    LET last == MaxTasks - Cardinality(Free)
        new == (last + 1)..(last + Len(list))
    IN  /\ new \subseteq Tasks
        /\ SubmitAll(new)
        /\ job' = [t \in Tasks |->
                     IF t \in new THEN list[t - last]
                     ELSE IF t \in lost THEN [job[t] EXCEPT !.of = NoDevice] ELSE job[t]]

Enqueue(j) == EnqueueAll(<<j>>, {})

-----------------------------------------------------------------------------
(* The web processes. (A device is created once: its key is new.)          *)

CreateDevice(d, q) ==
    /\ device[d] = "absent"
    /\ q \in FreeQueues
    /\ Enqueue(Configure(d))
    /\ device' = Set(device, d, "present")
    /\ queueOf' = Set(queueOf, d, q)
    /\ UNCHANGED <<status, shown, printed, requestVars, cups, workerVars, edits, history>>

\* print_submit: from now on the rows are protected by the job. (Earlier jobs only forbid
\* the deletion to begin: a job matters when it meets one.)
AddJob(d) ==
    /\ queueOf[d] # NoQueue
    /\ deleting = d
    /\ printed' = printed \cup {d}
    /\ UNCHANGED <<queueVars, job, device, queueOf, status, shown, requestVars, cups, workerVars,
                   edits, history>>

\* printer_command.
Request(d, kind) ==
    /\ queueOf[d] # NoQueue
    /\ Enqueue(Ask(kind, d))
    /\ UNCHANGED <<rowVars, requestVars, cups, workerVars, edits, history>>

\* device_edit reads the row with all its fields (bounds: one edit at a time,
\* MaxEdits in all) ...
EditRead(d) ==
    /\ editing = NoEdit
    /\ edits < MaxEdits
    /\ edits' = edits + 1
    /\ device[d] = "present"
    /\ editing' = [of |-> d, status |-> status[d]]
    /\ UNCHANGED <<queueVars, job, rowVars, deleting, cups, workerVars, history>>

\* ... and saves them all, the status it read included; a row deleted meanwhile is
\* inserted again.
SaveDevice(d) ==
    /\ device' = Set(device, d, "present")
    /\ status' = Set(status, d, editing.status)
    /\ editing' = NoEdit

\* The PrinterEndpoint row of d is deleted: its tasks will not find it.
RemoveEndpoint(d) ==
    /\ queueOf' = Set(queueOf, d, NoQueue)
    /\ shown' = Set(shown, d, TRUE)
    /\ EnqueueAll(<<>>, TasksOf(d))
    /\ unconfigured' = unconfigured \ {d}
    /\ unseen' = unseen \ {d}

\* Fault: the old queue is left to whoever renamed the printer.
RenamesOnly(d, q) ==
    /\ editing.of = d
    /\ q \in FreeQueues \cup {queueOf[d]}
    /\ q # NoQueue
    /\ SaveDevice(d)
    /\ queueOf' = Set(queueOf, d, q)
    /\ Enqueue(Configure(d))
    /\ UNCHANGED <<shown, printed, deleting, cups, workerVars, edits, history>>

\* Fault: only a new endpoint is configured.
ConfiguresNewOnly(d, q) ==
    /\ editing.of = d
    /\ q \in FreeQueues \cup {queueOf[d]}
    /\ q # NoQueue
    /\ SaveDevice(d)
    /\ queueOf' = Set(queueOf, d, q)
    /\ IF queueOf[d] = NoQueue THEN Enqueue(Configure(d)) ELSE UNCHANGED <<queueVars, job>>
    /\ UNCHANGED <<shown, printed, deleting, cups, workerVars, edits, history>>

\* _save_endpoints with a printer: a changed name has the old queue deleted, and the
\* printer is configured in any case.
EditSave(d, q) ==
    /\ editing.of = d
    /\ q \in FreeQueues \cup {queueOf[d]}
    /\ q # NoQueue
    /\ SaveDevice(d)
    /\ queueOf' = Set(queueOf, d, q)
    /\ EnqueueAll(IF queueOf[d] \in {NoQueue, q} THEN <<Configure(d)>>
                  ELSE <<Delete(queueOf[d]), Configure(d)>>, {})
    /\ UNCHANGED <<shown, printed, deleting, cups, workerVars, edits, history>>

\* _save_endpoints without one: the endpoint goes, if no job protects it. Its queue
\* stays in CUPS, and nothing is going to delete it.
EditRemoves(d) ==
    /\ editing.of = d
    /\ d \notin printed
    /\ SaveDevice(d)
    /\ RemoveEndpoint(d)
    /\ leaked' = leaked \cup ({queueOf[d]} \ {NoQueue})
    /\ UNCHANGED <<printed, deleting, cups, workerVars, edits, begun, late, stopped>>

\* The form is refused, the save raises (a protected endpoint) or the process dies: the
\* transaction leaves nothing.
EditEnds ==
    /\ editing # NoEdit
    /\ editing' = NoEdit
    /\ UNCHANGED <<queueVars, job, rowVars, deleting, cups, workerVars, edits, history>>

\* device_delete of a device without jobs (with jobs it only hides the device): the
\* deletion of its queue is enqueued (bound: one deletion in all) ...
DeleteEnqueue(d) ==
    /\ begun = {}
    /\ device[d] = "present"
    /\ d \notin printed
    /\ IF queueOf[d] = NoQueue THEN UNCHANGED <<queueVars, job>> ELSE Enqueue(Delete(queueOf[d]))
    /\ deleting' = d
    /\ begun' = begun \cup {d}
    /\ UNCHANGED <<rowVars, editing, cups, workerVars, edits, unconfigured, unseen, late,
                   leaked, stopped>>

\* ... then the row is deleted with its endpoint, unless a job was submitted since, which
\* makes device.delete() raise. (regenerate_scanners, enqueued last, is no matter of CUPS.)
DeleteRow ==
    LET d == deleting IN
    /\ d # NoDevice
    /\ deleting' = NoDevice
    /\ IF d \in printed
       THEN UNCHANGED <<queueVars, job, rowVars, unconfigured, unseen>>
       ELSE /\ device' = Set(device, d, "deleted")
            /\ RemoveEndpoint(d)
            /\ status' = Set(status, d, "unknown")
    /\ UNCHANGED <<printed, editing, cups, workerVars, edits, begun, late, leaked,
                   stopped>>

\* The process dies between the two.
DeleteDies ==
    /\ deleting # NoDevice
    /\ deleting' = NoDevice
    /\ UNCHANGED <<queueVars, job, rowVars, editing, cups, workerVars, edits, history>>

-----------------------------------------------------------------------------
(* The worker.                                                             *)

StartTask(t) ==
    /\ \E w \in Workers : Start(w, t)
    /\ pc' = "begin"
    /\ UNCHANGED <<job, rowVars, requestVars, cups, held, edits, history>>

Running(t, kinds, at) == phase[t] = "executing" /\ job[t].kind \in kinds /\ pc = at

\* The endpoint's row is still there: a save of a deleted one raises.
Saves(t) == job[t].of # NoDevice

\* The handlers of a printer read its row; without one they raise.
Load(t) ==
    /\ Running(t, {"configure", "refresh"} \cup Commands, "begin")
    /\ IF Saves(t)
       THEN /\ held' = [of |-> job[t].of, queue |-> queueOf[job[t].of]]
            /\ pc' = IF job[t].kind = "refresh" THEN "refreshing" ELSE "loaded"
       ELSE pc' = "raise" /\ UNCHANGED held
    /\ UNCHANGED <<queueVars, job, rowVars, requestVars, cups, edits, history>>

\* ensure_queue: addPrinter creates the queue, closed, or gives the one of that name the
\* device of the row in memory.
AddQueue(t) ==
    /\ Running(t, {"configure"}, "loaded")
    /\ cups' = [cups EXCEPT ![held.queue].of = held.of]
    /\ pc' = "added"
    /\ unconfigured' = unconfigured \ {held.of}
    /\ late' = late \ {held.queue}
    /\ leaked' = IF held.of \in begun THEN leaked \cup {held.queue} ELSE leaked
    /\ UNCHANGED <<queueVars, job, rowVars, requestVars, held, edits, unseen, begun, stopped>>

\* enablePrinter and acceptJobs.
OpenQueue(t) ==
    /\ Running(t, {"configure"}, "added")
    /\ cups' = [cups EXCEPT ![held.queue].open = TRUE]
    /\ pc' = "refreshing"
    /\ stopped' = stopped \ {held.queue}
    /\ UNCHANGED <<queueVars, job, rowVars, requestVars, held, edits, unconfigured, unseen, begun,
                   late, leaked>>

\* Fault: set_queue_state leaves the refresh to the user.
CommandsOnly(t) ==
    /\ Running(t, Commands, "loaded")
    /\ InCups(held.queue)
    /\ cups' = [cups EXCEPT ![held.queue].open = job[t].kind = "enable"]
    /\ pc' = "return"
    /\ stopped' = stopped \ {held.queue}
    /\ UNCHANGED <<queueVars, job, rowVars, requestVars, held, edits, unconfigured, unseen, begun,
                   late, leaked>>

\* set_queue_state (enable stands for accept and disable for reject).
Command(t) ==
    /\ Running(t, Commands, "loaded")
    /\ InCups(held.queue)
    /\ cups' = [cups EXCEPT ![held.queue].open = job[t].kind = "enable"]
    /\ pc' = "refreshing"
    /\ stopped' = stopped \ {held.queue}
    /\ UNCHANGED <<queueVars, job, rowVars, requestVars, held, edits, unconfigured, unseen, begun,
                   late, leaked>>

\* Fault: a closed queue is a warning.
RefreshesWithWarning(t) ==
    /\ phase[t] = "executing" /\ pc = "refreshing"
    /\ InCups(held.queue)
    /\ Saves(t)
    /\ shown' = Set(shown, held.of, cups[held.queue].open)
    /\ status' = Set(status, held.of, IF cups[held.queue].open THEN "online" ELSE "warning")
    /\ pc' = "return"
    /\ unseen' = unseen \ {held.of}
    /\ stopped' = stopped \ {held.queue}
    /\ UNCHANGED <<queueVars, job, device, queueOf, printed, requestVars, cups, held, edits,
                   unconfigured, begun, late, leaked>>

\* refresh_printer: what CUPS says of the queue is saved and the device is online.
Refreshed(t) ==
    /\ phase[t] = "executing" /\ pc = "refreshing"
    /\ InCups(held.queue)
    /\ Saves(t)
    /\ shown' = Set(shown, held.of, cups[held.queue].open)
    /\ status' = Set(status, held.of, "online")
    /\ pc' = "return"
    /\ unseen' = unseen \ {held.of}
    /\ stopped' = stopped \ {held.queue}
    /\ UNCHANGED <<queueVars, job, device, queueOf, printed, requestVars, cups, held, edits,
                   unconfigured, begun, late, leaked>>

\* A call to CUPS raises, or the save of a row that was deleted: configure and refresh
\* go on to report the device offline, a command just raises.
CallFails(t) ==
    /\ phase[t] = "executing"
    /\ pc \in {"loaded", "added", "refreshing"}
    /\ pc' = IF job[t].kind \in Commands THEN "raise" ELSE "offline"
    /\ UNCHANGED <<queueVars, job, rowVars, requestVars, cups, held, edits, history>>

\* The device, if it is still there, is saved as offline.
SaveOffline(t) ==
    /\ phase[t] = "executing" /\ pc = "offline"
    /\ status' = IF device[held.of] = "present" THEN Set(status, held.of, "offline") ELSE status
    /\ pc' = "raise"
    /\ UNCHANGED <<queueVars, job, device, queueOf, shown, printed, requestVars, cups, held,
                   edits, history>>

\* handle_delete_printer_queue: a queue that is not there is as good as deleted.
DeleteQueue(t) ==
    /\ Running(t, {"delete"}, "begin")
    /\ LET q == job[t].queue IN
        /\ cups' = Set(cups, q, NoneInCups)
        /\ leaked' = leaked \ {q}
        /\ stopped' = stopped \ {q}
        /\ late' = IF \E d \in Devices : queueOf[d] = q /\ (tries[t] > 1 \/ d \in begun)
                   THEN late \cup {q} ELSE late
    /\ pc' = "return"
    /\ UNCHANGED <<queueVars, job, rowVars, requestVars, held, edits, unconfigured, unseen, begun>>

DeleteFails(t) ==
    /\ Running(t, {"delete"}, "begin")
    /\ pc' = "raise"
    /\ UNCHANGED <<queueVars, job, rowVars, requestVars, cups, held, edits, history>>

\* process_one after the handler. (The payload of an ended task is not kept.)
EndTask(t) ==
    /\ pc \in {"return", "raise"}
    /\ IF pc = "return" THEN Succeed(t) ELSE Fail(t)
    /\ pc' = "idle"
    /\ held' = NoRow
    /\ LET givenUp == phase'[t] = "failed" IN
        /\ unconfigured' = IF givenUp /\ job[t].kind = "configure"
                           THEN unconfigured \cup ({job[t].of} \ {NoDevice}) ELSE unconfigured
        /\ unseen' = IF givenUp THEN unseen \cup ({job[t].of} \ {NoDevice}) ELSE unseen
        /\ leaked' = IF givenUp THEN leaked \cup ({job[t].queue} \ {NoQueue}) ELSE leaked
    /\ job' = IF phase'[t] = "waiting" THEN job ELSE Set(job, t, NoJob)
    /\ UNCHANGED <<rowVars, requestVars, cups, edits, begun, late, stopped>>

\* The worker dies (bound: once for each task, in its first execution).
WorkerDies(t) ==
    /\ tries[t] = 1
    /\ Lose(t)
    /\ pc' = "idle"
    /\ held' = NoRow
    /\ UNCHANGED <<job, rowVars, requestVars, cups, edits, history>>

-----------------------------------------------------------------------------
\* cupsd stops a queue when its backend fails (docker/cupsd.conf sets no ErrorPolicy: the
\* default is stop-printer). Nobody is told: a task has to open the queue again, and only a
\* refresh shows it.
CupsStops(q) ==
    /\ cups[q].open
    /\ cups' = [cups EXCEPT ![q].open = FALSE]
    /\ stopped' = stopped \cup {q}
    /\ UNCHANGED <<queueVars, job, rowVars, requestVars, workerVars, edits, unconfigured, unseen,
                   begun, late, leaked>>

-----------------------------------------------------------------------------
\* An installation with some printers registered, configured and online.
Init ==
    /\ QueueInit
    /\ job = [t \in Tasks |-> NoJob]
    /\ queueOf \in [Devices -> Queues \cup {NoQueue}]
    /\ \A c, d \in Devices : c # d /\ queueOf[c] # NoQueue => queueOf[c] # queueOf[d]
    /\ LET known == {d \in Devices : queueOf[d] # NoQueue} IN
        /\ device = [d \in Devices |-> IF d \in known THEN "present" ELSE "absent"]
        /\ status = [d \in Devices |-> IF d \in known THEN "online" ELSE "unknown"]
        /\ cups = [q \in Queues |-> [of |-> OwnerOf(q), open |-> OwnerOf(q) \in known]]
    /\ shown = [d \in Devices |-> TRUE]
    /\ printed = {}
    /\ editing = NoEdit /\ deleting = NoDevice
    /\ pc = "idle" /\ held = NoRow
    /\ edits = 0
    /\ unconfigured = {} /\ unseen = {} /\ begun = {} /\ late = {} /\ leaked = {}
    /\ stopped = {}

HandlerStep(t) ==
    \/ Load(t) \/ AddQueue(t) \/ OpenQueue(t) \/ Command(t) \/ Refreshed(t) \/ CallFails(t)
    \/ SaveOffline(t) \/ DeleteQueue(t) \/ DeleteFails(t) \/ EndTask(t)

Next ==
    \/ \E d \in Devices :
        \/ \E q \in Queues : CreateDevice(d, q) \/ EditSave(d, q)
        \/ \E kind \in Requests : Request(d, kind)
        \/ AddJob(d) \/ EditRead(d) \/ EditRemoves(d) \/ DeleteEnqueue(d)
    \/ EditEnds \/ DeleteRow \/ DeleteDies
    \/ \E t \in Tasks : StartTask(t) \/ HandlerStep(t) \/ WorkerDies(t)
    \/ \E q \in Queues : CupsStops(q)

Spec == Init /\ [][Next]_vars
-----------------------------------------------------------------------------
\* Type invariant: rows, tasks, requests and queues hold values of their kinds.
TypeOK ==
    /\ job \in [Tasks -> [kind : {"configure", "refresh", "delete"} \cup Commands,
                          of : Devices \cup {NoDevice}, queue : Queues \cup {NoQueue}]]
    /\ device \in [Devices -> {"absent", "present", "deleted"}]
    /\ queueOf \in [Devices -> Queues \cup {NoQueue}]
    /\ status \in [Devices -> {"unknown", "online", "offline"}]
    /\ shown \in [Devices -> BOOLEAN]
    /\ editing \in [of : Devices \cup {NoDevice}, status : {"unknown", "online", "offline"}]
    /\ deleting \in Devices \cup {NoDevice}
    /\ cups \in [Queues -> [of : Devices \cup {NoDevice}, open : BOOLEAN]]
    /\ pc \in {"idle", "begin", "loaded", "added", "refreshing", "offline", "return", "raise"}
    /\ held \in [of : Devices \cup {NoDevice}, queue : Queues \cup {NoQueue}]
    /\ edits \in 0..MaxEdits
    /\ printed \cup unconfigured \cup unseen \cup begun \subseteq Devices
    /\ late \cup leaked \cup stopped \subseteq Queues

\* A task of one of the kinds still has work to do for d.
ToCome(d, kinds) == \E t \in TasksOf(d) : Live(t) /\ job[t].kind \in kinds

\* A printer that shows as online, with no configuration to come, has its queue in CUPS
\* and that queue prints to it.
OnlineIsServed ==
    \A d \in Devices : LET q == queueOf[d] IN
        q # NoQueue /\ status[d] = "online" /\ ~ ToCome(d, {"configure"}) =>
            \/ cups[q].of = d
            \/ ~ InCups(q) /\ q \in late
            \/ InCups(q) /\ d \in unconfigured

\* Every queue in CUPS is that of a registered printer, or a task is going to delete it.
NoOrphanQueue ==
    \A q \in Queues \ leaked : InCups(q) =>
        \/ q \notin FreeQueues
        \/ \E t \in Tasks : Live(t) /\ job[t] = Delete(q)

\* The row of d shows of q what CUPS has, or shows a queue as open that cupsd has stopped
\* after a task last opened, closed or showed it.
ShownFits(d, q) ==
    \/ shown[d] = cups[q].open
    \/ q \in stopped /\ shown[d] /\ ~ cups[q].open

\* Once the tasks of a printer are done, its row shows whether its queue is open as the last
\* of them left it: only a stop of cupsd's own, which nobody is told of, makes it differ from
\* what CUPS has, and then only towards open.
ShownIsCups ==
    \A d \in Devices : LET q == queueOf[d] IN
        /\ q # NoQueue /\ cups[q].of = d
        /\ ~ ToCome(d, {"configure", "refresh"} \cup Commands)
        /\ d \notin unseen
        => ShownFits(d, q)
=============================================================================
