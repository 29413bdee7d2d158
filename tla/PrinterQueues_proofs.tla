------------------------ MODULE PrinterQueues_proofs ------------------------
(***************************************************************************)
(* The invariants of PrinterQueues.tla for any number of devices, queues,  *)
(* tasks and edits: what the order of the tasks guarantees of a database   *)
(* and a cupsd that share no transaction. One worker is assumed, as        *)
(* PrintersAssumption says.                                                *)
(***************************************************************************)
EXTENDS PrinterQueues, AtLeastOnceQueue_proofs, FiniteSetTheorems

Handles(t) == phase[t] = "executing"

\* A configuration of d has yet to begin (again).
Waits(d) == \E t \in TasksOf(d) : phase[t] = "waiting" /\ job[t].kind = "configure"

\* The queue q is going to be deleted.
Doomed(q) == \E t \in Tasks : Live(t) /\ job[t] = Delete(q)

\* Rows are numbered in the order in which they appear.
InRank == \E n \in 0..MaxTasks : \A t \in Tasks : phase[t] = "absent" <=> t > n

\* What a task or an endpoint refers to is there, and the names of queues are unique.
RowsFit ==
    /\ \A d \in Devices : queueOf[d] # NoQueue => device[d] = "present"
    /\ \A t \in Tasks : job[t].of # NoDevice => queueOf[job[t].of] # NoQueue
    /\ \A t \in Tasks : Live(t) /\ job[t].kind = "delete"
                        => job[t].queue \in Queues /\ job[t] = Delete(job[t].queue)
    /\ \A c, d \in Devices : c # d /\ queueOf[c] # NoQueue => queueOf[c] # queueOf[d]
    /\ deleting # NoDevice => deleting \in begun

\* A handler that returned did what its task is for.
HandlersFit ==
    \A t \in Tasks : Handles(t) =>
        /\ job[t].kind = "delete" =>
             /\ pc \in {"begin", "return", "raise"}
             /\ pc = "return" => ~ InCups(job[t].queue)
        /\ pc = "raise" /\ job[t].kind = "configure" /\ job[t].of # NoDevice
             => status[job[t].of] # "online" \/ Waits(job[t].of)

\* The row a handler holds is the row of its task, or the printer is going to be configured
\* again; the name it holds is nobody else's, or its new owner is going to be.
Holds(t) ==
    Handles(t) /\ job[t].kind # "delete"
    /\ pc \in {"loaded", "added", "refreshing", "offline", "return"}
HeldAs(t, h, q) ==
    /\ job[t].of \in {h, NoDevice}
    /\ \/ queueOf[h] = NoQueue
       \/ Waits(h)
       \/ /\ job[t].of = h /\ queueOf[h] = q
          /\ pc = "return" => ShownFits(h, q)
    /\ \A d \in Devices \ {h} : queueOf[d] = q => Waits(d)
    /\ job[t].kind = "configure" =>
         /\ pc \in {"added", "refreshing", "return"} => cups[q].of = h
         /\ pc = "loaded" => h \in begun \/ q \in leaked \/ queueOf[h] = q \/ Doomed(q)
HeldFits ==
    \A t \in Tasks : Holds(t) =>
        held.of \in Devices /\ held.queue \in Queues /\ HeldAs(t, held.of, held.queue)

\* The queue of a printer that is being deleted is not left behind.
DeletingFits ==
    deleting # NoDevice =>
        LET q == queueOf[deleting] IN
        q # NoQueue /\ q \notin leaked /\ InCups(q) => Doomed(q)

\* Whoever took the name of a queue whose deletion has not been tried yet is configured
\* after that deletion.
Untried(t) == (phase[t] = "waiting" /\ tries[t] = 0) \/ (Handles(t) /\ tries[t] = 1)
Follows(t, d) ==
    \E u \in TasksOf(d) :
        u > t /\ phase[u] = "waiting" /\ tries[u] = 0 /\ job[u].kind = "configure"
DeletionsFirst ==
    \A t \in Tasks, d \in Devices :
        /\ queueOf[d] # NoQueue /\ d \notin begun
        /\ job[t].kind = "delete" /\ job[t].queue = queueOf[d] /\ Untried(t)
        => Follows(t, d)

\* OnlineIsServed for printers that are not online too: the next refresh may find them so.
Served ==
    \A d \in Devices : LET q == queueOf[d] IN
        q # NoQueue /\ ~ ToCome(d, {"configure"}) =>
            \/ cups[q].of = d
            \/ ~ InCups(q) /\ q \in late
            \/ d \in unconfigured /\ (InCups(q) \/ status[d] # "online")

IInv ==
    /\ QueueOK /\ TypeOK /\ InRank /\ RowsFit /\ HandlersFit /\ HeldFits
    /\ DeletingFits /\ DeletionsFirst /\ Served
    /\ NoOrphanQueue /\ ShownIsCups
-----------------------------------------------------------------------------
(* Enqueueing.                                                             *)

Jobs == [kind : {"configure", "refresh", "delete"} \cup Commands,
         of : Devices \cup {NoDevice}, queue : Queues \cup {NoQueue}]

\* The endpoint of a task was deleted.
Lost(j) == [kind |-> j.kind, of |-> NoDevice, queue |-> j.queue]

LEMMA JobsAre ==
    /\ \A d \in Devices : Configure(d) \in Jobs
    /\ \A d \in Devices, kind \in Requests : Ask(kind, d) \in Jobs
    /\ \A q \in Queues : Delete(q) \in Jobs
    /\ NoJob \in Jobs
    /\ \A j \in Jobs : Lost(j) \in Jobs
BY PrintersAssumption DEF Jobs, Configure, Ask, Delete, NoJob, Lost, Commands

LEMMA LostIs ==
    ASSUME NEW j \in Jobs, NEW l, l = [j EXCEPT !.of = NoDevice]
    PROVE  l = Lost(j)
BY DEF Jobs, Lost

\* Rows that appear are the next ones.
LEMMA NextRow ==
    ASSUME InRank
    PROVE  MaxTasks - Cardinality(Free) \in 0..MaxTasks
           /\ \A t \in Tasks : phase[t] = "absent" <=> t > MaxTasks - Cardinality(Free)
<1> PICK n \in 0..MaxTasks : \A t \in Tasks : phase[t] = "absent" <=> t > n
  BY DEF InRank
<1>1. MaxTasks \in Nat /\ n \in Nat /\ n <= MaxTasks
  BY PrintersAssumption
<1>2. Free = (n + 1)..MaxTasks
  BY <1>1 DEF Free, Tasks
<1>3. Cardinality(Free) = MaxTasks - n
  <2> PICK a \in Int : a = n + 1
    BY <1>1
  <2>1. Cardinality(a..MaxTasks) = IF a > MaxTasks THEN 0 ELSE MaxTasks - a + 1
    BY <1>1, FS_Interval
  <2> QED BY <1>1, <1>2, <2>1
<1> QED BY <1>1, <1>3

\* n rows were there before.
Enqueued(n, list, lost) ==
    /\ (n + 1)..(n + Len(list)) \subseteq Tasks
    /\ \A t \in Tasks : phase[t] = "absent" <=> t > n
    /\ \A t \in (n + 1)..(n + Len(list)) : phase'[t] = "waiting" /\ job'[t] = list[t - n]
    /\ \A t \in Tasks \ ((n + 1)..(n + Len(list))) :
         phase'[t] = phase[t] /\ job'[t] = IF t \in lost THEN Lost(job[t]) ELSE job[t]

LEMMA EnqueueAllAdds ==
    ASSUME QueueOK, InRank, job \in [Tasks -> Jobs],
           NEW list, Len(list) \in Nat, \A i \in 1..Len(list) : list[i] \in Jobs,
           NEW lost, EnqueueAll(list, lost)
    PROVE  /\ QueueOK' /\ InRank' /\ job' \in [Tasks -> Jobs] /\ tries' = tries
           /\ \E n \in 0..MaxTasks : Enqueued(n, list, lost)
<1> PICK n \in 0..MaxTasks : /\ n = MaxTasks - Cardinality(Free)
                             /\ \A t \in Tasks : phase[t] = "absent" <=> t > n
  BY NextRow
<1> DEFINE new == (n + 1)..(n + Len(list))
<1>1. MaxTasks \in Nat /\ n \in Nat
  BY PrintersAssumption
<1>2. /\ new \subseteq Tasks
      /\ phase' = [t \in Tasks |-> IF t \in new THEN "waiting" ELSE phase[t]]
      /\ \E k \in RetryLimits : limit' = [t \in Tasks |-> IF t \in new THEN k ELSE limit[t]]
      /\ job' = [t \in Tasks |-> IF t \in new THEN list[t - n]
                                 ELSE IF t \in lost THEN [job[t] EXCEPT !.of = NoDevice]
                                 ELSE job[t]]
      /\ UNCHANGED <<executor, tries>>
  BY DEF EnqueueAll, SubmitAll
<1>3. \A t \in new : phase[t] = "absent" /\ list[t - n] \in Jobs
  BY <1>1, <1>2
<1>4. ASSUME NEW t \in Tasks \ new
      PROVE  job'[t] = (IF t \in lost THEN Lost(job[t]) ELSE job[t]) /\ job'[t] \in Jobs
  BY <1>2, LostIs, JobsAre
<1>5. QueueOK'
  BY <1>2, <1>3 DEF QueueOK, QueueTypeOK, OneTaskEach, StartedOnce, Unsubmitted, Phases
<1>6. InRank'
  <2> PICK m \in 0..MaxTasks : m = n + Len(list) \/ (Len(list) = 0 /\ m = n)
    <3>1. CASE Len(list) = 0
      BY <3>1
    <3>2. CASE Len(list) # 0
      <4>1. n + Len(list) \in new
        BY <1>1, <3>2
      <4> QED BY <1>1, <1>2, <4>1 DEF Tasks
    <3> QED BY <3>1, <3>2
  <2>1. \A t \in Tasks : phase'[t] = "absent" <=> t > m
    BY <1>1, <1>2 DEF Tasks
  <2> QED BY <2>1 DEF InRank
<1>7. job' \in [Tasks -> Jobs]
  <2> SUFFICES ASSUME NEW t \in Tasks PROVE job'[t] \in Jobs
    BY <1>2
  <2> QED BY <1>2, <1>3, <1>4
<1>8. Enqueued(n, list, lost)
  BY <1>2, <1>4 DEF Enqueued
<1> QED BY <1>2, <1>5, <1>6, <1>7, <1>8

\* The requests enqueue one task, two, or none.
QueueFits == QueueOK /\ InRank /\ job \in [Tasks -> Jobs]

Adds(u, j) == u \in Tasks /\ phase[u] = "absent" /\ phase'[u] = "waiting" /\ job'[u] = j
Keeps(t) == phase'[t] = phase[t] /\ job'[t] = job[t]
IsLast(u) == \A t \in Tasks : phase'[t] # "absent" => t <= u

LEMMA EnqueueOne ==
    ASSUME QueueFits, NEW j \in Jobs, Enqueue(j)
    PROVE  /\ QueueFits' /\ tries' = tries
           /\ \E u \in Tasks : Adds(u, j) /\ IsLast(u) /\ \A t \in Tasks \ {u} : Keeps(t)
<1> PICK list : list = <<j>>
  OBVIOUS
<1>1. Len(list) = 1 /\ \A i \in 1..Len(list) : list[i] \in Jobs
  OBVIOUS
<1>2. EnqueueAll(list, {})
  BY DEF Enqueue
<1>3. QueueFits' /\ tries' = tries
  BY <1>1, <1>2, EnqueueAllAdds DEF QueueFits
<1> PICK n \in 0..MaxTasks : Enqueued(n, list, {})
  BY <1>1, <1>2, EnqueueAllAdds DEF QueueFits
<1> PICK u \in Tasks : u = n + 1
  BY <1>1 DEF Enqueued
<1>4. Adds(u, j) /\ IsLast(u) /\ \A t \in Tasks \ {u} : Keeps(t)
  BY <1>1 DEF Adds, IsLast, Keeps, Tasks, Enqueued
<1> QED BY <1>3, <1>4

LEMMA EnqueueTwo ==
    ASSUME QueueFits, NEW i \in Jobs, NEW j \in Jobs, EnqueueAll(<<i, j>>, {})
    PROVE  /\ QueueFits' /\ tries' = tries
           /\ \E t, u \in Tasks : /\ Adds(t, i) /\ Adds(u, j) /\ IsLast(u)
                                  /\ \A v \in Tasks \ {t, u} : Keeps(v)
<1> PICK list : list = <<i, j>>
  OBVIOUS
<1>1. Len(list) = 2 /\ \A k \in 1..Len(list) : list[k] \in Jobs
  OBVIOUS
<1>2. EnqueueAll(list, {})
  OBVIOUS
<1>3. QueueFits' /\ tries' = tries
  BY <1>1, <1>2, EnqueueAllAdds DEF QueueFits
<1> PICK n \in 0..MaxTasks : Enqueued(n, list, {})
  BY <1>1, <1>2, EnqueueAllAdds DEF QueueFits
<1> PICK t \in Tasks, u \in Tasks : t = n + 1 /\ u = n + 2
  BY <1>1 DEF Enqueued
<1>4. Adds(t, i) /\ Adds(u, j) /\ IsLast(u) /\ \A v \in Tasks \ {t, u} : Keeps(v)
  BY <1>1 DEF Adds, IsLast, Keeps, Tasks, Enqueued
<1> QED BY <1>3, <1>4

LEMMA EnqueueNone ==
    ASSUME QueueFits, NEW lost, EnqueueAll(<<>>, lost)
    PROVE  /\ QueueFits' /\ tries' = tries /\ phase' = phase
           /\ \A t \in Tasks : job'[t] = IF t \in lost THEN Lost(job[t]) ELSE job[t]
<1> PICK list : list = <<>>
  OBVIOUS
<1>1. Len(list) = 0 /\ \A k \in 1..Len(list) : list[k] \in Jobs
  OBVIOUS
<1>2. EnqueueAll(list, lost)
  OBVIOUS
<1>3. QueueFits' /\ tries' = tries
  BY <1>1, <1>2, EnqueueAllAdds DEF QueueFits
<1>4. \A t \in Tasks :
        phase'[t] = phase[t] /\ job'[t] = IF t \in lost THEN Lost(job[t]) ELSE job[t]
  <2> PICK n \in 0..MaxTasks : Enqueued(n, list, lost)
    BY <1>1, <1>2, EnqueueAllAdds DEF QueueFits
  <2> QED BY <1>1 DEF Enqueued
<1>5. phase' = phase
  BY <1>3, <1>4 DEF QueueFits, QueueOK, QueueTypeOK
<1> QED BY <1>3, <1>4, <1>5

-----------------------------------------------------------------------------
(* What the web processes do, whichever handler it is.                     *)

GetsDoomed(q) ==
    \E t \in Tasks : phase'[t] \in {"waiting", "executing"} /\ job'[t] = Delete(q)

\* Nothing changes for the printer e, ...
Same(e) ==
    /\ UNCHANGED <<queueOf[e], shown[e], status[e]>>
    /\ e \in unconfigured' <=> e \in unconfigured
    /\ e \in unseen' <=> e \in unseen

\* ... its endpoint goes ...
Gone(d) ==
    /\ queueOf'[d] = NoQueue
    /\ \A t \in Tasks : job'[t].of # d
    /\ queueOf[d] \in leaked' \cup {NoQueue} \/ deleting = d

\* ... or it is going to be configured, under a name of its own.
Asked(d) ==
    /\ queueOf'[d] \in (FreeQueues \cup {queueOf[d]}) \ {NoQueue}
    /\ queueOf[d] \in {NoQueue, queueOf'[d]} \/ GetsDoomed(queueOf[d])
    /\ \E u \in Tasks : Adds(u, Configure(d)) /\ IsLast(u)

NewTask(d, t) ==
    /\ phase[t] = "absent" /\ phase'[t] = "waiting"
    /\ \/ job'[t].of = d /\ job'[t].kind # "delete" /\ queueOf'[d] # NoQueue
       \/ /\ queueOf[d] # NoQueue /\ job'[t] = Delete(queueOf[d])
          /\ d \in begun' \/ queueOf'[d] # queueOf[d]

OldTask(d, t) ==
    /\ phase'[t] = phase[t]
    /\ job'[t] = job[t] \/ (job[t].of = d /\ queueOf'[d] = NoQueue /\ job'[t] = Lost(job[t]))

WebStep(d) ==
    /\ UNCHANGED <<tries, cups, pc, held, late, stopped>>
    /\ begun \subseteq begun' /\ leaked \subseteq leaked'
    /\ \A t \in Tasks : OldTask(d, t) \/ NewTask(d, t)
    /\ \A e \in Devices : queueOf'[e] # NoQueue => device'[e] = "present"
    /\ \A e \in Devices \ {d} : Same(e)
    /\ Same(d) \/ Gone(d) \/ Asked(d)
    /\ \/ deleting' \in {deleting, NoDevice}
       \/ /\ deleting' = d /\ d \in begun' /\ queueOf'[d] = queueOf[d]
          /\ queueOf[d] = NoQueue \/ GetsDoomed(queueOf[d])

\* What concerns none of the invariants: a row read, a form refused, a job.
Quiet ==
    UNCHANGED <<queueVars, job, device, queueOf, status, shown, deleting, cups, workerVars, history>>

RowTypes ==
    /\ queueOf \in [Devices -> Queues \cup {NoQueue}]
    /\ device \in [Devices -> {"absent", "present", "deleted"}]
    /\ status \in [Devices -> {"unknown", "online", "offline"}]
    /\ shown \in [Devices -> BOOLEAN]
    /\ deleting \in Devices \cup {NoDevice}
    /\ NoQueue \notin Queues /\ NoDevice \notin Devices

LEMMA IInvGives == IInv => QueueFits /\ RowTypes /\ RowsFit
BY PrintersAssumption DEF IInv, TypeOK, QueueFits, RowTypes, Jobs

LEMMA CreateDeviceStep ==
    ASSUME IInv, NEW d \in Devices, NEW q \in Queues, CreateDevice(d, q)
    PROVE  WebStep(d) /\ QueueFits'
<1> USE IInvGives
<1>1. /\ device[d] = "absent" /\ q \in FreeQueues /\ Enqueue(Configure(d))
      /\ device' = [device EXCEPT ![d] = "present"]
      /\ queueOf' = [queueOf EXCEPT ![d] = q]
      /\ UNCHANGED <<status, shown, deleting, cups, pc, held>>
      /\ UNCHANGED <<unconfigured, unseen, begun, late, leaked, stopped>>
  BY DEF CreateDevice, Set, requestVars, workerVars, history
<1>2. QueueFits' /\ tries' = tries
  BY <1>1, JobsAre, EnqueueOne
<1> PICK u \in Tasks :
      Adds(u, Configure(d)) /\ IsLast(u) /\ \A t \in Tasks \ {u} : Keeps(t)
  BY <1>1, JobsAre, EnqueueOne
<1>3. queueOf[d] = NoQueue /\ queueOf'[d] = q /\ q # NoQueue
  BY <1>1 DEF RowTypes, RowsFit
<1>4. Asked(d)
  BY <1>1, <1>3 DEF Asked
<1>5. \A e \in Devices \ {d} : Same(e)
  BY <1>1 DEF Same, RowTypes
<1>6. \A e \in Devices : queueOf'[e] # NoQueue => device'[e] = "present"
  BY <1>1 DEF RowTypes, RowsFit
<1>7. NewTask(d, u) /\ \A t \in Tasks \ {u} : OldTask(d, t)
  BY <1>3 DEF NewTask, OldTask, Adds, Keeps, Configure
<1> QED BY <1>1, <1>2, <1>4, <1>5, <1>6, <1>7 DEF WebStep

LEMMA RequestStep ==
    ASSUME IInv, NEW d \in Devices, NEW kind \in Requests, Request(d, kind)
    PROVE  WebStep(d) /\ QueueFits'
<1> USE IInvGives
<1>1. /\ queueOf[d] # NoQueue /\ Enqueue(Ask(kind, d)) /\ kind # "delete"
      /\ UNCHANGED <<device, queueOf, status, shown, deleting, cups, pc, held>>
      /\ UNCHANGED <<unconfigured, unseen, begun, late, leaked, stopped>>
  BY PrintersAssumption DEF Request, rowVars, requestVars, workerVars, history
<1>2. QueueFits' /\ tries' = tries
  BY <1>1, JobsAre, EnqueueOne
<1> PICK u \in Tasks :
      Adds(u, Ask(kind, d)) /\ IsLast(u) /\ \A t \in Tasks \ {u} : Keeps(t)
  BY <1>1, JobsAre, EnqueueOne
<1>3. \A e \in Devices : Same(e)
  BY <1>1 DEF Same
<1>4. \A e \in Devices : queueOf'[e] # NoQueue => device'[e] = "present"
  BY <1>1 DEF RowsFit
<1>5. NewTask(d, u) /\ \A t \in Tasks \ {u} : OldTask(d, t)
  BY <1>1 DEF NewTask, OldTask, Adds, Keeps, Ask
<1> QED BY <1>1, <1>2, <1>3, <1>4, <1>5 DEF WebStep

LEMMA EditSaveStep ==
    ASSUME IInv, NEW d \in Devices, NEW q \in Queues, EditSave(d, q)
    PROVE  WebStep(d) /\ QueueFits'
<1> USE IInvGives
<1>1. /\ q \in (FreeQueues \cup {queueOf[d]}) \ {NoQueue}
      /\ device' = [device EXCEPT ![d] = "present"]
      /\ queueOf' = [queueOf EXCEPT ![d] = q]
      /\ status' = [status EXCEPT ![d] = editing.status]
      /\ UNCHANGED <<shown, deleting, cups, pc, held>>
      /\ UNCHANGED <<unconfigured, unseen, begun, late, leaked, stopped>>
  BY DEF EditSave, SaveDevice, Set, workerVars, history
<1>2. queueOf'[d] = q
  BY <1>1 DEF RowTypes
<1>3. \A e \in Devices \ {d} : Same(e)
  BY <1>1 DEF Same, RowTypes
<1>4. \A e \in Devices : queueOf'[e] # NoQueue => device'[e] = "present"
  BY <1>1 DEF RowTypes, RowsFit
<1>5. CASE queueOf[d] \in {NoQueue, q}
  <2>1. Enqueue(Configure(d))
    BY <1>5 DEF EditSave, Enqueue
  <2>2. QueueFits' /\ tries' = tries
    BY <2>1, JobsAre, EnqueueOne
  <2> PICK u \in Tasks :
        Adds(u, Configure(d)) /\ IsLast(u) /\ \A t \in Tasks \ {u} : Keeps(t)
    BY <2>1, JobsAre, EnqueueOne
  <2>3. Asked(d)
    BY <1>1, <1>2, <1>5 DEF Asked
  <2>4. NewTask(d, u) /\ \A t \in Tasks \ {u} : OldTask(d, t)
    BY <1>1, <1>2 DEF NewTask, OldTask, Adds, Keeps, Configure
  <2> QED BY <1>1, <1>3, <1>4, <2>2, <2>3, <2>4 DEF WebStep
<1>6. CASE queueOf[d] \notin {NoQueue, q}
  <2> PICK i \in Jobs, j \in Jobs : i = Delete(queueOf[d]) /\ j = Configure(d)
    BY <1>6, JobsAre DEF RowTypes
  <2>1. EnqueueAll(<<i, j>>, {})
    BY <1>6 DEF EditSave
  <2>2. QueueFits' /\ tries' = tries
    BY <2>1, EnqueueTwo
  <2> PICK t \in Tasks, u \in Tasks :
        /\ Adds(t, i) /\ Adds(u, j) /\ IsLast(u) /\ \A v \in Tasks \ {t, u} : Keeps(v)
    BY <2>1, EnqueueTwo
  <2>3. GetsDoomed(queueOf[d])
    BY DEF GetsDoomed, Adds
  <2>4. Asked(d)
    BY <1>1, <1>2, <2>3 DEF Asked
  <2>5. NewTask(d, t) /\ NewTask(d, u) /\ \A v \in Tasks \ {t, u} : OldTask(d, v)
    BY <1>1, <1>2, <1>6 DEF NewTask, OldTask, Adds, Keeps, Configure
  <2> QED BY <1>1, <1>3, <1>4, <2>2, <2>4, <2>5 DEF WebStep
<1> QED BY <1>5, <1>6

LEMMA RemovalStep ==
    ASSUME IInv, NEW d \in Devices, RemoveEndpoint(d),
           UNCHANGED <<cups, pc, held, begun, late, stopped>>, leaked \subseteq leaked',
           deleting' \in {deleting, NoDevice},
           queueOf[d] \in leaked' \cup {NoQueue} \/ deleting = d,
           \A e \in Devices \ {d} : UNCHANGED <<device[e], status[e]>>
    PROVE  WebStep(d) /\ QueueFits'
<1> USE IInvGives
<1>1. /\ queueOf' = [queueOf EXCEPT ![d] = NoQueue]
      /\ shown' = [shown EXCEPT ![d] = TRUE]
      /\ unconfigured' = unconfigured \ {d} /\ unseen' = unseen \ {d}
      /\ EnqueueAll(<<>>, TasksOf(d))
  BY DEF RemoveEndpoint, Set
<1>2. /\ QueueFits' /\ tries' = tries /\ phase' = phase
      /\ \A t \in Tasks : job'[t] = IF t \in TasksOf(d) THEN Lost(job[t]) ELSE job[t]
  BY <1>1, EnqueueNone
<1>3. queueOf'[d] = NoQueue
  BY <1>1 DEF RowTypes
<1>4. Gone(d)
  <2>1. \A t \in Tasks : Lost(job[t]).of # d
    BY DEF Lost, RowTypes
  <2>2. \A t \in Tasks : job'[t].of # d
    BY <1>2, <2>1 DEF TasksOf
  <2> QED BY <1>3, <2>2 DEF Gone
<1>5. \A t \in Tasks : OldTask(d, t)
  BY <1>2, <1>3 DEF OldTask, TasksOf
<1>6. \A e \in Devices \ {d} : Same(e)
  BY <1>1 DEF Same, RowTypes
<1>7. \A e \in Devices : queueOf'[e] # NoQueue => device'[e] = "present"
  BY <1>1 DEF RowTypes, RowsFit
<1> QED BY <1>2, <1>4, <1>5, <1>6, <1>7 DEF WebStep

LEMMA EditRemovesStep ==
    ASSUME IInv, NEW d \in Devices, EditRemoves(d)
    PROVE  WebStep(d) /\ QueueFits'
<1>1. /\ RemoveEndpoint(d) /\ UNCHANGED <<cups, pc, held, begun, late, stopped, deleting>>
      /\ leaked' = leaked \cup ({queueOf[d]} \ {NoQueue})
      /\ \A e \in Devices \ {d} : UNCHANGED <<device[e], status[e]>>
  BY IInvGives DEF EditRemoves, SaveDevice, Set, workerVars, RowTypes
<1> QED BY <1>1, RemovalStep

LEMMA DeleteEnqueueStep ==
    ASSUME IInv, NEW d \in Devices, DeleteEnqueue(d)
    PROVE  WebStep(d) /\ QueueFits'
<1> USE IInvGives
<1>1. /\ UNCHANGED <<device, queueOf, status, shown, cups, pc, held>>
      /\ UNCHANGED <<unconfigured, unseen, late, leaked, stopped>>
      /\ deleting' = d /\ begun' = begun \cup {d}
  BY DEF DeleteEnqueue, rowVars, workerVars
<1>2. \A e \in Devices : Same(e)
  BY <1>1 DEF Same
<1>3. \A e \in Devices : queueOf'[e] # NoQueue => device'[e] = "present"
  BY <1>1 DEF RowsFit
<1>4. CASE queueOf[d] = NoQueue
  <2>1. UNCHANGED <<queueVars, job>>
    BY <1>4 DEF DeleteEnqueue
  <2>2. QueueFits' /\ tries' = tries
    BY <2>1, StutterKeeps DEF QueueFits, queueVars, InRank
  <2>3. \A t \in Tasks : OldTask(d, t)
    BY <2>1 DEF OldTask, queueVars
  <2> QED BY <1>1, <1>2, <1>3, <1>4, <2>2, <2>3 DEF WebStep
<1>5. CASE queueOf[d] # NoQueue
  <2> PICK j \in Jobs : j = Delete(queueOf[d])
    BY <1>5, JobsAre DEF RowTypes
  <2>1. Enqueue(j)
    BY <1>5 DEF DeleteEnqueue
  <2>2. QueueFits' /\ tries' = tries
    BY <2>1, EnqueueOne
  <2> PICK u \in Tasks : Adds(u, j) /\ IsLast(u) /\ \A t \in Tasks \ {u} : Keeps(t)
    BY <2>1, EnqueueOne
  <2>3. GetsDoomed(queueOf[d])
    BY DEF GetsDoomed, Adds
  <2>4. NewTask(d, u) /\ \A t \in Tasks \ {u} : OldTask(d, t)
    BY <1>1, <1>5 DEF NewTask, OldTask, Adds, Keeps
  <2> QED BY <1>1, <1>2, <1>3, <2>2, <2>3, <2>4 DEF WebStep
<1> QED BY <1>4, <1>5

LEMMA DeleteEndsStep ==
    ASSUME IInv, DeleteRow \/ DeleteDies
    PROVE  /\ QueueFits' /\ \E d \in Devices : WebStep(d)
<1> USE IInvGives
<1> PICK d \in Devices : d = deleting
  BY DEF DeleteRow, DeleteDies, RowTypes
<1>1. CASE /\ UNCHANGED <<queueVars, job, device, queueOf, status, shown, cups, pc, held>>
           /\ UNCHANGED <<unconfigured, unseen, begun, late, leaked, stopped>>
           /\ deleting' = NoDevice
  <2>1. QueueFits' /\ tries' = tries
    BY <1>1, StutterKeeps DEF QueueFits, queueVars, InRank
  <2>2. \A t \in Tasks : OldTask(d, t)
    BY <1>1 DEF OldTask, queueVars
  <2>3. \A e \in Devices : Same(e)
    BY <1>1 DEF Same
  <2>4. \A e \in Devices : queueOf'[e] # NoQueue => device'[e] = "present"
    BY <1>1 DEF RowsFit
  <2> QED BY <1>1, <2>1, <2>2, <2>3, <2>4 DEF WebStep
<1>2. CASE DeleteRow /\ d \notin printed
  <2>1. /\ RemoveEndpoint(d) /\ UNCHANGED <<cups, pc, held, begun, late, leaked, stopped>>
        /\ deleting' = NoDevice
        /\ \A e \in Devices \ {d} : UNCHANGED <<device[e], status[e]>>
    BY <1>2 DEF DeleteRow, Set, workerVars, RowTypes
  <2> QED BY <2>1, RemovalStep
<1> QED BY <1>1, <1>2 DEF DeleteRow, DeleteDies, rowVars, workerVars, history

LEMMA QuietStep ==
    ASSUME (\E d \in Devices : AddJob(d) \/ EditRead(d)) \/ EditEnds \/ UNCHANGED vars
    PROVE  Quiet
BY DEF AddJob, EditRead, EditEnds, vars, Quiet, rowVars, requestVars, history

\* The steps of a handler that leave the queue of tasks alone.
Within(t) ==
    \/ Load(t) \/ AddQueue(t) \/ OpenQueue(t) \/ Command(t) \/ Refreshed(t) \/ CallFails(t)
    \/ SaveOffline(t) \/ DeleteQueue(t) \/ DeleteFails(t)

LEMMA StepKinds ==
    ASSUME IInv, [Next]_vars
    PROVE  \/ (\E d \in Devices : WebStep(d)) /\ QueueFits'
           \/ Quiet
           \/ \E t \in Tasks : StartTask(t) \/ Within(t) \/ EndTask(t) \/ WorkerDies(t)
           \/ \E q \in Queues : CupsStops(q)
<1>1. ASSUME NEW t \in Tasks, HandlerStep(t) PROVE Within(t) \/ EndTask(t)
  BY <1>1 DEF HandlerStep, Within
<1> QED
  BY <1>1, CreateDeviceStep, RequestStep, EditSaveStep, EditRemovesStep, DeleteEnqueueStep,
     DeleteEndsStep, QuietStep DEF Next

CupsTypes == [Queues -> [of : Devices \cup {NoDevice}, open : BOOLEAN]]

\* A queue that cupsd stops still prints to whom it did, and what its row shows still fits.
LEMMA CupsStopsStep ==
    ASSUME TypeOK, NEW q \in Queues, CupsStops(q)
    PROVE  /\ UNCHANGED <<queueVars, phase, tries, job, rowVars, requestVars, pc, held, edits>>
           /\ UNCHANGED <<unconfigured, unseen, begun, late, leaked>>
           /\ cups' \in CupsTypes /\ stopped' \subseteq Queues
           /\ \A r \in Queues : cups'[r].of = cups[r].of
           /\ \A d \in Devices, r \in Queues : ShownFits(d, r) => ShownFits(d, r)'
<1>1. /\ cups[q].open /\ cups' = [cups EXCEPT ![q].open = FALSE]
      /\ stopped' = stopped \cup {q}
      /\ UNCHANGED <<queueVars, job, rowVars, requestVars, pc, held, edits>>
      /\ UNCHANGED <<unconfigured, unseen, begun, late, leaked>>
  BY DEF CupsStops, workerVars
<1>2. cups \in CupsTypes /\ shown \in [Devices -> BOOLEAN] /\ stopped \subseteq Queues
  BY DEF TypeOK, CupsTypes
<1>3. /\ cups' \in CupsTypes /\ cups'[q].open = FALSE
      /\ \A r \in Queues : cups'[r].of = cups[r].of /\ (r # q => cups'[r] = cups[r])
  BY <1>1, <1>2 DEF CupsTypes
<1>4. ASSUME NEW d \in Devices, NEW r \in Queues, ShownFits(d, r) PROVE ShownFits(d, r)'
  <2>1. shown'[d] = shown[d]
    BY <1>1 DEF rowVars
  <2>2. CASE r # q
    BY <1>1, <1>3, <1>4, <2>1, <2>2 DEF ShownFits
  <2>3. CASE r = q
    <3>1. shown[d] = cups[q].open
      BY <1>1, <1>4, <2>3 DEF ShownFits
    <3>2. shown'[d] /\ q \in stopped' /\ ~ cups'[q].open
      BY <1>1, <1>3, <2>1, <3>1
    <3> QED BY <2>3, <3>2 DEF ShownFits
  <2> QED BY <2>2, <2>3
<1> QED BY <1>1, <1>2, <1>3, <1>4 DEF queueVars

-----------------------------------------------------------------------------
(* What the worker does to the queue of tasks.                             *)

LEMMA WithinKeeps ==
    ASSUME NEW t \in Tasks, Within(t)
    PROVE  /\ UNCHANGED <<queueVars, job, device, queueOf, printed, editing, deleting, edits, begun>>
           /\ Handles(t)
BY DEF Within, Load, AddQueue, OpenQueue, Command, Refreshed, CallFails, SaveOffline, DeleteQueue,
   DeleteFails, Running, Handles, rowVars, requestVars, history

LEMMA OneHandler ==
    ASSUME IInv, NEW t \in Tasks, NEW u \in Tasks, Handles(t), Handles(u)
    PROVE  t = u
BY OneExecutes, PrintersAssumption DEF IInv, Handles

LEMMA StartTaskStarts ==
    ASSUME IInv, NEW t \in Tasks, StartTask(t)
    PROVE  /\ QueueFits' /\ pc' = "begin"
           /\ UNCHANGED <<job, rowVars, requestVars, cups, held, edits, history>>
           /\ phase[t] = "waiting" /\ phase'[t] = "executing" /\ tries'[t] = tries[t] + 1
           /\ \A u \in Tasks : u # t => UNCHANGED <<phase[u], tries[u]>>
           /\ \A u \in Tasks : ~ Handles(u)
           /\ Overtakes(t)
<1> PICK w \in Workers : Start(w, t)
  BY DEF StartTask
<1>1. QueueOK' /\ phase[t] = "waiting" /\ phase'[t] = "executing" /\ tries'[t] = tries[t] + 1
      /\ \A u \in Tasks : u # t => UNCHANGED <<phase[u], tries[u]>>
  BY StartKeeps, StartPhases DEF IInv
<1>2. \A u \in Tasks : ~ Handles(u)
  BY NoneExecutes, PrintersAssumption DEF IInv, Handles
<1>3. Overtakes(t)
  BY DEF Start
<1>4. UNCHANGED <<job, rowVars, requestVars, cups, held, edits, history>> /\ pc' = "begin"
  BY DEF StartTask
<1>5. InRank'
  BY <1>1, IInvGives DEF QueueFits, InRank
<1> QED BY <1>1, <1>2, <1>3, <1>4, <1>5, IInvGives DEF QueueFits

\* The end of an execution: the job stays as long as its task is going to run again.
Stops(t) == EndTask(t) \/ WorkerDies(t)

LEMMA StopsEnds ==
    ASSUME IInv, NEW t \in Tasks, Stops(t)
    PROVE  /\ QueueFits' /\ pc' = "idle" /\ tries' = tries
           /\ UNCHANGED <<rowVars, requestVars, cups, edits, begun, late, stopped>>
           /\ Handles(t) /\ phase'[t] \in {"waiting", "complete", "failed"}
           /\ \A u \in Tasks \ {t} : Keeps(u)
           /\ phase'[t] = "waiting" => job'[t] = job[t] /\ tries[t] > 0
           /\ phase'[t] # "waiting" => job'[t] = NoJob
<1>1. Succeed(t) \/ Fail(t) \/ Lose(t)
  BY DEF Stops, EndTask, WorkerDies
<1>2. /\ QueueOK' /\ Handles(t) /\ tries' = tries
      /\ \A u \in Tasks : u # t => phase'[u] = phase[u]
      /\ phase'[t] \in {"waiting", "complete", "failed"}
  BY <1>1, EndingKeeps, EndingPhases DEF IInv, Handles
<1>3. tries[t] > 0
  BY <1>2 DEF IInv, QueueOK, StartedOnce, Handles
<1>4. CASE EndTask(t)
  <2>1. /\ job' = IF phase'[t] = "waiting" THEN job ELSE [job EXCEPT ![t] = NoJob]
        /\ pc' = "idle" /\ UNCHANGED <<rowVars, requestVars, cups, edits, begun, late, stopped>>
    BY <1>4 DEF EndTask, Set
  <2>2. job' \in [Tasks -> Jobs] /\ InRank'
    BY <1>2, <2>1, IInvGives, JobsAre DEF QueueFits, InRank, Handles
  <2> QED BY <1>2, <1>3, <2>1, <2>2, IInvGives DEF QueueFits, Keeps
<1>5. CASE WorkerDies(t)
  <2>1. /\ job' = job /\ phase'[t] = "waiting" /\ pc' = "idle"
        /\ UNCHANGED <<rowVars, requestVars, cups, edits, begun, late, stopped>>
    BY <1>5, EndingPhases DEF WorkerDies, history, IInv
  <2>2. InRank'
    BY <1>2, <2>1, IInvGives DEF QueueFits, InRank, Handles
  <2> QED BY <1>2, <1>3, <2>1, <2>2, IInvGives DEF QueueFits, Keeps
<1> QED BY <1>4, <1>5 DEF Stops

LEMMA QueueInductive ==
    ASSUME IInv, [Next]_vars
    PROVE  QueueFits'
<1>1. CASE UNCHANGED <<queueVars, job>>
  BY <1>1, IInvGives, StutterKeeps DEF QueueFits, queueVars, InRank
<1>2. Quiet => UNCHANGED <<queueVars, job>>
  BY DEF Quiet
<1>3. ASSUME NEW q \in Queues, CupsStops(q) PROVE UNCHANGED <<queueVars, job>>
  BY <1>3, CupsStopsStep DEF IInv
<1> QED BY <1>1, <1>2, <1>3, StepKinds, WithinKeeps, StartTaskStarts, StopsEnds DEF Stops

-----------------------------------------------------------------------------
(* The types.                                                              *)

RestTypes ==
    /\ RowTypes
    /\ editing \in [of : Devices \cup {NoDevice}, status : {"unknown", "online", "offline"}]
    /\ cups \in [Queues -> [of : Devices \cup {NoDevice}, open : BOOLEAN]]
    /\ pc \in {"idle", "begin", "loaded", "added", "refreshing", "offline", "return", "raise"}
    /\ held \in [of : Devices \cup {NoDevice}, queue : Queues \cup {NoQueue}]
    /\ edits \in 0..MaxEdits
    /\ printed \cup unconfigured \cup unseen \cup begun \subseteq Devices
    /\ late \cup leaked \cup stopped \subseteq Queues

LEMMA TypesSplit == TypeOK <=> job \in [Tasks -> Jobs] /\ RestTypes
BY PrintersAssumption DEF TypeOK, RestTypes, RowTypes, Jobs

LEMMA WebTypes ==
    ASSUME RestTypes, NEW d \in Devices,
           \/ \E q \in Queues : CreateDevice(d, q) \/ EditSave(d, q)
           \/ \E kind \in Requests : Request(d, kind)
           \/ AddJob(d) \/ EditRead(d) \/ EditRemoves(d) \/ DeleteEnqueue(d)
    PROVE  RestTypes'
<1> USE DEF RestTypes, RowTypes, Set
<1>1. ASSUME NEW q \in Queues, CreateDevice(d, q) PROVE RestTypes'
  BY <1>1 DEF CreateDevice, requestVars, workerVars, history
<1>2. editing.status \in {"unknown", "online", "offline"} /\ MaxEdits \in Nat
      /\ NoEdit \in [of : Devices \cup {NoDevice}, status : {"unknown", "online", "offline"}]
  BY PrintersAssumption DEF NoEdit
<1>3. ASSUME NEW q \in Queues, EditSave(d, q) PROVE RestTypes'
  BY <1>2, <1>3 DEF EditSave, SaveDevice, workerVars, history
<1>4. ASSUME NEW kind \in Requests, Request(d, kind) PROVE RestTypes'
  BY <1>4 DEF Request, rowVars, requestVars, workerVars, history
<1>5. ASSUME AddJob(d) PROVE RestTypes'
  BY <1>5 DEF AddJob, requestVars, workerVars, history
<1>6. ASSUME EditRead(d) PROVE RestTypes'
  BY <1>2, <1>6 DEF EditRead, rowVars, workerVars, history
<1>7. ASSUME EditRemoves(d) PROVE RestTypes'
  BY <1>2, <1>7 DEF EditRemoves, SaveDevice, RemoveEndpoint, workerVars
<1>8. ASSUME DeleteEnqueue(d) PROVE RestTypes'
  BY <1>8 DEF DeleteEnqueue, rowVars, workerVars
<1> QED BY <1>1, <1>3, <1>4, <1>5, <1>6, <1>7, <1>8

\* A call that opens or closes a queue leaves what it prints to.
LEMMA CommandOpens ==
    ASSUME cups \in CupsTypes, held.queue \in Queues, NEW t \in Tasks,
           OpenQueue(t) \/ Command(t)
    PROVE  /\ cups' \in CupsTypes
           /\ \A r \in Queues :
                cups'[r].of = cups[r].of /\ (r # held.queue => cups'[r] = cups[r])
<1> PICK q \in Queues : q = held.queue
  OBVIOUS
<1>1. \/ cups' = [cups EXCEPT ![q].open = TRUE]
      \/ cups' = [cups EXCEPT ![q].open = FALSE]
  <2>1. CASE OpenQueue(t)
    BY <2>1 DEF OpenQueue
  <2>2. CASE Command(t)
    <3>1. CASE job[t].kind = "enable"
      BY <2>2, <3>1 DEF Command
    <3>2. CASE job[t].kind # "enable"
      BY <2>2, <3>2 DEF Command
    <3> QED BY <3>1, <3>2
  <2> QED BY <2>1, <2>2
<1>2. CASE cups' = [cups EXCEPT ![q].open = TRUE]
  BY <1>2 DEF CupsTypes
<1>3. CASE cups' = [cups EXCEPT ![q].open = FALSE]
  BY <1>3 DEF CupsTypes
<1> QED BY <1>1, <1>2, <1>3

LEMMA EndsTypes ==
    ASSUME RestTypes, EditEnds \/ DeleteRow \/ DeleteDies \/ UNCHANGED vars
    PROVE  RestTypes'
<1> USE DEF RestTypes, RowTypes, Set
<1>1. NoEdit \in [of : Devices \cup {NoDevice}, status : {"unknown", "online", "offline"}]
  BY DEF NoEdit
<1>2. CASE EditEnds
  BY <1>1, <1>2 DEF EditEnds, rowVars, workerVars, history
<1>3. CASE DeleteRow
  <2> PICK d \in Devices : d = deleting
    BY <1>3 DEF DeleteRow
  <2>1. CASE d \in printed
    BY <1>3, <2>1 DEF DeleteRow, rowVars, workerVars
  <2>2. CASE d \notin printed
    BY <1>3, <2>2 DEF DeleteRow, RemoveEndpoint, workerVars
  <2> QED BY <2>1, <2>2
<1>4. CASE DeleteDies
  BY <1>4 DEF DeleteDies, rowVars, workerVars, history
<1>5. CASE UNCHANGED vars
  BY <1>5 DEF vars, rowVars, requestVars, workerVars, history
<1> QED BY <1>2, <1>3, <1>4, <1>5

LEMMA WithinTypes ==
    ASSUME RestTypes, RowsFit, HandlersFit, HeldFits, job \in [Tasks -> Jobs],
           NEW t \in Tasks, Within(t)
    PROVE  RestTypes'
<1> USE DEF RestTypes, RowTypes, Set
<1>1. UNCHANGED <<device, queueOf, printed, editing, deleting, edits, begun>> /\ Handles(t)
  BY WithinKeeps
<1>2. /\ job[t].of \in Devices \cup {NoDevice}
      /\ job[t].kind = "delete" => job[t].queue \in Queues
      /\ pc \in {"loaded", "added", "refreshing", "offline"}
           => held.of \in Devices /\ held.queue \in Queues
  BY <1>1 DEF RowsFit, HandlersFit, HeldFits, HeldAs, Holds, Jobs, Live, Handles
<1>12. cups \in CupsTypes
  BY DEF CupsTypes
<1>3. CASE Load(t)
  BY <1>1, <1>2, <1>3 DEF Load, Saves, rowVars, history
<1>4. CASE AddQueue(t)
  <2>1. held.of \in Devices /\ held.queue \in Queues
    BY <1>2, <1>4 DEF AddQueue, Running
  <2> PICK h \in Devices, n \in Queues : held.of = h /\ held.queue = n
    BY <2>1
  <2>2. cups' \in CupsTypes
    <3>1. cups' = [cups EXCEPT ![n].of = h]
      BY <1>4 DEF AddQueue
    <3> QED BY <1>12, <3>1 DEF CupsTypes
  <2> QED BY <1>1, <1>4, <2>1, <2>2 DEF AddQueue, rowVars, CupsTypes
<1>5. CASE OpenQueue(t)
  <2>1. cups' \in CupsTypes
    BY <1>2, <1>5, <1>12, CommandOpens DEF OpenQueue, Running
  <2> QED BY <1>1, <1>5, <2>1 DEF OpenQueue, rowVars, history, CupsTypes
<1>6. CASE Command(t)
  <2>1. cups' \in CupsTypes
    BY <1>2, <1>6, <1>12, CommandOpens DEF Command, Running
  <2> QED BY <1>1, <1>6, <2>1 DEF Command, rowVars, history, CupsTypes
<1>7. CASE Refreshed(t)
  <2>1. held.of \in Devices /\ held.queue \in Queues
    BY <1>2, <1>7 DEF Refreshed
  <2> QED BY <1>1, <1>7, <2>1 DEF Refreshed
<1>8. CASE CallFails(t)
  BY <1>1, <1>8 DEF CallFails, rowVars, history
<1>9. CASE SaveOffline(t)
  BY <1>1, <1>9 DEF SaveOffline, history
<1>10. CASE DeleteQueue(t)
  <2>1. job[t].queue \in Queues
    BY <1>2, <1>10 DEF DeleteQueue, Running
  <2>2. NoneInCups \in [of : Devices \cup {NoDevice}, open : BOOLEAN]
    BY DEF NoneInCups
  <2> QED BY <1>1, <1>10, <2>1, <2>2 DEF DeleteQueue, rowVars
<1>11. CASE DeleteFails(t)
  BY <1>1, <1>11 DEF DeleteFails, rowVars, history
<1> QED BY <1>3, <1>4, <1>5, <1>6, <1>7, <1>8, <1>9, <1>10, <1>11 DEF Within

-----------------------------------------------------------------------------
(* What a step leaves to be done.                                          *)

\* Requests take a task away from a printer only with its endpoint.
LEMMA WebKeepsTasks ==
    ASSUME IInv, NEW d \in Devices, WebStep(d)
    PROVE  /\ \A t \in Tasks : Handles(t)' =>
                /\ Handles(t) /\ job'[t].kind = job[t].kind /\ job'[t].queue = job[t].queue
                /\ job'[t].of = job[t].of
                   \/ (job[t].of = d /\ queueOf'[d] = NoQueue /\ job'[t].of = NoDevice)
           /\ \A e \in Devices : \A kinds : queueOf'[e] # NoQueue =>
                /\ Waits(e) => Waits(e)'
                /\ ToCome(e, kinds) => ToCome(e, kinds)'
           /\ \A q : Doomed(q) => Doomed(q)'
           /\ \A q : GetsDoomed(q) => Doomed(q)'
           /\ Asked(d) => Waits(d)' /\ ToCome(d, {"configure"})'
<1>1. \A t \in Tasks : phase[t] # "absent" => OldTask(d, t)
  BY DEF WebStep, NewTask
<1>2. \A t \in Tasks : phase[t] = "absent" => phase'[t] \in {"absent", "waiting"}
  BY DEF WebStep, NewTask, OldTask
<1>3. \A t \in Tasks : Handles(t)' =>
        /\ Handles(t) /\ job'[t].kind = job[t].kind /\ job'[t].queue = job[t].queue
        /\ job'[t].of = job[t].of
           \/ (job[t].of = d /\ queueOf'[d] = NoQueue /\ job'[t].of = NoDevice)
  <2>1. \A t \in Tasks : /\ Lost(job[t]).kind = job[t].kind
                         /\ Lost(job[t]).queue = job[t].queue
                         /\ Lost(job[t]).of = NoDevice
    BY DEF Lost
  <2> QED BY <1>1, <1>2, <2>1 DEF OldTask, Handles
<1>4. ASSUME NEW e \in Devices, NEW kinds, queueOf'[e] # NoQueue
      PROVE  (Waits(e) => Waits(e)') /\ (ToCome(e, kinds) => ToCome(e, kinds)')
  <2>1. \A t \in TasksOf(e) : Live(t) => t \in TasksOf(e)' /\ Keeps(t)
    BY <1>1, <1>4 DEF TasksOf, Live, OldTask, Keeps
  <2> QED BY <2>1 DEF Waits, ToCome, Live, Keeps
<1>5. ASSUME NEW q, Doomed(q) PROVE Doomed(q)'
  <2> PICK t \in Tasks : Live(t) /\ job[t] = Delete(q)
    BY <1>5 DEF Doomed
  <2>1. job[t].of # d
    BY IInvGives DEF Delete, RowTypes
  <2>2. Keeps(t)
    BY <1>1, <2>1 DEF Live, OldTask, Keeps
  <2> QED BY <2>2 DEF Doomed, Live, Keeps
<1>6. ASSUME NEW q, GetsDoomed(q) PROVE Doomed(q)'
  BY <1>6 DEF GetsDoomed, Doomed, Live
<1>7. Asked(d) => Waits(d)' /\ ToCome(d, {"configure"})'
  BY DEF Asked, Adds, Waits, ToCome, TasksOf, Live, Configure
<1> QED BY <1>3, <1>4, <1>5, <1>6, <1>7

\* As long as the tasks stay, so does what waits.
LEMMA TasksStay ==
    ASSUME UNCHANGED <<phase, job>>
    PROVE  /\ \A e, kinds : /\ Waits(e)' <=> Waits(e)
                            /\ ToCome(e, kinds)' <=> ToCome(e, kinds)
           /\ \A q : Doomed(q)' <=> Doomed(q)
BY DEF Waits, ToCome, Doomed, TasksOf, Live

\* A start takes nothing away but what it begins.
LEMMA StartKeepsTasks ==
    ASSUME IInv, NEW t \in Tasks, StartTask(t)
    PROVE  /\ \A e, kinds : ToCome(e, kinds) => ToCome(e, kinds)'
           /\ \A q : Doomed(q) => Doomed(q)'
<1>1. /\ \A u \in Tasks : u # t => phase'[u] = phase[u]
      /\ phase'[t] = "executing" /\ job' = job
  BY StartTaskStarts
<1> QED BY <1>1 DEF ToCome, Doomed, TasksOf, Live

\* The end of an execution leaves what waits, and all tasks but this one.
LEMMA StopsKeepsTasks ==
    ASSUME IInv, NEW t \in Tasks, Stops(t)
    PROVE  /\ \A e : Waits(e) => Waits(e)'
           /\ \A e, kinds : ToCome(e, kinds) /\ ~ ToCome(e, kinds)'
                 => job[t].of = e /\ job[t].kind \in kinds /\ phase'[t] # "waiting"
           /\ \A q : Doomed(q) /\ ~ Doomed(q)' => job[t] = Delete(q) /\ phase'[t] # "waiting"
<1>1. /\ Handles(t) /\ \A u \in Tasks : u # t => Keeps(u)
      /\ phase'[t] = "waiting" => job'[t] = job[t]
  BY StopsEnds
<1>2. \A e : Waits(e) => Waits(e)'
  BY <1>1 DEF Waits, TasksOf, Keeps, Handles
<1>3. \A e, kinds : ToCome(e, kinds) /\ ~ ToCome(e, kinds)'
         => job[t].of = e /\ job[t].kind \in kinds /\ phase'[t] # "waiting"
  BY <1>1 DEF ToCome, TasksOf, Live, Keeps
<1>4. \A q : Doomed(q) /\ ~ Doomed(q)' => job[t] = Delete(q) /\ phase'[t] # "waiting"
  BY <1>1 DEF Doomed, Live, Keeps
<1> QED BY <1>2, <1>3, <1>4

-----------------------------------------------------------------------------
(* The invariant, part by part.                                            *)

LEMMA TypesInductive ==
    ASSUME IInv, [Next]_vars
    PROVE  TypeOK'
<1>1. RestTypes /\ job \in [Tasks -> Jobs] /\ HandlersFit /\ HeldFits /\ RowsFit
  BY TypesSplit DEF IInv
<1>2. job' \in [Tasks -> Jobs]
  BY QueueInductive DEF QueueFits
<1>3. ASSUME NEW t \in Tasks, StartTask(t) PROVE RestTypes'
  BY <1>1, <1>3, StartTaskStarts DEF RestTypes, RowTypes, rowVars, requestVars, history
<1>4. ASSUME NEW t \in Tasks, Stops(t) PROVE RestTypes'
  <2>1. /\ UNCHANGED <<rowVars, requestVars, cups, edits, begun, late, stopped>> /\ pc' = "idle"
        /\ job[t] \in Jobs
    BY <1>1, <1>4, StopsEnds
  <2>2. job[t].of \in Devices \cup {NoDevice} /\ job[t].queue \in Queues \cup {NoQueue}
    BY <2>1 DEF Jobs
  <2>3. /\ unconfigured' \cup unseen' \subseteq Devices /\ leaked' \subseteq Queues
        /\ held' = NoRow
    BY <1>1, <1>4, <2>2 DEF Stops, EndTask, WorkerDies, history, RestTypes
  <2> QED BY <1>1, <2>1, <2>3 DEF RestTypes, RowTypes, rowVars, requestVars, NoRow
<1>5. ASSUME NEW t \in Tasks, HandlerStep(t) PROVE RestTypes'
  BY <1>1, <1>4, <1>5, WithinTypes DEF HandlerStep, Within, Stops
<1>6. ASSUME NEW q \in Queues, CupsStops(q) PROVE RestTypes'
  <2>1. TypeOK
    BY DEF IInv
  <2>2. /\ UNCHANGED <<rowVars, requestVars, pc, held, edits, unconfigured, unseen, begun>>
        /\ UNCHANGED <<late, leaked>>
        /\ cups' \in CupsTypes /\ stopped' \subseteq Queues
    BY <1>6, <2>1, CupsStopsStep
  <2> QED BY <1>1, <2>2 DEF RestTypes, RowTypes, CupsTypes, rowVars, requestVars
<1>7. RestTypes'
  BY <1>1, <1>3, <1>4, <1>5, <1>6, WebTypes, EndsTypes DEF Next, Stops
<1> QED BY <1>2, <1>7 DEF TypeOK, RestTypes, RowTypes, Jobs

LEMMA RowsInductive ==
    ASSUME IInv, [Next]_vars
    PROVE  RowsFit'
<1> USE IInvGives
<1>1. ASSUME NEW d \in Devices, WebStep(d) PROVE RowsFit'
  <2>1. \A t \in Tasks : Lost(job[t]).of = NoDevice /\ Delete(queueOf[d]).of = NoDevice
    BY DEF Lost, Delete
  <2>2. \A t \in Tasks : job[t].of \in Devices \cup {NoDevice}
    BY DEF QueueFits, Jobs
  <2>3. \A t \in Tasks : job'[t].of # NoDevice => queueOf'[job'[t].of] # NoQueue
    <3> SUFFICES ASSUME NEW t \in Tasks, job'[t].of # NoDevice
                 PROVE  queueOf'[job'[t].of] # NoQueue
      OBVIOUS
    <3>1. CASE OldTask(d, t)
      <4>1. job'[t] = job[t] /\ queueOf[job[t].of] # NoQueue /\ job[t].of \in Devices
        BY <2>1, <2>2, <3>1 DEF OldTask, RowsFit
      <4> QED BY <1>1, <4>1 DEF WebStep, Same, Gone, Asked
    <3>2. CASE NewTask(d, t)
      BY <2>1, <3>2 DEF NewTask
    <3> QED BY <1>1, <3>1, <3>2 DEF WebStep
  <2>4. ASSUME NEW t \in Tasks, Live(t)', job'[t].kind = "delete"
        PROVE  job'[t].queue \in Queues /\ job'[t] = Delete(job'[t].queue)
    <3>1. CASE OldTask(d, t)
      <4>1. phase'[t] = phase[t] /\ Live(t)
        BY <2>4, <3>1 DEF OldTask, Live
      <4>2. Lost(job[t]).kind = job[t].kind
        BY DEF Lost
      <4>3. job[t].kind = "delete"
        BY <2>4, <3>1, <4>2 DEF OldTask
      <4>4. job[t] = Delete(job[t].queue) /\ job[t].queue \in Queues
        BY <4>1, <4>3 DEF RowsFit
      <4>5. job[t].of = NoDevice
        BY <4>4 DEF Delete
      <4> QED BY <3>1, <4>4, <4>5 DEF OldTask, RowTypes
    <3>2. CASE NewTask(d, t)
      <4>1. job'[t] = Delete(queueOf[d]) /\ queueOf[d] \in Queues
        BY <2>4, <3>2 DEF NewTask, RowTypes
      <4> QED BY <4>1 DEF Delete
    <3> QED BY <1>1, <3>1, <3>2 DEF WebStep
  <2>5. \A c, e \in Devices : c # e /\ queueOf'[c] # NoQueue => queueOf'[c] # queueOf'[e]
    BY <1>1 DEF WebStep, Same, Gone, Asked, FreeQueues, RowsFit
  <2>6. deleting' # NoDevice => deleting' \in begun'
    BY <1>1 DEF WebStep, RowsFit
  <2>7. \A e \in Devices : queueOf'[e] # NoQueue => device'[e] = "present"
    BY <1>1 DEF WebStep
  <2> QED BY <2>3, <2>4, <2>5, <2>6, <2>7 DEF RowsFit
<1>2. CASE /\ UNCHANGED <<device, queueOf, deleting>> /\ begun \subseteq begun'
           /\ \A t \in Tasks : \/ job'[t] = job[t] /\ (Live(t)' => Live(t))
                               \/ job'[t] = NoJob /\ ~ Live(t)'
  <2>1. NoJob.of = NoDevice
    BY DEF NoJob
  <2> QED BY <1>2, <2>1 DEF RowsFit
<1>3. ASSUME NEW t \in Tasks, Stops(t) PROVE RowsFit'
  BY <1>2, <1>3, StopsEnds DEF rowVars, requestVars, Keeps, Live, Handles
<1>4. ASSUME NEW t \in Tasks, StartTask(t) PROVE RowsFit'
  BY <1>2, <1>4, StartTaskStarts DEF rowVars, requestVars, history, Live
<1>5. ASSUME NEW t \in Tasks, Within(t) PROVE RowsFit'
  BY <1>2, <1>5, WithinKeeps DEF queueVars, Live
<1>6. CASE Quiet
  BY <1>2, <1>6 DEF Quiet, queueVars, history, Live
<1>7. ASSUME NEW q \in Queues, CupsStops(q) PROVE RowsFit'
  <2>1. UNCHANGED <<phase, job, device, queueOf, deleting, begun>>
    BY <1>7, CupsStopsStep DEF IInv, rowVars, requestVars
  <2> QED BY <1>2, <2>1 DEF Live
<1> QED BY <1>1, <1>3, <1>4, <1>5, <1>6, <1>7, StepKinds DEF Stops

LEMMA HandlersInductive ==
    ASSUME IInv, [Next]_vars
    PROVE  HandlersFit'
<1> USE IInvGives DEF IInv
<1>1. \A t \in Tasks : job[t].of \in Devices \cup {NoDevice}
  BY DEF QueueFits, Jobs
<1>2. ASSUME NEW d \in Devices, WebStep(d) PROVE HandlersFit'
  <2>1. UNCHANGED <<pc, cups>>
    BY <1>2 DEF WebStep
  <2>2. ASSUME NEW t \in Tasks, Handles(t)', job'[t].kind = "delete"
        PROVE  pc' \in {"begin", "return", "raise"} /\ (pc' = "return" => ~ InCups(job'[t].queue))
    BY <1>2, <2>1, <2>2, WebKeepsTasks DEF HandlersFit
  <2>3. ASSUME NEW t \in Tasks, NEW e \in Devices, Handles(t)', pc' = "raise",
               job'[t].kind = "configure", job'[t].of = e
        PROVE  status'[e] # "online" \/ Waits(e)'
    <3>1. Handles(t) /\ e = job[t].of /\ job[t].kind = "configure" /\ e # NoDevice
      BY <1>2, <2>3, WebKeepsTasks DEF RowTypes
    <3>2. status[e] # "online" \/ Waits(e)
      BY <2>1, <2>3, <3>1 DEF HandlersFit
    <3>3. queueOf'[e] # NoQueue
      BY <2>3, <3>1, RowsInductive DEF RowsFit
    <3>4. (Same(e) /\ status'[e] = status[e]) \/ (e = d /\ Asked(d))
      BY <1>2, <3>3 DEF WebStep, Gone, Same
    <3> QED BY <1>2, <3>2, <3>3, <3>4, WebKeepsTasks
  <2>4. \A t \in Tasks : job'[t].of \in Devices \cup {NoDevice}
    BY QueueInductive DEF QueueFits, Jobs
  <2>5. \A t \in Tasks : Handles(t)' /\ pc' = "raise" /\ job'[t].kind = "configure"
                         /\ job'[t].of # NoDevice
          => (status[job[t].of] # "online" \/ Waits(job[t].of))'
    BY <2>3, <2>4 DEF Waits, TasksOf
  <2> QED BY <2>1, <2>2, <2>5 DEF HandlersFit, InCups
<1>3. ASSUME NEW t \in Tasks, Within(t),
             job[t].kind = "delete" => /\ pc' \in {"begin", "return", "raise"}
                                       /\ pc' = "return" => ~ InCups(job[t].queue)',
             pc' = "raise" /\ job[t].kind = "configure" /\ job[t].of # NoDevice
               => status'[job[t].of] # "online"
      PROVE  HandlersFit'
  <2>1. UNCHANGED <<phase, job>> /\ Handles(t)
    BY <1>3, WithinKeeps DEF queueVars
  <2>2. \A u \in Tasks : Handles(u)' => u = t
    BY <2>1, OneHandler DEF Handles
  <2> QED BY <1>3, <2>1, <2>2 DEF HandlersFit, InCups
<1>4. ASSUME NEW t \in Tasks, Within(t) PROVE HandlersFit'
  <2>1. UNCHANGED <<phase, job, device, queueOf>> /\ Handles(t)
    BY <1>4, WithinKeeps DEF queueVars
  <2>2. CASE Load(t)
    BY <1>3, <1>4, <2>2 DEF Load, Running, Saves, Commands
  <2>3. CASE AddQueue(t) \/ OpenQueue(t) \/ Command(t)
    BY <1>3, <1>4, <2>3 DEF AddQueue, OpenQueue, Command, Running, Commands
  <2>4. CASE Refreshed(t) \/ CallFails(t)
    <3>1. job[t].kind # "delete"
      BY <2>1, <2>4 DEF Refreshed, CallFails, HandlersFit
    <3>2. pc' = "raise" => job[t].kind # "configure"
      BY <2>4 DEF Refreshed, CallFails, Commands
    <3> QED BY <1>3, <1>4, <3>1, <3>2
  <2>5. CASE SaveOffline(t)
    <3>1. job[t].kind # "delete" /\ Holds(t)
      BY <2>1, <2>5 DEF SaveOffline, HandlersFit, Holds
    <3>2. job[t].of # NoDevice => job[t].of = held.of /\ device[held.of] = "present"
      BY <1>1, <3>1 DEF HeldFits, HeldAs, RowsFit
    <3>3. job[t].of # NoDevice => status'[job[t].of] = "offline"
      BY <1>1, <2>5, <3>2 DEF SaveOffline, Set, RowTypes
    <3> QED BY <1>3, <1>4, <3>1, <3>3
  <2>6. CASE DeleteQueue(t)
    <3>1. job[t].kind = "delete" /\ pc' = "return"
      BY <2>6 DEF DeleteQueue, Running
    <3> PICK q \in Queues : q = job[t].queue
      BY <2>1, <3>1 DEF RowsFit, Live, Handles
    <3>2. cups'[q] = NoneInCups
      BY <2>6 DEF DeleteQueue, Set, TypeOK
    <3>3. ~ InCups(q)'
      BY <3>2 DEF InCups, NoneInCups
    <3>4. ~ InCups(job[t].queue)'
      BY <2>1, <3>3 DEF InCups
    <3> QED BY <1>3, <1>4, <3>1, <3>4
  <2>7. CASE DeleteFails(t)
    BY <1>3, <1>4, <2>7 DEF DeleteFails, Running
  <2> QED BY <1>4, <2>2, <2>3, <2>4, <2>5, <2>6, <2>7 DEF Within
<1>5. ASSUME NEW t \in Tasks, StartTask(t) PROVE HandlersFit'
  <2>1. pc' = "begin"
    BY <1>5, StartTaskStarts
  <2> QED BY <2>1 DEF HandlersFit
<1>6. ASSUME NEW t \in Tasks, Stops(t) PROVE HandlersFit'
  <2>1. \A u \in Tasks : ~ Handles(u)'
    BY <1>6, StopsEnds, OneHandler DEF Keeps, Handles
  <2> QED BY <2>1 DEF HandlersFit
<1>7. CASE Quiet
  BY <1>7 DEF Quiet, queueVars, workerVars, HandlersFit, Handles, InCups, Waits, TasksOf
<1>8. ASSUME NEW q \in Queues, CupsStops(q) PROVE HandlersFit'
  <2>1. UNCHANGED <<phase, job, status, pc>> /\ \A r \in Queues : InCups(r)' => InCups(r)
    BY <1>8, CupsStopsStep DEF rowVars, InCups
  <2>2. \A t \in Tasks : Handles(t) /\ job[t].kind = "delete" => job[t].queue \in Queues
    BY DEF RowsFit, Live, Handles
  <2>3. ASSUME NEW t \in Tasks, Handles(t), job[t].kind = "delete"
        PROVE  pc' \in {"begin", "return", "raise"} /\ (pc' = "return" => ~ InCups(job[t].queue)')
    <3> PICK r \in Queues : r = job[t].queue
      BY <2>2, <2>3
    <3>1. pc = "return" => ~ InCups(r)
      BY <2>3 DEF HandlersFit
    <3>2. ~ InCups(r) => ~ InCups(r)'
      BY <2>1
    <3>3. InCups(job[t].queue)' <=> InCups(r)'
      BY <2>1 DEF InCups
    <3> QED BY <2>1, <2>3, <3>1, <3>2, <3>3 DEF HandlersFit
  <2>4. ASSUME NEW t \in Tasks, Handles(t), pc = "raise", job[t].kind = "configure",
               job[t].of # NoDevice
        PROVE  status[job[t].of] # "online" \/ Waits(job[t].of)
    BY <2>4 DEF HandlersFit
  <2>5. \A t \in Tasks : Waits(job[t].of)' <=> Waits(job[t].of)
    BY <2>1 DEF Waits, TasksOf
  <2>6. \A t \in Tasks : Handles(t)' <=> Handles(t)
    BY <2>1 DEF Handles
  <2> QED BY <2>1, <2>3, <2>4, <2>5, <2>6 DEF HandlersFit
<1> QED BY <1>2, <1>4, <1>5, <1>6, <1>7, <1>8, StepKinds DEF Stops

LEMMA HeldNext ==
    ASSUME NEW h \in Devices, NEW q \in Queues,
           \A t \in Tasks : Holds(t)' => held'.of = h /\ held'.queue = q /\ HeldAs(t, h, q)'
    PROVE  HeldFits'
<1> SUFFICES ASSUME NEW t \in Tasks, Holds(t)'
             PROVE  (held.of \in Devices /\ held.queue \in Queues
                     /\ HeldAs(t, held.of, held.queue))'
  BY DEF HeldFits
<1>1. held'.of = h /\ held'.queue = q /\ HeldAs(t, h, q)'
  OBVIOUS
<1> QED BY <1>1 DEF HeldAs, Waits, Doomed, TasksOf

LEMMA HeldThroughWeb ==
    ASSUME IInv, NEW d \in Devices, WebStep(d)
    PROVE  HeldFits'
<1> USE IInvGives DEF IInv
<1>1. UNCHANGED <<pc, held, cups, stopped>> /\ begun \subseteq begun' /\ leaked \subseteq leaked'
  BY DEF WebStep
<1> SUFFICES ASSUME NEW t \in Tasks, Holds(t)' PROVE HeldFits'
  BY DEF HeldFits
<1>2. /\ Holds(t) /\ job'[t].kind = job[t].kind
      /\ \/ job'[t].of = job[t].of
         \/ job[t].of = d /\ queueOf'[d] = NoQueue /\ job'[t].of = NoDevice
  BY <1>1, WebKeepsTasks DEF Holds
<1> PICK h \in Devices, q \in Queues : held.of = h /\ held.queue = q /\ HeldAs(t, h, q)
  BY <1>2 DEF HeldFits
<1>3. \A e \in Devices : Same(e) \/ queueOf'[e] = NoQueue \/ (e = d /\ Asked(d) /\ Waits(e)')
  BY WebKeepsTasks DEF WebStep, Gone
<1>4. job'[t].of \in {h, NoDevice}
  BY <1>2 DEF HeldAs
<1>5. \/ queueOf'[h] = NoQueue \/ Waits(h)'
      \/ /\ job'[t].of = h /\ queueOf'[h] = q
         /\ pc' = "return" => ShownFits(h, q)'
  <2>1. CASE Waits(h)
    BY <2>1, WebKeepsTasks
  <2>2. CASE queueOf[h] = NoQueue
    BY <1>3, <2>2 DEF Same
  <2>3. CASE job[t].of = h /\ queueOf[h] = q /\ (pc = "return" => ShownFits(h, q))
    <3>1. CASE Same(h)
      BY <1>1, <1>2, <2>3, <3>1 DEF Same, ShownFits, RowTypes, WebStep
    <3> QED BY <1>3, <3>1
  <2> QED BY <2>1, <2>2, <2>3 DEF HeldAs
<1>6. \A e \in Devices \ {h} : queueOf'[e] = q => Waits(e)'
  <2> SUFFICES ASSUME NEW e \in Devices \ {h}, queueOf'[e] = q PROVE Waits(e)'
    OBVIOUS
  <2>1. q # NoQueue
    BY DEF RowTypes
  <2>2. CASE Same(e)
    BY <2>1, <2>2, WebKeepsTasks DEF HeldAs, Same
  <2> QED BY <1>3, <2>1, <2>2
<1>7. ASSUME pc = "loaded", job[t].kind = "configure"
      PROVE  h \in begun' \/ q \in leaked' \/ queueOf'[h] = q \/ Doomed(q)'
  <2>1. CASE h \in begun \/ q \in leaked \/ Doomed(q)
    BY <1>1, <2>1, WebKeepsTasks
  <2>2. CASE queueOf[h] = q /\ queueOf'[h] # q
    <3>1. q # NoQueue /\ h = d /\ (Gone(d) \/ Asked(d))
      BY <2>2 DEF WebStep, Same, RowTypes
    <3>2. CASE Gone(d)
      BY <1>1, <2>2, <3>1, <3>2 DEF Gone, RowsFit, RowTypes
    <3>3. CASE Asked(d)
      BY <2>2, <3>1, <3>3, WebKeepsTasks DEF Asked
    <3> QED BY <3>1, <3>2, <3>3
  <2> QED BY <1>7, <2>1, <2>2 DEF HeldAs
<1>8. HeldAs(t, h, q)'
  BY <1>1, <1>2, <1>4, <1>5, <1>6, <1>7 DEF HeldAs
<1>9. \A u \in Tasks : Holds(u)' => u = t
  <2>1. \A u \in Tasks : Holds(u)' => Handles(u)
    BY WebKeepsTasks DEF Holds
  <2> QED BY <1>2, <2>1, OneHandler DEF Holds
<1> QED BY <1>1, <1>8, <1>9, HeldNext

LEMMA HeldThroughHandler ==
    ASSUME IInv, NEW t \in Tasks, Within(t)
    PROVE  HeldFits'
<1> USE IInvGives DEF IInv
<1>1. /\ UNCHANGED <<phase, job, queueOf, begun>> /\ Handles(t)
      /\ \A u \in Tasks : Handles(u)' => u = t
  BY WithinKeeps, OneHandler DEF queueVars, Handles
<1>2. ASSUME pc' \notin {"loaded", "added", "refreshing", "offline", "return"}
             \/ job[t].kind = "delete"
      PROVE  HeldFits'
  BY <1>1, <1>2 DEF HeldFits, Holds
<1>3. ASSUME NEW h \in Devices, NEW q \in Queues, HeldAs(t, h, q)', held'.of = h, held'.queue = q
      PROVE  HeldFits'
  BY <1>1, <1>3, HeldNext DEF Holds
<1>4. CASE Load(t)
  <2>1. CASE job[t].of = NoDevice
    BY <1>2, <1>4, <2>1 DEF Load, Saves
  <2>2. CASE job[t].of # NoDevice
    <3> PICK h \in Devices : h = job[t].of
      BY <2>2 DEF QueueFits, Jobs
    <3> PICK q \in Queues : q = queueOf[h]
      BY <2>2 DEF RowsFit, RowTypes
    <3>1. held' = [of |-> h, queue |-> q]
          /\ pc' = (IF job[t].kind = "refresh" THEN "refreshing" ELSE "loaded")
      BY <1>4, <2>2 DEF Load, Saves
    <3>2. \A d \in Devices \ {h} : queueOf[d] # q
      BY DEF RowsFit, RowTypes
    <3>3. HeldAs(t, h, q)'
      BY <1>1, <3>1, <3>2 DEF HeldAs
    <3> QED BY <1>3, <3>1, <3>3
  <2> QED BY <2>1, <2>2
<1>5. CASE DeleteQueue(t) \/ DeleteFails(t) \/ SaveOffline(t)
  BY <1>2, <1>5 DEF DeleteQueue, DeleteFails, SaveOffline, Running
<1>6. CASE AddQueue(t) \/ OpenQueue(t) \/ Command(t) \/ Refreshed(t) \/ CallFails(t)
  <2>1. /\ Holds(t) /\ held' = held /\ cups \in CupsTypes
        /\ pc \in {"loaded", "added", "refreshing"}
    BY <1>1, <1>6 DEF AddQueue, OpenQueue, Command, Refreshed, CallFails, Running, Holds,
       HandlersFit, TypeOK, CupsTypes
  <2> PICK h \in Devices, q \in Queues : held.of = h /\ held.queue = q /\ HeldAs(t, h, q)
    BY <2>1 DEF HeldFits
  <2>2. \A e : Waits(e)' <=> Waits(e)
    BY <1>1, TasksStay
  <2>3. job[t].of \in {h, NoDevice} /\ \A d \in Devices \ {h} : queueOf[d] = q => Waits(d)
    BY DEF HeldAs
  <2>4. CASE AddQueue(t)
    <3>1. pc' = "added" /\ cups' = [cups EXCEPT ![q].of = h]
      BY <2>4 DEF AddQueue
    <3>2. cups'[q].of = h
      BY <2>1, <3>1 DEF CupsTypes
    <3> QED BY <1>1, <1>3, <2>1, <2>2, <3>1, <3>2 DEF HeldAs
  <2>5. CASE OpenQueue(t)
    <3>1. /\ pc' = "refreshing" /\ cups'[q].of = h
      BY <2>1, <2>5, CommandOpens DEF OpenQueue, Running, HeldAs
    <3> QED BY <1>1, <1>3, <2>1, <2>2, <3>1 DEF HeldAs
  <2>6. CASE Command(t)
    <3>1. pc' = "refreshing" /\ job[t].kind # "configure"
      BY <2>6 DEF Command, Running, Commands
    <3> QED BY <1>1, <1>3, <2>1, <2>2, <3>1 DEF HeldAs
  <2>7. CASE Refreshed(t)
    <3>1. pc = "refreshing" /\ pc' = "return" /\ cups' = cups /\ ShownFits(h, q)'
      BY <2>7 DEF Refreshed, Set, RowTypes, ShownFits
    <3> QED BY <1>1, <1>3, <2>1, <2>2, <3>1 DEF HeldAs
  <2>8. CASE CallFails(t)
    <3>1. pc' \in {"raise", "offline"}
      BY <2>8 DEF CallFails
    <3> QED BY <1>1, <1>3, <2>1, <2>2, <3>1 DEF HeldAs
  <2> QED BY <1>6, <2>4, <2>5, <2>6, <2>7, <2>8
<1> QED BY <1>4, <1>5, <1>6 DEF Within

LEMMA HeldInductive ==
    ASSUME IInv, [Next]_vars
    PROVE  HeldFits'
<1>1. ASSUME pc' \in {"begin", "idle"} PROVE HeldFits'
  BY <1>1 DEF HeldFits, Holds
<1>2. ASSUME Quiet PROVE HeldFits'
  BY <1>2 DEF IInv, Quiet, queueVars, workerVars, history, HeldFits, HeldAs, Holds, Handles, Waits,
     Doomed, TasksOf, Live, ShownFits
<1>3. ASSUME NEW r \in Queues, CupsStops(r) PROVE HeldFits'
  <2>1. TypeOK
    BY DEF IInv
  <2>2. /\ UNCHANGED <<phase, job, queueOf, pc, held, begun, leaked>>
        /\ \A q \in Queues : cups'[q].of = cups[q].of
        /\ \A d \in Devices, q \in Queues : ShownFits(d, q) => ShownFits(d, q)'
    BY <1>3, <2>1, CupsStopsStep DEF rowVars
  <2> SUFFICES ASSUME NEW t \in Tasks, Holds(t)' PROVE HeldFits'
    BY DEF HeldFits
  <2>3. Holds(t) /\ \A u \in Tasks : Holds(u)' => u = t
    BY <2>2, OneHandler DEF Holds, Handles
  <2> PICK h \in Devices, q \in Queues : held.of = h /\ held.queue = q /\ HeldAs(t, h, q)
    BY <2>3 DEF IInv, HeldFits
  <2>4. (\A e : Waits(e)' <=> Waits(e)) /\ (Doomed(q)' <=> Doomed(q))
    BY <2>2, TasksStay
  <2>5. HeldAs(t, h, q)'
    BY <2>2, <2>4 DEF HeldAs
  <2> QED BY <2>2, <2>3, <2>5, HeldNext
<1> QED BY <1>1, <1>2, <1>3, HeldThroughWeb, HeldThroughHandler, StartTaskStarts, StopsEnds,
           StepKinds DEF Stops

\* A queue appears in CUPS by the hand of a configuration only, and the name it holds is
\* the name of its row, doomed by the edit that changed it, or known to be leaked.
LEMMA OrphansInductive ==
    ASSUME IInv, [Next]_vars
    PROVE  NoOrphanQueue' /\ DeletingFits'
<1> USE IInvGives DEF IInv
<1> DEFINE Rest == NoOrphanQueue' /\ DeletingFits'
<1>1. NoOrphanQueue <=> \A q \in Queues \ leaked : InCups(q) => q \notin FreeQueues \/ Doomed(q)
  BY DEF NoOrphanQueue, Doomed
<1>2. ASSUME \A q \in Queues \ leaked' :
               InCups(q)' => (\E d \in Devices : queueOf'[d] = q) \/ Doomed(q)',
             deleting' # NoDevice =>
               \A q \in Queues \ leaked' : queueOf'[deleting'] = q /\ InCups(q)' => Doomed(q)'
      PROVE  Rest
  <2>1. NoOrphanQueue'
    BY <1>2 DEF NoOrphanQueue, Doomed, FreeQueues
  <2>2. RowTypes'
    BY TypesInductive, PrintersAssumption DEF TypeOK, RowTypes
  <2>3. DeletingFits'
    BY <1>2, <2>2 DEF DeletingFits, RowTypes, Doomed, InCups
  <2> QED BY <2>1, <2>3
<1>3. /\ \A q \in Queues \ leaked :
           InCups(q) => (\E d \in Devices : queueOf[d] = q) \/ Doomed(q)
      /\ deleting # NoDevice =>
           \A q \in Queues \ leaked : queueOf[deleting] = q /\ InCups(q) => Doomed(q)
  BY <1>1 DEF DeletingFits, FreeQueues, RowTypes
<1>4. ASSUME NEW d \in Devices, WebStep(d) PROVE Rest
  <2>1. cups' = cups /\ leaked \subseteq leaked'
    BY <1>4 DEF WebStep
  <2>2. \A e \in Devices : Same(e) \/ (e = d /\ (Gone(d) \/ Asked(d)))
    BY <1>4 DEF WebStep
  <2>3. ASSUME NEW q \in Queues \ leaked', InCups(q)'
        PROVE  (\E e \in Devices : queueOf'[e] = q) \/ Doomed(q)'
    <3>1. q \in Queues \ leaked /\ InCups(q) /\ q # NoQueue
      BY <2>1, <2>3 DEF InCups, RowTypes
    <3>2. CASE Doomed(q)
      BY <1>4, <3>2, WebKeepsTasks
    <3>3. ASSUME NEW e \in Devices, queueOf[e] = q, Same(e)
          PROVE  \E c \in Devices : queueOf'[c] = q
      BY <3>3 DEF Same
    <3>4. ASSUME queueOf[d] = q, Gone(d) PROVE Doomed(q)'
      <4>1. deleting = d
        BY <2>3, <3>1, <3>4 DEF Gone
      <4> QED BY <1>3, <1>4, <3>1, <3>4, <4>1, WebKeepsTasks DEF RowTypes
    <3>5. ASSUME queueOf[d] = q, Asked(d) PROVE queueOf'[d] = q \/ Doomed(q)'
      BY <1>4, <3>1, <3>5, WebKeepsTasks DEF Asked
    <3> QED BY <1>3, <2>2, <3>1, <3>2, <3>3, <3>4, <3>5
  <2>4. ASSUME deleting' # NoDevice, NEW q \in Queues \ leaked', queueOf'[deleting'] = q, InCups(q)'
        PROVE  Doomed(q)'
    <3>1. q \in Queues \ leaked /\ InCups(q) /\ q # NoQueue
      BY <2>1, <2>4 DEF InCups, RowTypes
    <3> PICK e \in Devices : e = deleting'
      BY <2>4, TypesInductive DEF TypeOK
    <3>2. CASE deleting' = deleting /\ queueOf[e] = q
      BY <1>3, <1>4, <2>4, <3>1, <3>2, WebKeepsTasks
    <3>3. CASE deleting' = deleting /\ queueOf[e] # q
      <4>1. e = d /\ Asked(d)
        BY <2>2, <2>4, <3>1, <3>3 DEF Same, Gone
      <4>2. q \in FreeQueues
        BY <2>4, <3>3, <4>1 DEF Asked
      <4> QED BY <1>3, <1>4, <3>1, <4>2, WebKeepsTasks DEF FreeQueues
    <3>4. CASE deleting' # deleting
      <4>1. e = d /\ queueOf[d] = q /\ GetsDoomed(queueOf[d])
        BY <1>4, <2>4, <3>1, <3>4 DEF WebStep
      <4> QED BY <1>4, <4>1, WebKeepsTasks
    <3> QED BY <3>2, <3>3, <3>4
  <2> QED BY <1>2, <2>3, <2>4
\* The names stay, and no deletion is given up.
<1>5. ASSUME UNCHANGED <<queueOf, deleting>>, leaked \subseteq leaked',
             \A q \in Queues \ leaked' : (InCups(q)' => InCups(q)) /\ (Doomed(q) => Doomed(q)')
      PROVE  Rest
  BY <1>2, <1>3, <1>5
<1> HIDE DEF Rest
<1>6. ASSUME NEW t \in Tasks, StartTask(t) PROVE Rest
  <2>1. UNCHANGED <<queueOf, deleting, cups, leaked>>
    BY <1>6, StartTaskStarts DEF rowVars, requestVars, history
  <2> QED BY <1>5, <1>6, <2>1, StartKeepsTasks DEF InCups
<1>7. ASSUME Quiet PROVE Rest
  <2>1. UNCHANGED <<phase, job, queueOf, deleting, cups, leaked>>
    BY <1>7 DEF Quiet, queueVars, history
  <2> QED BY <1>5, <2>1, TasksStay DEF InCups
<1>8. ASSUME NEW t \in Tasks, Stops(t) PROVE Rest
  <2>1. UNCHANGED <<queueOf, deleting, cups>> /\ Handles(t)
    BY <1>8, StopsEnds DEF rowVars, requestVars
  <2>2. leaked \subseteq leaked'
    BY <1>8 DEF Stops, EndTask, WorkerDies, history
  <2>3. ASSUME NEW q \in Queues \ leaked', Doomed(q), ~ Doomed(q)' PROVE ~ InCups(q)
    <3>1. job[t] = Delete(q) /\ phase'[t] # "waiting"
      BY <1>8, <2>3, StopsKeepsTasks
    <3>2. job[t].kind = "delete" /\ job[t].queue = q /\ q # NoQueue
      BY <3>1 DEF Delete, RowTypes
    <3>3. EndTask(t)
      BY <1>8, <3>1, EndingPhases DEF Stops, WorkerDies
    <3>4. phase'[t] # "failed"
      BY <2>3, <3>2, <3>3 DEF EndTask
    <3>5. pc = "return"
      BY <3>1, <3>3, <3>4, EndingPhases DEF EndTask
    <3> QED BY <2>1, <3>2, <3>5 DEF HandlersFit
  <2> QED BY <1>2, <1>3, <2>1, <2>2, <2>3 DEF InCups
<1>9. ASSUME NEW t \in Tasks, Within(t) PROVE Rest
  <2>1. UNCHANGED <<phase, job, queueOf, deleting, begun>> /\ Handles(t) /\ cups \in CupsTypes
    BY <1>9, WithinKeeps DEF queueVars, TypeOK, CupsTypes
  <2>2. \A q : Doomed(q)' <=> Doomed(q)
    BY <2>1, TasksStay
  <2>3. CASE Load(t) \/ Refreshed(t) \/ CallFails(t) \/ SaveOffline(t) \/ DeleteFails(t)
    <3>1. UNCHANGED <<cups, leaked>>
      BY <2>3 DEF Load, Refreshed, CallFails, SaveOffline, DeleteFails, history
    <3> QED BY <1>5, <2>1, <2>2, <3>1 DEF InCups
  <2>4. CASE OpenQueue(t) \/ Command(t)
    <3>1. held.queue \in Queues /\ leaked' = leaked
      BY <2>1, <2>4 DEF OpenQueue, Command, Running, HeldFits, Holds, Commands, history
    <3>2. \A q \in Queues : cups'[q].of = cups[q].of
      BY <2>1, <2>4, <3>1, CommandOpens
    <3> QED BY <1>5, <2>1, <2>2, <3>1, <3>2 DEF InCups
  <2>5. CASE DeleteQueue(t)
    <3>1. cups' = [cups EXCEPT ![job[t].queue] = NoneInCups] /\ leaked' = leaked \ {job[t].queue}
      BY <2>5 DEF DeleteQueue, Set
    <3>2. \A q \in Queues : q = job[t].queue => ~ InCups(q)'
      BY <2>1, <3>1 DEF InCups, NoneInCups, CupsTypes
    <3>3. \A q \in Queues : q # job[t].queue => cups'[q] = cups[q]
      BY <2>1, <3>1 DEF CupsTypes
    <3> QED BY <1>2, <1>3, <2>1, <2>2, <3>1, <3>2, <3>3 DEF InCups
  <2>6. CASE AddQueue(t)
    <3>1. Holds(t) /\ pc = "loaded" /\ job[t].kind = "configure"
      BY <2>1, <2>6 DEF AddQueue, Running, Holds
    <3> PICK h \in Devices, n \in Queues : held.of = h /\ held.queue = n /\ HeldAs(t, h, n)
      BY <3>1 DEF HeldFits
    <3>2. leaked' = IF h \in begun THEN leaked \cup {n} ELSE leaked
      BY <2>6 DEF AddQueue
    <3>3. \A q \in Queues : q # n => cups'[q] = cups[q]
      <4>1. cups' = [cups EXCEPT ![n].of = h]
        BY <2>6 DEF AddQueue
      <4> QED BY <2>1, <4>1 DEF CupsTypes
    <3>4. n \notin leaked' => queueOf[h] = n \/ Doomed(n)
      BY <3>1, <3>2 DEF HeldAs
    <3>5. deleting = h => n \in leaked'
      BY <3>2 DEF RowsFit, RowTypes
    <3>6. n \notin leaked' /\ deleting # NoDevice /\ queueOf[deleting] = n => Doomed(n)
      BY <3>4, <3>5 DEF RowsFit, RowTypes
    <3> QED BY <1>2, <1>3, <2>1, <2>2, <3>2, <3>3, <3>4, <3>6 DEF InCups
  <2> QED BY <1>9, <2>3, <2>4, <2>5, <2>6 DEF Within
<1>10. ASSUME NEW r \in Queues, CupsStops(r) PROVE Rest
  <2>1. UNCHANGED <<phase, job, queueOf, deleting, leaked>>
        /\ \A q \in Queues : cups'[q].of = cups[q].of
    BY <1>10, CupsStopsStep DEF rowVars, requestVars
  <2> QED BY <1>5, <2>1, TasksStay DEF InCups
<1>11. Rest
  BY <1>4, <1>6, <1>7, <1>8, <1>9, <1>10, StepKinds DEF Stops
<1> QED BY <1>11 DEF Rest

\* A task is executed before those that came after it have begun, so a deletion that is
\* tried for the first time comes before the configuration of the queue's next owner.
LEMMA DeletionsInductive ==
    ASSUME IInv, [Next]_vars
    PROVE  DeletionsFirst'
<1> USE IInvGives DEF IInv
<1>1. ASSUME NEW d \in Devices, WebStep(d), NEW t \in Tasks, NEW e \in Devices,
             queueOf'[e] # NoQueue, e \notin begun', job'[t].kind = "delete",
             job'[t].queue = queueOf'[e], Untried(t)'
      PROVE  Follows(t, e)'
  <2>1. tries' = tries /\ begun \subseteq begun' /\ \A u \in Tasks : OldTask(d, u) \/ NewTask(d, u)
    BY <1>1 DEF WebStep
  <2>2. Same(e) \/ (e = d /\ Asked(d))
    BY <1>1 DEF WebStep, Gone
  <2>3. CASE OldTask(d, t)
    <3>1. /\ phase'[t] = phase[t] /\ Untried(t) /\ phase[t] # "absent"
          /\ job[t].kind = "delete" /\ job[t].queue = job'[t].queue
      BY <1>1, <2>1, <2>3 DEF OldTask, Untried, Handles, Lost
    <3>2. CASE Same(e)
      <4> PICK u \in TasksOf(e) :
            u > t /\ phase[u] = "waiting" /\ tries[u] = 0 /\ job[u].kind = "configure"
        BY <1>1, <2>1, <3>1, <3>2 DEF DeletionsFirst, Follows, Same
      <4>1. OldTask(d, u) /\ u \in Tasks /\ job[u].of = e
        BY <2>1 DEF NewTask, TasksOf
      <4>2. phase'[u] = phase[u] /\ job'[u] = job[u]
        BY <1>1, <4>1 DEF OldTask
      <4> QED BY <2>1, <4>1, <4>2 DEF Follows, TasksOf
    <3>3. CASE e = d /\ Asked(d)
      <4> PICK u \in Tasks : Adds(u, Configure(d)) /\ IsLast(u)
        BY <3>3 DEF Asked
      <4>1. phase[u] = "absent" /\ phase'[u] = "waiting" /\ job'[u] = Configure(d)
        BY DEF Adds
      <4>2. tries[u] = 0
        BY <4>1 DEF QueueOK, Unsubmitted
      <4>3. t <= u /\ t # u
        BY <3>1, <4>1 DEF IsLast
      <4>4. u > t
        BY <4>3 DEF Tasks
      <4>5. job'[u].of = d /\ job'[u].kind = "configure"
        BY <4>1 DEF Configure
      <4> QED BY <2>1, <3>3, <4>1, <4>2, <4>4, <4>5 DEF Follows, TasksOf
    <3> QED BY <2>2, <3>2, <3>3
  <2>4. CASE NewTask(d, t)
    <3>1. queueOf[d] # NoQueue /\ queueOf'[e] = queueOf[d] /\ (d \in begun' \/ queueOf'[d] # queueOf[d])
      BY <1>1, <2>4 DEF NewTask, Delete
    <3>2. e # d /\ Same(e)
      BY <1>1, <2>2, <3>1
    <3> QED BY <3>1, <3>2 DEF RowsFit, Same
  <2> QED BY <2>1, <2>3, <2>4
<1>2. ASSUME NEW d \in Devices, WebStep(d) PROVE DeletionsFirst'
  BY <1>1, <1>2 DEF DeletionsFirst
<1>3. CASE UNCHANGED <<phase, tries, job, queueOf, begun>>
  BY <1>3 DEF DeletionsFirst, Untried, Follows, TasksOf, Handles
<1>4. ASSUME NEW s \in Tasks, StartTask(s) PROVE DeletionsFirst'
  <2>1. /\ UNCHANGED <<job, queueOf, begun>>
        /\ phase[s] = "waiting" /\ phase'[s] = "executing" /\ tries'[s] = tries[s] + 1
        /\ \A u \in Tasks : u # s => UNCHANGED <<phase[u], tries[u]>>
        /\ \A u \in Tasks : ~ Handles(u)
        /\ Overtakes(s) /\ tries[s] \in Nat
    BY <1>4, StartTaskStarts DEF rowVars, history, QueueOK, QueueTypeOK
  <2>2. \A t \in Tasks : Untried(t)' => Untried(t) /\ phase[t] = "waiting" /\ tries[t] = 0
    BY <2>1 DEF Untried, Handles
  <2>3. ASSUME NEW t \in Tasks, NEW d \in Devices, Untried(t)', Follows(t, d) PROVE Follows(t, d)'
    <3> PICK u \in TasksOf(d) :
          u > t /\ phase[u] = "waiting" /\ tries[u] = 0 /\ job[u].kind = "configure"
      BY <2>3 DEF Follows
    <3>1. u # s
      <4>1. u = s => t \in 1..(s - 1)
        BY DEF TasksOf, Tasks
      <4> QED BY <2>1, <2>2, <2>3, <4>1 DEF Overtakes
    <3> QED BY <2>1, <3>1 DEF Follows, TasksOf
  <2> QED BY <2>1, <2>2, <2>3 DEF DeletionsFirst
<1>5. ASSUME NEW s \in Tasks, Stops(s) PROVE DeletionsFirst'
  <2>1. /\ UNCHANGED <<tries, queueOf, begun>> /\ Handles(s) /\ phase'[s] # "executing"
        /\ phase'[s] = "waiting" => tries[s] > 0
        /\ \A u \in Tasks \ {s} : Keeps(u)
    BY <1>5, StopsEnds DEF rowVars
  <2>2. ~ Untried(s)'
    BY <2>1 DEF Untried, Handles, QueueOK, QueueTypeOK
  <2>3. \A t \in Tasks \ {s} : Untried(t)' => Untried(t) /\ job'[t] = job[t]
    BY <2>1 DEF Untried, Handles, Keeps
  <2>4. \A t \in Tasks, d \in Devices : Follows(t, d) => Follows(t, d)'
    BY <2>1 DEF Follows, TasksOf, Handles, Keeps
  <2> QED BY <2>1, <2>2, <2>3, <2>4 DEF DeletionsFirst
<1>6. ASSUME NEW t \in Tasks, Within(t) PROVE DeletionsFirst'
  BY <1>3, <1>6, WithinKeeps DEF queueVars
<1>7. CASE Quiet
  BY <1>3, <1>7 DEF Quiet, queueVars, history
<1>8. ASSUME NEW q \in Queues, CupsStops(q) PROVE DeletionsFirst'
  BY <1>3, <1>8, CupsStopsStep DEF rowVars
<1> QED BY <1>2, <1>4, <1>5, <1>6, <1>7, <1>8, StepKinds DEF Stops

\* The handler of a printer's task works for that printer and on that printer's queue, or
\* on rows that are going to be configured again.
LEMMA HandlerCovers ==
    ASSUME IInv, NEW t \in Tasks, NEW h \in Devices, NEW n \in Queues,
           Holds(t), HeldAs(t, h, n),
           NEW kinds, {"configure", job[t].kind} \subseteq kinds,
           NEW e \in Devices, queueOf[e] # NoQueue, ~ ToCome(e, kinds)
    PROVE  e # h /\ queueOf[e] # n
<1>1. ~ Waits(e)
  BY DEF Waits, ToCome, Live
<1>2. job[t].of # e
  BY DEF Holds, Handles, ToCome, TasksOf, Live
<1> QED BY <1>1, <1>2 DEF HeldAs

\* What is left when a task of e ended for good.
LEMMA DoneFor ==
    ASSUME IInv, NEW t \in Tasks, Stops(t),
           NEW kinds, "configure" \in kinds, "delete" \notin kinds,
           NEW e \in Devices, queueOf[e] # NoQueue, ToCome(e, kinds), ~ ToCome(e, kinds)'
    PROVE  /\ EndTask(t) /\ job[t].of = e /\ job[t].kind \in kinds
           /\ ~ Waits(e)
           /\ \/ /\ pc = "return" /\ ShownFits(e, queueOf[e])
                 /\ job[t].kind = "configure" => cups[queueOf[e]].of = e
              \/ pc = "raise" /\ phase'[t] = "failed"
<1> USE IInvGives DEF IInv
<1>1. job[t].of = e /\ job[t].kind \in kinds /\ phase'[t] # "waiting" /\ Handles(t)
  BY StopsKeepsTasks, StopsEnds
<1>2. EndTask(t)
  BY <1>1, EndingPhases DEF Stops, WorkerDies
<1>3. ~ Waits(e)
  <2>1. Waits(e)' => ToCome(e, kinds)'
    BY DEF Waits, ToCome, Live
  <2> QED BY <2>1, StopsKeepsTasks
<1>4. CASE pc = "return"
  <2>1. Holds(t)
    BY <1>1, <1>4 DEF Holds
  <2>2. HeldAs(t, held.of, held.queue) /\ held.of = e
    BY <1>1, <2>1 DEF HeldFits, HeldAs, RowTypes
  <2> QED BY <1>1, <1>2, <1>3, <1>4, <2>2 DEF HeldAs
<1>5. CASE pc # "return"
  BY <1>1, <1>2, <1>3, <1>5, EndingPhases DEF EndTask
<1> QED BY <1>4, <1>5

\* What the handler of a configuration is about to change is still to be configured.
LEMMA ServedInductive ==
    ASSUME IInv, [Next]_vars
    PROVE  Served'
<1> USE IInvGives DEF IInv
<1> DEFINE Is(e) == \/ cups[queueOf[e]].of = e
                    \/ ~ InCups(queueOf[e]) /\ queueOf[e] \in late
                    \/ e \in unconfigured /\ (InCups(queueOf[e]) \/ status[e] # "online")
<1> SUFFICES ASSUME NEW e \in Devices, queueOf'[e] # NoQueue, ~ ToCome(e, {"configure"})'
             PROVE  Is(e)'
  BY DEF Served, InCups
<1>1. queueOf[e] # NoQueue /\ ~ ToCome(e, {"configure"}) => Is(e)
  BY DEF Served
<1>2. ASSUME NEW d \in Devices, WebStep(d) PROVE Is(e)'
  <2>1. UNCHANGED <<cups, late>> /\ Same(e) /\ ~ ToCome(e, {"configure"})
    BY <1>2, WebKeepsTasks DEF WebStep, Gone
  <2> QED BY <1>1, <2>1 DEF Same, InCups
<1>3. ASSUME UNCHANGED <<queueOf, status, cups, late>>, unconfigured \subseteq unconfigured',
             ~ ToCome(e, {"configure"})
      PROVE  Is(e)'
  BY <1>1, <1>3 DEF InCups
<1>4. ASSUME NEW t \in Tasks, StartTask(t) PROVE Is(e)'
  BY <1>3, <1>4, StartTaskStarts, StartKeepsTasks DEF rowVars, history
<1>5. ASSUME NEW t \in Tasks, Stops(t) PROVE Is(e)'
  <2>1. UNCHANGED <<queueOf, status, cups, late>> /\ unconfigured \subseteq unconfigured'
    BY <1>5, StopsEnds DEF Stops, EndTask, WorkerDies, history, rowVars
  <2>2. CASE ToCome(e, {"configure"})
    <3>1. /\ EndTask(t) /\ job[t].of = e /\ job[t].kind = "configure" /\ ~ Waits(e)
          /\ \/ cups[queueOf[e]].of = e
             \/ pc = "raise" /\ phase'[t] = "failed"
      BY <1>5, <2>1, <2>2, DoneFor
    <3>2. CASE pc = "raise" /\ phase'[t] = "failed"
      <4>1. status[e] # "online"
        BY <1>5, <3>1, <3>2, StopsEnds DEF HandlersFit, RowTypes
      <4>2. e \in unconfigured'
        BY <3>1, <3>2 DEF EndTask, RowTypes
      <4> QED BY <2>1, <4>1, <4>2
    <3> QED BY <2>1, <3>1, <3>2
  <2> QED BY <1>3, <2>1, <2>2
<1>6. ASSUME Quiet PROVE Is(e)'
  <2>1. UNCHANGED <<phase, job, queueOf, status, cups, late, unconfigured>>
    BY <1>6 DEF Quiet, queueVars, history
  <2> QED BY <1>3, <2>1, TasksStay
<1>7. ASSUME NEW t \in Tasks, Within(t) PROVE Is(e)'
  <2>1. UNCHANGED <<phase, job, queueOf>> /\ Handles(t) /\ cups \in CupsTypes
        /\ ~ ToCome(e, {"configure"})
    BY <1>7, WithinKeeps, TasksStay DEF queueVars, TypeOK, CupsTypes
  <2>2. Is(e) /\ queueOf[e] \in Queues
    BY <1>1, <2>1 DEF RowTypes
  <2>3. CASE Load(t) \/ CallFails(t) \/ DeleteFails(t)
    <3>1. UNCHANGED <<status, cups, late, unconfigured>>
      BY <2>3 DEF Load, CallFails, DeleteFails, rowVars, history
    <3> QED BY <1>3, <2>1, <3>1
  <2>4. CASE SaveOffline(t)
    <3>1. UNCHANGED <<cups, late, unconfigured>> /\ (status'[e] = status[e] \/ status'[e] = "offline")
      BY <2>4 DEF SaveOffline, Set, RowTypes, history
    <3> QED BY <2>1, <2>2, <3>1 DEF InCups
  <2>5. CASE DeleteQueue(t)
    <3>1. /\ cups' = [cups EXCEPT ![job[t].queue] = NoneInCups]
          /\ UNCHANGED <<status, unconfigured>> /\ late \subseteq late'
          /\ job[t].kind = "delete"
      BY <2>5 DEF DeleteQueue, Set, Running, rowVars
    <3>2. CASE job[t].queue # queueOf[e]
      <4>1. cups'[queueOf[e]] = cups[queueOf[e]]
        BY <2>1, <2>2, <3>1, <3>2 DEF CupsTypes
      <4> QED BY <2>1, <2>2, <3>1, <4>1 DEF InCups
    <3>3. CASE job[t].queue = queueOf[e]
      <4>1. ~ InCups(queueOf[e])'
        BY <2>1, <2>2, <3>1, <3>3 DEF CupsTypes, InCups, NoneInCups
      <4>2. tries[t] > 1 \/ e \in begun
        <5>1. tries[t] \in Nat /\ tries[t] > 0
          BY <2>1 DEF QueueOK, QueueTypeOK, StartedOnce, Handles
        <5>2. Follows(t, e) => ToCome(e, {"configure"})
          BY DEF Follows, ToCome, Live
        <5>3. tries[t] = 1 => Untried(t)
          BY <2>1 DEF Untried
        <5> QED BY <2>1, <3>1, <3>3, <5>1, <5>2, <5>3 DEF DeletionsFirst
      <4>3. queueOf[e] \in late'
        BY <2>5, <3>3, <4>2 DEF DeleteQueue
      <4> QED BY <2>1, <4>1, <4>3
    <3> QED BY <3>2, <3>3
  <2>6. CASE AddQueue(t) \/ OpenQueue(t) \/ Command(t) \/ Refreshed(t)
    <3>1. Holds(t)
      BY <2>1, <2>6 DEF AddQueue, OpenQueue, Command, Refreshed, Running, Holds, Commands, HandlersFit
    <3> PICK h \in Devices, n \in Queues : held.of = h /\ held.queue = n /\ HeldAs(t, h, n)
      BY <3>1 DEF HeldFits
    <3>2. CASE AddQueue(t)
      <4>1. job[t].kind = "configure"
        BY <3>2 DEF AddQueue, Running
      <4>2. e # h /\ queueOf[e] # n
        BY <2>1, <3>1, <4>1, HandlerCovers
      <4>3. /\ cups' = [cups EXCEPT ![n].of = h] /\ unconfigured' = unconfigured \ {h}
            /\ late' = late \ {n} /\ status' = status
        BY <3>2 DEF AddQueue, rowVars
      <4>4. cups'[queueOf[e]] = cups[queueOf[e]]
        BY <2>1, <2>2, <4>2, <4>3 DEF CupsTypes
      <4> QED BY <2>1, <2>2, <4>2, <4>3, <4>4 DEF InCups
    <3>3. CASE OpenQueue(t) \/ Command(t)
      <4>1. UNCHANGED <<status, late, unconfigured>>
        BY <3>3 DEF OpenQueue, Command, rowVars, history
      <4>2. cups'[queueOf[e]].of = cups[queueOf[e]].of
        BY <2>1, <2>2, <3>3, CommandOpens
      <4> QED BY <2>1, <2>2, <4>1, <4>2 DEF InCups
    <3>4. CASE Refreshed(t)
      <4>1. /\ UNCHANGED <<cups, late, unconfigured>> /\ InCups(n)
            /\ e # h => status'[e] = status[e]
        BY <3>4 DEF Refreshed, Set, RowTypes
      <4>2. e = h => InCups(queueOf[e])
        <5>1. ~ Waits(e)
          BY <2>1 DEF Waits, ToCome, Live
        <5> QED BY <2>1, <4>1, <5>1 DEF HeldAs
      <4> QED BY <2>1, <2>2, <4>1, <4>2 DEF InCups
    <3> QED BY <2>6, <3>2, <3>3, <3>4
  <2> QED BY <1>7, <2>3, <2>4, <2>5, <2>6 DEF Within
<1>8. ASSUME NEW r \in Queues, CupsStops(r) PROVE Is(e)'
  <2>1. UNCHANGED <<phase, job, queueOf, status, late, unconfigured>>
        /\ \A q \in Queues : cups'[q].of = cups[q].of
    BY <1>8, CupsStopsStep DEF rowVars
  <2>2. Is(e) /\ queueOf[e] \in Queues
    BY <1>1, <2>1, TasksStay DEF RowTypes
  <2> QED BY <2>1, <2>2 DEF InCups
<1> HIDE DEF Is
<1> QED BY <1>2, <1>4, <1>5, <1>6, <1>7, <1>8, StepKinds DEF Stops

\* Only the handlers of a printer's own tasks open its queue and refresh its row, and they
\* alone and cupsd close it.
Reads == {"configure", "refresh"} \cup Commands

LEMMA ShownInductive ==
    ASSUME IInv, [Next]_vars
    PROVE  ShownIsCups'
<1> USE IInvGives DEF IInv
<1> DEFINE Is(e) == ShownFits(e, queueOf[e])
<1> SUFFICES ASSUME NEW e \in Devices, queueOf'[e] # NoQueue, cups'[queueOf'[e]].of = e,
                    ~ ToCome(e, Reads)', e \notin unseen'
             PROVE  Is(e)'
  BY DEF ShownIsCups, Reads
<1>1. queueOf[e] # NoQueue /\ cups[queueOf[e]].of = e /\ ~ ToCome(e, Reads) /\ e \notin unseen => Is(e)
  BY DEF ShownIsCups, Reads
<1>2. "configure" \in Reads /\ "delete" \notin Reads
  BY DEF Reads, Commands
<1>3. ASSUME NEW d \in Devices, WebStep(d) PROVE Is(e)'
  <2>1. ToCome(e, {"configure"})' => ToCome(e, Reads)'
    BY <1>2 DEF ToCome
  <2>2. UNCHANGED <<cups, stopped>> /\ Same(e) /\ ~ ToCome(e, Reads)
    BY <1>3, <2>1, WebKeepsTasks DEF WebStep, Gone
  <2> QED BY <1>1, <2>2 DEF Same, ShownFits
<1>4. ASSUME UNCHANGED <<queueOf, shown, cups, stopped>>, unseen \subseteq unseen', ~ ToCome(e, Reads)
      PROVE  Is(e)'
  BY <1>1, <1>4 DEF ShownFits
<1>5. ASSUME NEW t \in Tasks, StartTask(t) PROVE Is(e)'
  BY <1>4, <1>5, StartTaskStarts, StartKeepsTasks DEF rowVars, history
<1>6. ASSUME NEW t \in Tasks, Stops(t) PROVE Is(e)'
  <2>1. UNCHANGED <<queueOf, shown, cups, stopped>> /\ unseen \subseteq unseen'
    BY <1>6, StopsEnds DEF Stops, EndTask, WorkerDies, history, rowVars
  <2>2. CASE ToCome(e, Reads)
    <3>1. /\ EndTask(t) /\ job[t].of = e
          /\ Is(e) \/ phase'[t] = "failed"
      BY <1>2, <1>6, <2>1, <2>2, DoneFor
    <3>2. phase'[t] = "failed" => e \in unseen'
      BY <3>1 DEF EndTask, RowTypes
    <3> QED BY <2>1, <3>1, <3>2 DEF ShownFits
  <2> QED BY <1>4, <2>1, <2>2
<1>7. ASSUME Quiet PROVE Is(e)'
  <2>1. UNCHANGED <<phase, job, queueOf, shown, cups, stopped, unseen>>
    BY <1>7 DEF Quiet, queueVars, history
  <2> QED BY <1>4, <2>1, TasksStay
<1>8. ASSUME NEW t \in Tasks, Within(t) PROVE Is(e)'
  <2>1. UNCHANGED <<phase, job, queueOf>> /\ Handles(t) /\ cups \in CupsTypes
        /\ ~ ToCome(e, Reads) /\ queueOf[e] \in Queues
    BY <1>8, WithinKeeps, TasksStay DEF queueVars, TypeOK, CupsTypes
  <2>2. CASE Load(t) \/ CallFails(t) \/ SaveOffline(t) \/ DeleteFails(t)
    <3>1. UNCHANGED <<shown, cups, stopped, unseen>>
      BY <2>2 DEF Load, CallFails, SaveOffline, DeleteFails, rowVars, history
    <3> QED BY <1>4, <2>1, <3>1
  <2>3. CASE DeleteQueue(t)
    <3>1. /\ cups' = [cups EXCEPT ![job[t].queue] = NoneInCups] /\ UNCHANGED <<shown, unseen>>
          /\ stopped' = stopped \ {job[t].queue}
      BY <2>3 DEF DeleteQueue, Set, rowVars
    <3>2. job[t].queue # queueOf[e]
      BY <2>1, <3>1 DEF CupsTypes, NoneInCups, RowTypes
    <3>3. cups'[queueOf[e]] = cups[queueOf[e]]
      BY <2>1, <3>1, <3>2 DEF CupsTypes
    <3> QED BY <1>1, <2>1, <3>1, <3>2, <3>3 DEF ShownFits
  <2>4. CASE AddQueue(t) \/ OpenQueue(t) \/ Command(t) \/ Refreshed(t)
    <3>1. Holds(t) /\ job[t].kind \in Reads
      BY <2>1, <2>4
         DEF AddQueue, OpenQueue, Command, Refreshed, Running, Holds, Commands, HandlersFit,
             Reads, QueueFits, Jobs
    <3> PICK h \in Devices, n \in Queues : held.of = h /\ held.queue = n /\ HeldAs(t, h, n)
      BY <3>1 DEF HeldFits
    <3>2. e # h /\ queueOf[e] # n
      BY <1>2, <2>1, <3>1, HandlerCovers
    <3>3. cups'[queueOf[e]] = cups[queueOf[e]]
      <4>1. CASE AddQueue(t)
        <5>1. cups' = [cups EXCEPT ![n].of = h]
          BY <4>1 DEF AddQueue
        <5> QED BY <2>1, <3>2, <5>1 DEF CupsTypes
      <4>2. CASE OpenQueue(t) \/ Command(t)
        BY <2>1, <3>2, <4>2, CommandOpens
      <4>3. CASE Refreshed(t)
        BY <4>3 DEF Refreshed
      <4> QED BY <2>4, <4>1, <4>2, <4>3
    <3>4. CASE Refreshed(t)
      <4>1. /\ shown'[e] = shown[e] /\ (e \in unseen' <=> e \in unseen)
            /\ stopped' = stopped \ {n}
        BY <3>2, <3>4 DEF Refreshed, Set, RowTypes
      <4> QED BY <1>1, <2>1, <3>2, <3>3, <4>1 DEF ShownFits
    <3>5. CASE AddQueue(t) \/ OpenQueue(t) \/ Command(t)
      <4>1. UNCHANGED <<shown, unseen>> /\ stopped' \in {stopped, stopped \ {n}}
        BY <3>5 DEF AddQueue, OpenQueue, Command, rowVars
      <4> QED BY <1>1, <2>1, <3>2, <3>3, <4>1 DEF ShownFits
    <3> QED BY <2>4, <3>4, <3>5
  <2> QED BY <1>8, <2>2, <2>3, <2>4 DEF Within
<1>9. ASSUME NEW r \in Queues, CupsStops(r) PROVE Is(e)'
  <2>1. /\ UNCHANGED <<phase, job, queueOf, unseen>>
        /\ \A q \in Queues : cups'[q].of = cups[q].of
        /\ \A d \in Devices, q \in Queues : ShownFits(d, q) => ShownFits(d, q)'
    BY <1>9, CupsStopsStep DEF rowVars
  <2> PICK q \in Queues : q = queueOf[e]
    BY <2>1 DEF RowTypes
  <2>2. ShownFits(e, q)
    BY <1>1, <2>1, TasksStay
  <2>3. ShownFits(e, q)'
    BY <2>1, <2>2
  <2> QED BY <2>1, <2>3 DEF ShownFits
<1> HIDE DEF Is
<1> QED BY <1>3, <1>5, <1>6, <1>7, <1>8, <1>9, StepKinds DEF Stops
-----------------------------------------------------------------------------
\* The owner of a queue's name is the device that has it.
LEMMA OwnersAre ==
    ASSUME Init
    PROVE  /\ \A q \in Queues : OwnerOf(q) \in Devices \cup {NoDevice}
           /\ \A d \in Devices : queueOf[d] # NoQueue => OwnerOf(queueOf[d]) = d
           /\ \A q \in Queues \cap FreeQueues : OwnerOf(q) = NoDevice
<1>1. \A q \in FreeQueues : OwnerOf(q) = NoDevice
  BY DEF OwnerOf
<1>2. ASSUME NEW q \in Queues, q \notin FreeQueues
      PROVE  OwnerOf(q) \in Devices /\ queueOf[OwnerOf(q)] = q
  BY <1>2 DEF OwnerOf, FreeQueues
<1>3. ASSUME NEW d \in Devices, queueOf[d] # NoQueue
      PROVE  queueOf[d] \in Queues /\ queueOf[d] \notin FreeQueues
  BY <1>3 DEF FreeQueues, Init
<1>4. \A c, d \in Devices : c # d /\ queueOf[c] # NoQueue => queueOf[c] # queueOf[d]
  BY DEF Init
<1> QED BY <1>1, <1>2, <1>3, <1>4, PrintersAssumption

LEMMA Starts == Init => IInv
<1> SUFFICES ASSUME Init PROVE IInv
  OBVIOUS
<1> USE PrintersAssumption DEF Init
<1> DEFINE known == {d \in Devices : queueOf[d] # NoQueue}
<1>1. QueueOK
  BY QueueStarts
<1>2. \A t \in Tasks : phase[t] = "absent" /\ ~ Live(t) /\ ~ Handles(t)
  BY DEF QueueInit, Live, Handles
<1>3. \A t \in Tasks : job[t] = NoJob /\ job[t].of = NoDevice
  BY DEF NoJob
<1>4. /\ \A d \in known : cups[queueOf[d]] = [of |-> d, open |-> TRUE]
      /\ \A q \in Queues \cap FreeQueues : ~ InCups(q)
  BY OwnersAre DEF InCups
<1>5. TypeOK
  <2>1. job \in [Tasks -> Jobs]
    BY JobsAre
  <2>2. /\ NoEdit \in [of : Devices \cup {NoDevice}, status : {"unknown", "online", "offline"}]
        /\ NoRow \in [of : Devices \cup {NoDevice}, queue : Queues \cup {NoQueue}]
    BY DEF NoEdit, NoRow
  <2>3. cups \in CupsTypes
    <3>1. \A q \in Queues : [of |-> OwnerOf(q), open |-> OwnerOf(q) \in known]
                              \in [of : Devices \cup {NoDevice}, open : BOOLEAN]
      BY OwnersAre
    <3> QED BY <3>1 DEF CupsTypes
  <2>4. RowTypes
    BY DEF RowTypes
  <2> QED BY <2>1, <2>2, <2>3, <2>4, TypesSplit DEF RestTypes, CupsTypes
<1>6. InRank
  <2>1. 0 \in 0..MaxTasks /\ \A t \in Tasks : t > 0
    BY DEF Tasks
  <2> QED BY <1>2, <2>1 DEF InRank
<1>7. RowsFit
  BY <1>2, <1>3 DEF RowsFit
<1>8. HandlersFit /\ HeldFits /\ DeletingFits
  BY <1>2 DEF HandlersFit, HeldFits, Holds, DeletingFits
<1>9. DeletionsFirst
  BY <1>2 DEF DeletionsFirst, Untried, Handles
<1>10. Served /\ ShownIsCups
  BY <1>4 DEF Served, ShownIsCups, ShownFits
<1>11. NoOrphanQueue
  BY <1>4 DEF NoOrphanQueue
<1> QED BY <1>1, <1>5, <1>6, <1>7, <1>8, <1>9, <1>10, <1>11 DEF IInv

\* The inductive invariant: the three properties below need to know what each task and
\* the handler's copies of rows refer to, and which tasks run before which.
THEOREM Inductive == Spec => []IInv
<1>1. IInv /\ [Next]_vars => IInv'
  <2> SUFFICES ASSUME IInv, [Next]_vars PROVE IInv'
    OBVIOUS
  <2>1. QueueOK' /\ InRank' /\ TypeOK'
    BY QueueInductive, TypesInductive DEF QueueFits
  <2>2. RowsFit' /\ HandlersFit' /\ HeldFits'
    BY RowsInductive, HandlersInductive, HeldInductive
  <2>3. DeletingFits' /\ DeletionsFirst' /\ NoOrphanQueue'
    BY OrphansInductive, DeletionsInductive
  <2>4. Served' /\ ShownIsCups'
    BY ServedInductive, ShownInductive
  <2> QED BY <2>1, <2>2, <2>3, <2>4 DEF IInv
<1> QED BY Starts, <1>1, PTL DEF Spec

\* Rows, tasks, requests and queues hold values of their kinds.
THEOREM TypeCorrect == Spec => []TypeOK
<1>1. IInv => TypeOK
  BY DEF IInv
<1> QED BY Inductive, <1>1, PTL

\* A printer that shows as online, with no configuration to come, has its queue in CUPS and
\* that queue prints to it, or OnlineIsServed names what took it away.
THEOREM OnlinePrinterIsServed == Spec => []OnlineIsServed
<1>1. IInv => OnlineIsServed
  BY DEF IInv, Served, OnlineIsServed
<1> QED BY Inductive, <1>1, PTL

\* Whatever administrators rename and delete, a queue in CUPS is some printer's, is going
\* to be deleted, or is one of those that nothing was going to delete.
THEOREM NoQueueIsOrphaned == Spec => []NoOrphanQueue
<1>1. IInv => NoOrphanQueue
  BY DEF IInv
<1> QED BY Inductive, <1>1, PTL

\* Once the tasks of a printer are done and none was given up after it changed the queue, its
\* row shows whether its queue is open, unless cupsd stopped the queue since a task last
\* opened, closed or showed it: the row then shows it as open.
THEOREM ShowsWhatCupsHas == Spec => []ShownIsCups
<1>1. IInv => ShownIsCups
  BY DEF IInv
<1> QED BY Inductive, <1>1, PTL

\* The tasks of one transaction are submitted together.
LEMMA EnqueueAllSubmits ==
    ASSUME NEW list, NEW lost, EnqueueAll(list, lost) PROVE QueueNext
<1> PICK new \in SUBSET Tasks : SubmitAll(new)
  BY DEF EnqueueAll
<1> QED BY DEF QueueNext

\* Every step submits the tasks of one transaction together, or starts or ends one, as the
\* abstract queue does, or leaves the queue alone.
THEOREM PrintersKeepToQueue == Spec => QueueSpec
<1>1. Init => QueueInit
  BY DEF Init
<1>2. [Next]_vars => [QueueNext]_queueVars
  <2> SUFFICES ASSUME [Next]_vars PROVE QueueNext \/ UNCHANGED queueVars
    OBVIOUS
  <2>1. ASSUME NEW d \in Devices,
               \/ \E q \in Queues : CreateDevice(d, q) \/ EditSave(d, q)
               \/ \E kind \in Requests : Request(d, kind)
               \/ EditRemoves(d) \/ DeleteEnqueue(d)
        PROVE  QueueNext \/ UNCHANGED queueVars
    BY <2>1, EnqueueAllSubmits
       DEF CreateDevice, EditSave, Request, EditRemoves, DeleteEnqueue, RemoveEndpoint, Enqueue
  <2>2. ASSUME NEW d \in Devices, AddJob(d) \/ EditRead(d) PROVE UNCHANGED queueVars
    BY <2>2 DEF AddJob, EditRead
  <2>3. EditEnds \/ DeleteRow \/ DeleteDies => QueueNext \/ UNCHANGED queueVars
    BY EnqueueAllSubmits DEF EditEnds, DeleteRow, DeleteDies, RemoveEndpoint
  <2>4. ASSUME NEW t \in Tasks, StartTask(t) \/ EndTask(t) \/ WorkerDies(t) PROVE QueueNext
    BY <2>4 DEF StartTask, EndTask, WorkerDies, QueueNext
  <2>5. ASSUME NEW t \in Tasks, HandlerStep(t) PROVE QueueNext \/ UNCHANGED queueVars
    BY <2>4, <2>5
       DEF HandlerStep, Load, AddQueue, OpenQueue, Command, Refreshed, CallFails, SaveOffline,
           DeleteQueue, DeleteFails
  <2>6. UNCHANGED vars \/ (\E q \in Queues : CupsStops(q)) => UNCHANGED queueVars
    BY DEF vars, CupsStops
  <2> QED BY <2>1, <2>2, <2>3, <2>4, <2>5, <2>6 DEF Next
<1> QED BY <1>1, <1>2, PTL DEF Spec, QueueSpec
=============================================================================
