--------------------------- MODULE Scanners_proofs ---------------------------
(***************************************************************************)
(* The invariants of Scanners.tla for any number of endpoints, versions,   *)
(* tasks and deaths and whichever names overlap, and that what it does to  *)
(* its tasks is what the abstract queue allows. One worker is assumed, as  *)
(* ScannersAssumption says.                                                *)
(***************************************************************************)
EXTENDS Scanners, AtLeastOnceQueue_proofs

Handles(t) == phase[t] = "executing"
Runs(s) == \E t \in TasksOf(s) : Handles(t)
Waits(s) == \E t \in TasksOf(s) : phase[t] = "waiting"

\* A handler runs exactly when the worker is beyond its start and not idle, and the
\* row that is being enqueued is still on reconcile's list.
PcFits ==
    /\ pc \in {"starting", "reconciling", "enqueueing", "idle"}
         <=> \A t \in Tasks : ~Handles(t)
    /\ pc = "enqueueing" => unknowns # {}

\* What a task or a request refers to is deleted from it with the row.
RowsExist ==
    /\ \A s \in Scanners : endpoint[s] = 0 <=> validation[s] = "absent"
    /\ \A t \in Tasks : Saves(t) => endpoint[scannerOf[t]] # 0
    /\ \A s \in revalidating : endpoint[s] # 0

\* PendingHasTask, with the one row that reconcile is about to enqueue.
PendingIsOwed ==
    \A s \in Scanners : validation[s] = "pending" =>
        \/ Owed(s) # {}
        \/ s \in revalidating \cup dropped
        \/ pc = "enqueueing" /\ s = Looked

\* What scanimage said of the present endpoint of s, or of one its name is part of.
Answers(s, c) == c = Endpoint(s) \/ <<s, c.of>> \in NameWithin

\* An edit of the endpoint under the handler leaves another task behind, so a handler
\* that is the last for its scanner works with the endpoint the row has.
Current(s) ==
    /\ pc = "loaded" => loaded = endpoint[s]
    /\ pc = "asking" => Answers(s, asked)
    /\ pc = "fetched" => Answers(s, capabilities[s])

LastIsCurrent == \A s \in Scanners : Runs(s) /\ ~Waits(s) => Current(s)

IInv ==
    /\ QueueOK /\ TypeOK /\ PcFits /\ RowsExist
    /\ PendingIsOwed /\ LastIsCurrent /\ PendingHasTask /\ ReadyIsOfEndpoint
-----------------------------------------------------------------------------
(* The steps.                                                              *)

\* The handler steps that leave the queue alone.
Within(t) ==
    \/ Load(t) \/ Resolve(t) \/ SaveCapabilities(t) \/ SaveReady(t)
    \/ SaveFailed(t) \/ SaveFindsNoRow(t)

\* The requests that enqueue nothing.
Web(s) == RemoveEndpoint(s) \/ Revalidate(s) \/ RequestDies(s)

\* The steps of the worker's start that enqueue nothing.
Reconciles == ReadUnknown \/ SkipQueued \/ ReconcileSave \/ StartLoop

LEMMA StepKinds ==
    ASSUME [Next]_vars
    PROVE  \/ \E s \in Scanners, v \in Versions : SaveEndpoint(s, v)
           \/ \E s \in Scanners : Web(s) \/ RevalidateEnqueue(s)
           \/ Reconciles \/ ReconcileEnqueue
           \/ \E t \in Tasks : StartTask(t) \/ Within(t) \/ EndTask(t)
           \/ WorkerDies
           \/ UNCHANGED vars
BY DEF Next, WorkerStarts, Reconciles, HandlerStep, Web, Within

LEMMA EnqueueAdds ==
    ASSUME QueueOK, scannerOf \in [Tasks -> Scanners \cup {NoScanner}],
           NEW s \in Scanners, Enqueue(s)
    PROVE  /\ QueueOK' /\ scannerOf' \in [Tasks -> Scanners \cup {NoScanner}]
           /\ \E t \in Tasks :
                /\ Submit(t)
                /\ phase[t] = "absent" /\ phase'[t] = "waiting" /\ scannerOf'[t] = s
                /\ \A u \in Tasks : u # t => phase'[u] = phase[u]
                                             /\ scannerOf'[u] = scannerOf[u]
<1> PICK t \in Tasks : Submit(t) /\ scannerOf' = [scannerOf EXCEPT ![t] = s]
  BY DEF Enqueue, Free
<1>1. /\ phase[t] = "absent" /\ phase'[t] = "waiting"
      /\ \A u \in Tasks : u # t => phase'[u] = phase[u]
  BY SubmitPhases
<1> QED BY <1>1, SubmitKeeps

LEMMA WebKeeps ==
    ASSUME NEW s \in Scanners, Web(s)
    PROVE  UNCHANGED <<queueVars, workerVars, issued>>
BY DEF Web, RemoveEndpoint, Revalidate, RequestDies

LEMMA ReconcilesKeeps ==
    ASSUME Reconciles
    PROVE  /\ UNCHANGED <<queueVars, scannerOf, endpoint, capabilities, loaded, asked,
                          webVars, history>>
           /\ pc \in {"starting", "reconciling"}
           /\ pc' \in {"starting", "reconciling", "enqueueing", "idle"}
BY DEF Reconciles, ReadUnknown, SkipQueued, ReconcileSave, StartLoop, rowVars

LEMMA WithinKeeps ==
    ASSUME NEW t \in Tasks, Within(t)
    PROVE  /\ Handles(t) /\ UNCHANGED <<queueVars, scannerOf, endpoint, unknowns, webVars, history>>
           /\ pc \in {"begin", "loaded", "asking", "fetched"}
           /\ pc' \in {"loaded", "asking", "fetched", "return", "raise"}
BY DEF Within, Load, Resolve, SaveCapabilities, SaveReady, SaveFailed, SaveFindsNoRow,
       SaveVerdict, Running, Handles, rowVars

\* The end of an execution, by the handler or by the death of the worker.
LEMMA EndingLeaves ==
    ASSUME QueueOK, NEW t \in Tasks, Succeed(t) \/ Fail(t) \/ Lose(t)
    PROVE  /\ Handles(t) /\ QueueOK'
           /\ \A u \in Tasks : u # t => phase'[u] = phase[u] /\ ~Handles(u)
           /\ phase'[t] \notin {"executing", "absent"}
           /\ Lose(t) => phase'[t] = "waiting"
<1>1. Handles(t) /\ \A u \in Tasks : u # t => ~Handles(u)
  BY EndingPhases, OneExecutes, ScannersAssumption DEF Handles
<1>2. phase'[t] \notin {"executing", "absent"} /\ (Lose(t) => phase'[t] = "waiting")
  BY EndingPhases
<1>3. QueueOK' /\ \A u \in Tasks : u # t => phase'[u] = phase[u]
  BY EndingKeeps, EndingPhases
<1> QED BY <1>1, <1>2, <1>3

LEMMA Starting ==
    ASSUME QueueOK, NEW t \in Tasks, StartTask(t)
    PROVE  /\ QueueOK' /\ phase[t] = "waiting" /\ phase'[t] = "executing"
           /\ \A u \in Tasks : ~Handles(u)
           /\ \A u \in Tasks : u # t => phase'[u] = phase[u]
<1> PICK w \in Workers : Start(w, t)
  BY DEF StartTask
<1> QED BY StartKeeps, StartPhases, NoneExecutes, ScannersAssumption DEF Handles

\* A death ends the execution there is.
LEMMA DeathLeaves ==
    ASSUME QueueOK, WorkerDies
    PROVE  /\ QueueOK' /\ \A u \in Tasks : ~Handles(u)'
           /\ \A u \in Tasks : phase'[u] = IF Handles(u) THEN "waiting" ELSE phase[u]
<1>1. CASE UNCHANGED queueVars /\ \A t \in Tasks : ~Handles(t)
  BY <1>1, StutterKeeps DEF queueVars, Handles
<1>2. ASSUME NEW t \in Tasks, Lose(t)
      PROVE  /\ QueueOK' /\ \A u \in Tasks : ~Handles(u)'
             /\ \A u \in Tasks : phase'[u] = IF Handles(u) THEN "waiting" ELSE phase[u]
  BY <1>2, EndingLeaves DEF Handles
<1> QED BY <1>1, <1>2 DEF WorkerDies, Handles

LEMMA OneHandler ==
    ASSUME QueueOK, NEW t \in Tasks, NEW u \in Tasks, Handles(t), Handles(u)
    PROVE  t = u
BY OneExecutes, ScannersAssumption DEF Handles

LEMMA LookedIsOne == unknowns # {} => Looked \in unknowns
BY DEF Looked

-----------------------------------------------------------------------------
(* Types.                                                                  *)

AllAnswers == [of : Scanners \cup {NoScanner}, version : 0..MaxVersion]

PCs == {"starting", "reconciling", "enqueueing", "idle", "begin", "loaded",
        "asking", "fetched", "return", "raise"}

RowsTyped ==
    /\ endpoint \in [Scanners -> 0..MaxVersion]
    /\ validation \in [Scanners -> {"absent", "unknown", "pending", "ready", "failed"}]
    /\ capabilities \in [Scanners -> AllAnswers]
    /\ scannerOf \in [Tasks -> Scanners \cup {NoScanner}]

RestTyped ==
    /\ pc \in PCs
    /\ unknowns \subseteq Scanners
    /\ loaded \in 0..MaxVersion
    /\ asked \in AllAnswers
    /\ issued \in [Scanners -> 0..MaxVersion]
    /\ exits \in 0..MaxExits
    /\ revalidating \subseteq Scanners /\ dropped \subseteq Scanners

LEMMA TypesSplit == TypeOK <=> RowsTyped /\ RestTyped
BY DEF TypeOK, RowsTyped, RestTyped, PCs, AllAnswers

LEMMA AnswerTypes ==
    /\ Nothing \in AllAnswers
    /\ \A s \in Scanners, v \in 0..MaxVersion : [of |-> s, version |-> v] \in AllAnswers
BY ScannersAssumption DEF Nothing, AllAnswers

\* What resolve_scanner can find is the present endpoint or, in AirScan's list, one
\* with the name in its own; the hpaio driver keeps to the row in memory.
LEMMA ResolvedIs ==
    ASSUME RowsTyped, RestTyped, NEW s \in Scanners, NEW a \in Resolved(s)
    PROVE  /\ a \in AllAnswers
           /\ loaded = endpoint[s] => Answers(s, a)
<1>1. CASE loaded \in Hpaio /\ a = [of |-> s, version |-> loaded]
  BY <1>1, AnswerTypes DEF RestTyped, Answers, Endpoint
<1>2. CASE \E u \in Scanners : (u = s \/ <<s, u>> \in NameWithin) /\ a = Endpoint(u)
  <2> PICK u \in Scanners : (u = s \/ <<s, u>> \in NameWithin) /\ a = Endpoint(u)
    BY <1>2
  <2>1. a \in AllAnswers
    BY AnswerTypes DEF RowsTyped, Endpoint
  <2>2. a.of = u
    BY DEF Endpoint
  <2> QED BY <2>1, <2>2 DEF Answers
<1> QED BY <1>1, <1>2 DEF Resolved, Listed

LEMMA TypesInductive ==
    ASSUME IInv, [Next]_vars
    PROVE  QueueOK' /\ TypeOK'
<1> USE ScannersAssumption
<1>1. QueueOK /\ RowsTyped /\ RestTyped
  BY TypesSplit DEF IInv
<1> DEFINE Rest == QueueOK' /\ RowsTyped' /\ RestTyped'
<1>2. ASSUME NEW s \in Scanners, NEW v \in Versions, SaveEndpoint(s, v) PROVE Rest
  <2>1. QueueOK' /\ scannerOf' \in [Tasks -> Scanners \cup {NoScanner}]
    BY <1>1, <1>2, EnqueueAdds DEF SaveEndpoint, RowsTyped
  <2>2. RowsTyped'
    BY <1>1, <1>2, <2>1, AnswerTypes DEF SaveEndpoint, RowsTyped, Versions, Set
  <2>3. RestTyped'
    BY <1>1, <1>2 DEF SaveEndpoint, RestTyped, Versions, Set, workerVars, history
  <2> QED BY <2>1, <2>2, <2>3
<1>3. ASSUME NEW s \in Scanners, Web(s) PROVE Rest
  <2>1. QueueOK'
    BY <1>1, <1>3, WebKeeps, StutterKeeps
  <2>2. RowsTyped'
    BY <1>1, <1>3, AnswerTypes
       DEF Web, RemoveEndpoint, Revalidate, RequestDies, RowsTyped, Set, rowVars
  <2>3. RestTyped'
    BY <1>1, <1>3
       DEF Web, RemoveEndpoint, Revalidate, RequestDies, RestTyped, workerVars, history
  <2> QED BY <2>1, <2>2, <2>3
<1>4. ASSUME NEW s \in Scanners, RevalidateEnqueue(s) PROVE Rest
  <2>1. QueueOK' /\ scannerOf' \in [Tasks -> Scanners \cup {NoScanner}]
    BY <1>1, <1>4, EnqueueAdds DEF RevalidateEnqueue, RowsTyped
  <2> QED BY <1>1, <1>4, <2>1
     DEF RevalidateEnqueue, RowsTyped, RestTyped, rowVars, workerVars, history
<1>5. ASSUME Reconciles PROVE Rest
  <2>1. QueueOK'
    BY <1>1, <1>5, ReconcilesKeeps, StutterKeeps
  <2>2. unknowns # {} => Looked \in Scanners
    BY <1>1, LookedIsOne DEF RestTyped
  <2> QED BY <1>1, <1>5, <2>1, <2>2
     DEF Reconciles, ReadUnknown, SkipQueued, ReconcileSave, StartLoop, RowsTyped, RestTyped,
         PCs, Set, rowVars, webVars, history
<1>6. ASSUME ReconcileEnqueue PROVE Rest
  <2>1. Looked \in Scanners
    BY <1>6, LookedIsOne DEF IInv, PcFits, ReconcileEnqueue, TypeOK
  <2>2. QueueOK' /\ scannerOf' \in [Tasks -> Scanners \cup {NoScanner}]
    <3>1. CASE Enqueue(Looked)
      BY <1>1, <2>1, <3>1, EnqueueAdds DEF RowsTyped
    <3>2. CASE UNCHANGED <<queueVars, scannerOf>>
      BY <1>1, <3>2, StutterKeeps DEF RowsTyped
    <3> QED BY <1>6, <3>1, <3>2 DEF ReconcileEnqueue
  <2> QED BY <1>1, <1>6, <2>2
     DEF ReconcileEnqueue, RowsTyped, RestTyped, PCs, rowVars, webVars, history
<1>7. ASSUME NEW t \in Tasks, StartTask(t) PROVE Rest
  BY <1>1, <1>7, Starting
     DEF StartTask, RowsTyped, RestTyped, PCs, rowVars, webVars, history
<1>8. ASSUME NEW t \in Tasks, EndTask(t) PROVE Rest
  <2>1. QueueOK'
    BY <1>1, <1>8, EndingLeaves DEF EndTask
  <2> QED BY <1>1, <1>8, <2>1
     DEF EndTask, RowsTyped, RestTyped, PCs, rowVars, webVars, history
<1>9. ASSUME WorkerDies PROVE Rest
  <2>1. QueueOK' /\ RowsTyped'
    BY <1>1, <1>9, DeathLeaves DEF WorkerDies, RowsTyped, rowVars
  <2>2. pc = "enqueueing" => Looked \in Scanners
    BY <1>1, LookedIsOne DEF IInv, PcFits, RestTyped
  <2>3. dropped' \subseteq Scanners /\ exits' \in 0..MaxExits
    BY <1>1, <1>9, <2>2 DEF WorkerDies, RestTyped
  <2> QED BY <1>1, <1>9, <2>1, <2>3, AnswerTypes DEF WorkerDies, RestTyped, PCs, webVars
<1>10. ASSUME NEW t \in Tasks, Within(t) PROVE Rest
  <2>1. QueueOK'
    BY <1>1, <1>10, WithinKeeps, StutterKeeps
  <2>2. RowsTyped'
    BY <1>1, <1>10, WithinKeeps
       DEF Within, Load, Resolve, SaveCapabilities, SaveReady, SaveFailed, SaveFindsNoRow,
           SaveVerdict, Saves, RowsTyped, RestTyped, Set, rowVars
  <2>3. asked' \in AllAnswers /\ loaded' \in 0..MaxVersion
    <3>1. Resolve(t) => asked' \in AllAnswers
      BY <1>1, ResolvedIs DEF Resolve, Saves, RowsTyped
    <3> QED BY <1>1, <1>10, <3>1, AnswerTypes
       DEF Within, Load, Resolve, SaveCapabilities, SaveReady, SaveFailed, SaveFindsNoRow,
           SaveVerdict, Saves, RowsTyped, RestTyped
  <2> QED BY <1>1, <1>10, <2>1, <2>2, <2>3, WithinKeeps DEF RestTyped, PCs, webVars, history
<1>11. ASSUME UNCHANGED vars PROVE Rest
  BY <1>1, <1>11, StutterKeeps
     DEF vars, RowsTyped, RestTyped, rowVars, workerVars, webVars, history
<1> HIDE DEF Rest
<1>12. Rest
  BY <1>2, <1>3, <1>4, <1>5, <1>6, <1>7, <1>8, <1>9, <1>10, <1>11, StepKinds
<1>13. RowsTyped' /\ RestTyped' => TypeOK'
  BY DEF TypeOK, RowsTyped, RestTyped, PCs, AllAnswers
<1> QED BY <1>12, <1>13 DEF Rest
-----------------------------------------------------------------------------
(* Where the worker is, and which rows there are.                          *)

LEMMA PcInductive ==
    ASSUME IInv, [Next]_vars
    PROVE  PcFits'
<1> USE DEF PcFits, Handles, IInv
<1>1. ASSUME UNCHANGED <<pc, unknowns>>, \A t \in Tasks : Handles(t)' <=> Handles(t)
      PROVE  PcFits'
  BY <1>1
<1>2. ASSUME NEW s \in Scanners, Enqueue(s) PROVE \A t \in Tasks : Handles(t)' <=> Handles(t)
  BY <1>2, EnqueueAdds DEF TypeOK
<1>3. ASSUME NEW s \in Scanners, NEW v \in Versions, SaveEndpoint(s, v) PROVE PcFits'
  BY <1>1, <1>2, <1>3 DEF SaveEndpoint, workerVars
<1>4. ASSUME NEW s \in Scanners, Web(s) PROVE PcFits'
  BY <1>1, <1>4, WebKeeps DEF queueVars, workerVars
<1>5. ASSUME NEW s \in Scanners, RevalidateEnqueue(s) PROVE PcFits'
  BY <1>1, <1>2, <1>5 DEF RevalidateEnqueue, workerVars
<1>6. ASSUME Reconciles PROVE PcFits'
  <2>1. pc' = "enqueueing" => unknowns' # {}
    BY <1>6 DEF Reconciles, ReadUnknown, SkipQueued, ReconcileSave, StartLoop
  <2> QED BY <1>6, <2>1, ReconcilesKeeps DEF queueVars
<1>7. ASSUME ReconcileEnqueue PROVE PcFits'
  <2>1. Looked \in Scanners
    BY <1>7, LookedIsOne DEF ReconcileEnqueue, TypeOK
  <2>2. \A t \in Tasks : Handles(t)' <=> Handles(t)
    BY <1>2, <1>7, <2>1 DEF ReconcileEnqueue, queueVars
  <2> QED BY <1>7, <2>2 DEF ReconcileEnqueue
<1>8. ASSUME NEW t \in Tasks, StartTask(t) PROVE PcFits'
  BY <1>8, Starting DEF StartTask
<1>9. ASSUME NEW t \in Tasks, EndTask(t) PROVE PcFits'
  BY <1>9, EndingLeaves DEF EndTask
<1>10. ASSUME WorkerDies PROVE PcFits'
  BY <1>10, DeathLeaves DEF WorkerDies
<1>11. ASSUME NEW t \in Tasks, Within(t) PROVE PcFits'
  BY <1>11, WithinKeeps DEF queueVars
<1>12. ASSUME UNCHANGED vars PROVE PcFits'
  BY <1>12 DEF vars, queueVars, workerVars
<1> QED BY <1>3, <1>4, <1>5, <1>6, <1>7, <1>8, <1>9, <1>10, <1>11, <1>12, StepKinds

LEMMA RowsInductive ==
    ASSUME IInv, [Next]_vars
    PROVE  RowsExist'
<1> USE DEF RowsExist, Saves, IInv, Set
<1>1. /\ scannerOf \in [Tasks -> Scanners \cup {NoScanner}]
      /\ endpoint \in [Scanners -> 0..MaxVersion]
      /\ validation \in [Scanners -> {"absent", "unknown", "pending", "ready", "failed"}]
      /\ revalidating \subseteq Scanners /\ NoScanner \notin Scanners
  BY ScannersAssumption DEF TypeOK
<1>3. ASSUME NEW s \in Scanners, NEW v \in Versions, SaveEndpoint(s, v) PROVE RowsExist'
  <2>1. /\ endpoint'[s] # 0 /\ validation'[s] = "pending"
        /\ \A u \in Scanners : u # s => endpoint'[u] = endpoint[u]
                                       /\ validation'[u] = validation[u]
        /\ revalidating' = revalidating /\ Enqueue(s)
    BY <1>1, <1>3 DEF SaveEndpoint, Versions
  <2>2. \A t \in Tasks : scannerOf'[t] = s \/ scannerOf'[t] = scannerOf[t]
    BY <1>1, <2>1, EnqueueAdds
  <2> QED BY <1>1, <2>1, <2>2
<1>4. ASSUME NEW s \in Scanners, Web(s) PROVE RowsExist'
  <2>1. CASE RemoveEndpoint(s)
    BY <1>1, <2>1 DEF RemoveEndpoint
  <2>2. CASE Revalidate(s)
    BY <1>1, <2>2 DEF Revalidate
  <2>3. CASE RequestDies(s)
    BY <1>1, <2>3 DEF RequestDies, rowVars
  <2> QED BY <1>4, <2>1, <2>2, <2>3 DEF Web
<1>5. ASSUME NEW s \in Scanners, RevalidateEnqueue(s) PROVE RowsExist'
  <2>1. \A t \in Tasks : scannerOf'[t] = s \/ scannerOf'[t] = scannerOf[t]
    BY <1>1, <1>5, EnqueueAdds DEF RevalidateEnqueue
  <2> QED BY <1>1, <1>5, <2>1 DEF RevalidateEnqueue, rowVars
<1>6. ASSUME Reconciles PROVE RowsExist'
  <2>1. UNCHANGED <<scannerOf, endpoint, revalidating>>
    BY <1>6, ReconcilesKeeps DEF webVars
  <2>2. \/ validation' = validation
        \/ endpoint[Looked] # 0 /\ validation' = [validation EXCEPT ![Looked] = "pending"]
    BY <1>6 DEF Reconciles, ReadUnknown, SkipQueued, ReconcileSave, StartLoop, rowVars
  <2> QED BY <1>1, <2>1, <2>2
<1>7. ASSUME ReconcileEnqueue PROVE RowsExist'
  <2>1. Looked \in Scanners
    BY <1>7, LookedIsOne DEF ReconcileEnqueue, TypeOK, PcFits
  <2>2. \A t \in Tasks : (scannerOf'[t] = Looked /\ endpoint[Looked] # 0)
                         \/ scannerOf'[t] = scannerOf[t]
    BY <1>1, <1>7, <2>1, EnqueueAdds DEF ReconcileEnqueue
  <2> QED BY <1>1, <1>7, <2>2 DEF ReconcileEnqueue, rowVars, webVars
<1>8. ASSUME NEW t \in Tasks, Within(t) PROVE RowsExist'
  <2>1. UNCHANGED <<scannerOf, endpoint, revalidating>>
    BY <1>8, WithinKeeps DEF webVars
  <2>2. \/ validation' = validation
        \/ /\ Saves(t)
           /\ \E v \in {"ready", "failed"} : validation' = [validation EXCEPT ![scannerOf[t]] = v]
    BY <1>8 DEF Within, Load, Resolve, SaveCapabilities, SaveReady, SaveFailed,
        SaveFindsNoRow, SaveVerdict, rowVars
  <2> QED BY <1>1, <2>1, <2>2
<1>9. ASSUME UNCHANGED <<scannerOf, rowVars, revalidating>> PROVE RowsExist'
  BY <1>9 DEF rowVars
<1> QED BY <1>3, <1>4, <1>5, <1>6, <1>7, <1>8, <1>9, StepKinds
   DEF StartTask, EndTask, WorkerDies, vars, webVars

-----------------------------------------------------------------------------
(* A pending row is owed a verdict.                                        *)

\* Steps that leave the phases alone owe no less, but for a handler that is over.
LEMMA StillOwed ==
    ASSUME IInv, UNCHANGED <<phase, scannerOf>>, pc' \notin {"return", "raise"} \/ pc' = pc
    PROVE  \A s \in Scanners : Owed(s) # {} => Owed(s)' # {}
<1>1. \A s \in Scanners : \A t \in Owed(s) : t \in Owed(s)'
  BY DEF Owed, TasksOf
<1> QED BY <1>1

\* An enqueueing adds a verdict for its row.
LEMMA EnqueueOwes ==
    ASSUME IInv, NEW u \in Scanners, Enqueue(u),
           pc' = pc \/ (pc = "enqueueing" /\ pc' = "reconciling")
    PROVE  /\ Owed(u)' # {} /\ Waits(u)'
           /\ \A s \in Scanners : Owed(s) # {} => Owed(s)' # {}
           /\ \A s \in Scanners : Waits(s) => Waits(s)'
           /\ \A t \in Tasks : Handles(t)' => Handles(t) /\ scannerOf'[t] = scannerOf[t]
<1>1. QueueOK /\ scannerOf \in [Tasks -> Scanners \cup {NoScanner}]
  BY DEF IInv, TypeOK
<1>2. PICK t \in Tasks : /\ phase[t] = "absent" /\ phase'[t] = "waiting" /\ scannerOf'[t] = u
                         /\ \A v \in Tasks : v # t => phase'[v] = phase[v]
                                                     /\ scannerOf'[v] = scannerOf[v]
  BY <1>1, EnqueueAdds
<1>3. t \in Owed(u)' /\ t \in TasksOf(u)'
  BY <1>2 DEF Owed, TasksOf
<1>4. \A s \in Scanners : \A v \in Owed(s) : v \in Owed(s)'
  BY <1>2 DEF Owed, TasksOf
<1>5. \A s \in Scanners : \A v \in TasksOf(s) : phase[v] = "waiting" =>
        v \in TasksOf(s)' /\ phase'[v] = "waiting"
  BY <1>2 DEF TasksOf
<1> QED BY <1>2, <1>3, <1>4, <1>5 DEF Waits, Handles

\* Every step that owes no less than before to the rows it does not turn pending.
LEMMA PendingInductive ==
    ASSUME IInv, [Next]_vars
    PROVE  PendingIsOwed' /\ PendingHasTask'
<1> USE DEF IInv, Set
<1>1. /\ scannerOf \in [Tasks -> Scanners \cup {NoScanner}]
      /\ validation \in [Scanners -> {"absent", "unknown", "pending", "ready", "failed"}]
      /\ revalidating \subseteq Scanners /\ NoScanner \notin Scanners
  BY ScannersAssumption DEF TypeOK
\* The frame: s is not made pending, and nothing it is owed by goes away.
<1>2. ASSUME NEW s \in Scanners, validation'[s] = "pending" => validation[s] = "pending",
             Owed(s) # {} => Owed(s)' # {},
             revalidating \cup dropped \subseteq revalidating' \cup dropped',
             UNCHANGED <<pc, unknowns>>
      PROVE  validation'[s] = "pending" =>
               Owed(s)' # {} \/ s \in revalidating' \cup dropped'
                 \/ (pc' = "enqueueing" /\ s = Looked')
  BY <1>2 DEF PendingIsOwed, Looked
<1>3. ASSUME NEW u \in Scanners, NEW v \in Versions, SaveEndpoint(u, v) PROVE PendingIsOwed'
  <2>1. Enqueue(u) /\ UNCHANGED <<pc, unknowns, revalidating, dropped>>
    BY <1>3 DEF SaveEndpoint, workerVars, history
  <2>2. Owed(u)' # {} /\ \A s \in Scanners : Owed(s) # {} => Owed(s)' # {}
    BY <2>1, EnqueueOwes
  <2>3. \A s \in Scanners : s # u => validation'[s] = validation[s]
    BY <1>1, <1>3 DEF SaveEndpoint
  <2> QED BY <1>2, <2>1, <2>2, <2>3 DEF PendingIsOwed
<1>4. ASSUME NEW u \in Scanners, Web(u) PROVE PendingIsOwed'
  <2>1. UNCHANGED <<phase, pc, unknowns>>
    BY <1>4, WebKeeps DEF queueVars, workerVars
  <2>2. CASE RemoveEndpoint(u)
    <3>1. validation'[u] = "absent" /\ \A s \in Scanners : s # u => validation'[s] = validation[s]
      BY <1>1, <2>2 DEF RemoveEndpoint
    <3>2. \A s \in Scanners : s # u =>
            (s \in revalidating \cup dropped => s \in revalidating' \cup dropped')
      BY <2>2 DEF RemoveEndpoint
    <3>3. \A s \in Scanners : s # u => (Owed(s) # {} => Owed(s)' # {})
      <4>1. \A s \in Scanners : s # u => \A t \in Owed(s) : t \in Owed(s)'
        BY <1>1, <2>1, <2>2 DEF RemoveEndpoint, Owed, TasksOf
      <4> QED BY <4>1
    <3> QED BY <2>1, <3>1, <3>2, <3>3 DEF PendingIsOwed, Looked
  <2>3. CASE Revalidate(u) \/ RequestDies(u)
    <3>1. scannerOf' = scannerOf /\ revalidating \cup dropped \subseteq revalidating' \cup dropped'
      BY <2>3 DEF Revalidate, RequestDies, history
    <3>2. \A s \in Scanners : Owed(s) # {} => Owed(s)' # {}
      BY <2>1, <3>1, StillOwed
    <3>3. \A s \in Scanners : s = u \/ validation'[s] = validation[s]
      BY <1>1, <2>3 DEF Revalidate, RequestDies, rowVars
    <3>4. u \in revalidating' \cup dropped'
      BY <2>3 DEF Revalidate, RequestDies
    <3> QED BY <1>2, <2>1, <3>1, <3>2, <3>3, <3>4 DEF PendingIsOwed
  <2> QED BY <1>4, <2>2, <2>3 DEF Web
<1>5. ASSUME NEW u \in Scanners, RevalidateEnqueue(u) PROVE PendingIsOwed'
  <2>1. /\ Enqueue(u) /\ UNCHANGED <<validation, pc, unknowns, dropped>>
        /\ revalidating' = revalidating \ {u}
    BY <1>5 DEF RevalidateEnqueue, rowVars, workerVars, history
  <2>2. Owed(u)' # {} /\ \A s \in Scanners : Owed(s) # {} => Owed(s)' # {}
    BY <2>1, EnqueueOwes
  <2> QED BY <2>1, <2>2 DEF PendingIsOwed, Looked
<1>6. ASSUME Reconciles PROVE PendingIsOwed'
  <2>1. UNCHANGED <<phase, scannerOf, revalidating, dropped>> /\ pc # "enqueueing"
        /\ pc' \notin {"return", "raise"}
    BY <1>6, ReconcilesKeeps DEF queueVars, webVars, history
  <2>2. \A s \in Scanners : Owed(s) # {} => Owed(s)' # {}
    BY <2>1, StillOwed
  <2>3. \/ validation' = validation
        \/ /\ validation' = [validation EXCEPT ![Looked] = "pending"]
           /\ pc' = "enqueueing" /\ Looked' = Looked
    BY <1>6 DEF Reconciles, ReadUnknown, SkipQueued, ReconcileSave, StartLoop, rowVars, Looked
  <2> QED BY <1>1, <2>1, <2>2, <2>3 DEF PendingIsOwed
<1>7. ASSUME ReconcileEnqueue PROVE PendingIsOwed'
  <2>1. /\ Looked \in Scanners /\ pc = "enqueueing" /\ pc' = "reconciling"
        /\ UNCHANGED <<validation, revalidating, dropped>>
    BY <1>7, LookedIsOne DEF ReconcileEnqueue, TypeOK, PcFits, rowVars, webVars, history
  <2>2. CASE endpoint[Looked] # 0
    <3> PICK u \in Scanners : u = Looked
      BY <2>1
    <3>1. Owed(u)' # {} /\ \A s \in Scanners : Owed(s) # {} => Owed(s)' # {}
      BY <1>7, <2>1, <2>2, EnqueueOwes DEF ReconcileEnqueue
    <3> QED BY <2>1, <3>1 DEF PendingIsOwed
  <2>3. CASE endpoint[Looked] = 0
    <3>1. validation[Looked] # "pending"
      BY <2>1, <2>3 DEF RowsExist
    <3>2. \A s \in Scanners : Owed(s) # {} => Owed(s)' # {}
      BY <1>7, <2>1, <2>3, StillOwed DEF ReconcileEnqueue, queueVars
    <3> QED BY <2>1, <3>1, <3>2 DEF PendingIsOwed
  <2> QED BY <2>2, <2>3
<1>8. ASSUME NEW t \in Tasks, StartTask(t) PROVE PendingIsOwed'
  <2>1. /\ pc # "enqueueing" /\ pc' = "begin"
        /\ UNCHANGED <<scannerOf, validation, revalidating, dropped>>
    BY <1>8 DEF StartTask, rowVars, webVars, history
  <2>2. \A s \in Scanners : \A u \in Owed(s) : u \in Owed(s)'
    BY <1>8, <2>1, Starting DEF Owed, TasksOf, Handles
  <2> QED BY <2>1, <2>2 DEF PendingIsOwed
<1>9. ASSUME NEW t \in Tasks, EndTask(t) PROVE PendingIsOwed'
  <2>1. /\ pc \in {"return", "raise"}
        /\ UNCHANGED <<scannerOf, validation, revalidating, dropped>>
    BY <1>9 DEF EndTask, Running, rowVars, webVars, history
  <2>2. \A s \in Scanners : \A u \in Owed(s) : u \in Owed(s)'
    BY <1>9, <2>1, EndingLeaves DEF EndTask, Owed, TasksOf, Handles
  <2> QED BY <2>1, <2>2 DEF PendingIsOwed
<1>10. ASSUME WorkerDies PROVE PendingIsOwed'
  <2>1. /\ UNCHANGED <<scannerOf, validation, revalidating>>
        /\ dropped' = IF pc = "enqueueing" THEN dropped \cup {Looked} ELSE dropped
    BY <1>10 DEF WorkerDies, rowVars, webVars
  <2>2. \A s \in Scanners : \A u \in Owed(s) : u \in Owed(s)'
    BY <1>10, <2>1, DeathLeaves DEF Owed, TasksOf, Handles
  <2> QED BY <2>1, <2>2 DEF PendingIsOwed
<1>11. ASSUME NEW t \in Tasks, Within(t) PROVE PendingIsOwed'
  <2>1. /\ Handles(t) /\ pc # "enqueueing"
        /\ UNCHANGED <<phase, scannerOf, revalidating, dropped>>
    BY <1>11, WithinKeeps DEF queueVars, webVars, history
  <2>2. \A u \in Tasks : Handles(u) => u = t
    BY <2>1, OneHandler
  <2>3. CASE pc' \notin {"return", "raise"}
    <3>1. validation' = validation
      BY <1>11, <2>3 DEF Within, Load, Resolve, SaveCapabilities, SaveReady, SaveFailed,
          SaveFindsNoRow, SaveVerdict, rowVars
    <3>2. \A s \in Scanners : Owed(s) # {} => Owed(s)' # {}
      BY <2>1, <2>3, StillOwed
    <3> QED BY <2>1, <3>1, <3>2 DEF PendingIsOwed
  <2>4. CASE pc' \in {"return", "raise"}
    <3>1. \/ scannerOf[t] = NoScanner /\ validation' = validation
          \/ \E v \in {"ready", "failed"} : validation' = [validation EXCEPT ![scannerOf[t]] = v]
      BY <1>11, <2>4 DEF Within, Load, Resolve, SaveCapabilities, SaveReady, SaveFailed,
          SaveFindsNoRow, SaveVerdict, Saves, rowVars
    <3>2. \A s \in Scanners : s # scannerOf[t] => \A u \in Owed(s) : u \in Owed(s)'
      BY <1>1, <2>1, <2>2 DEF Owed, TasksOf, Handles
    <3> QED BY <1>1, <2>1, <3>1, <3>2 DEF PendingIsOwed
  <2> QED BY <2>3, <2>4
<1>12. ASSUME UNCHANGED vars PROVE PendingIsOwed'
  <2>1. \A s \in Scanners : Owed(s) # {} => Owed(s)' # {}
    BY <1>12, StillOwed DEF vars, queueVars, workerVars
  <2> QED BY <1>12, <2>1 DEF vars, rowVars, workerVars, webVars, history, PendingIsOwed, Looked
<1>13. PendingIsOwed'
  BY <1>3, <1>4, <1>5, <1>6, <1>7, <1>8, <1>9, <1>10, <1>11, <1>12, StepKinds
<1>14. pc' = "enqueueing" /\ Looked' \in Scanners => Looked' \in unknowns'
  <2>1. PcFits'
    BY PcInductive
  <2> QED BY <2>1 DEF PcFits, Looked
<1> QED BY <1>13, <1>14 DEF PendingIsOwed, PendingHasTask

-----------------------------------------------------------------------------
(* The last validation is of the present endpoint.                         *)

LEMMA LastInductive ==
    ASSUME IInv, [Next]_vars
    PROVE  LastIsCurrent' /\ ReadyIsOfEndpoint'
<1> USE DEF IInv
<1>1. /\ scannerOf \in [Tasks -> Scanners \cup {NoScanner}]
      /\ endpoint \in [Scanners -> 0..MaxVersion]
      /\ validation \in [Scanners -> {"absent", "unknown", "pending", "ready", "failed"}]
      /\ NoScanner \notin Scanners
  BY ScannersAssumption DEF TypeOK
<1>2. capabilities \in [Scanners -> AllAnswers]
  BY DEF TypeOK, AllAnswers
<1> SUFFICES ASSUME NEW s \in Scanners
             PROVE  /\ Runs(s)' /\ ~Waits(s)' => Current(s)'
                    /\ validation'[s] = "ready" /\ Owed(s)' = {} => Answers(s, capabilities[s])'
  BY DEF LastIsCurrent, ReadyIsOfEndpoint, Answers
<1> DEFINE Rest == /\ Runs(s)' /\ ~Waits(s)' => Current(s)'
                   /\ validation'[s] = "ready" /\ Owed(s)' = {} => Answers(s, capabilities[s])'
<1>3. /\ Runs(s) /\ ~Waits(s) => Current(s)
      /\ validation[s] = "ready" /\ Owed(s) = {} => Answers(s, capabilities[s])
  BY DEF LastIsCurrent, ReadyIsOfEndpoint, Answers
\* The row of s stays, no handler appears for it and no verdict is given up.
<1>4. ASSUME UNCHANGED <<endpoint[s], validation[s], capabilities[s], pc, loaded, asked>>,
             Runs(s)' => Runs(s), Waits(s) => Waits(s)', Owed(s) # {} => Owed(s)' # {}
      PROVE  Rest
  BY <1>3, <1>4 DEF Current, Answers, Endpoint
\* The tasks of s stay, the handler is another's or none.
<1>5. ASSUME UNCHANGED <<phase, scannerOf>> PROVE (Runs(s)' <=> Runs(s)) /\ (Waits(s)' <=> Waits(s))
  BY <1>5 DEF Runs, Waits, Handles, TasksOf
<1>6. ASSUME UNCHANGED <<endpoint[s], validation[s], capabilities[s]>>,
             ~Runs(s)', Owed(s) # {} => Owed(s)' # {}
      PROVE  Rest
  BY <1>3, <1>6 DEF Answers, Endpoint
<1>7. ASSUME NEW u \in Scanners, Enqueue(u), pc' = pc \/ (pc = "enqueueing" /\ pc' = "reconciling")
      PROVE  /\ Runs(s)' => Runs(s)
             /\ Waits(s) => Waits(s)'
             /\ Owed(s) # {} => Owed(s)' # {}
             /\ u = s => Waits(s)' /\ Owed(s)' # {}
  BY <1>7, EnqueueOwes DEF Runs, TasksOf
<1>8. ASSUME NEW u \in Scanners, NEW v \in Versions, SaveEndpoint(u, v) PROVE Rest
  <2>1. Enqueue(u) /\ UNCHANGED <<pc, loaded, asked>>
    BY <1>8 DEF SaveEndpoint, workerVars
  <2>2. u # s => UNCHANGED <<endpoint[s], validation[s], capabilities[s]>>
    BY <1>1, <1>2, <1>8 DEF SaveEndpoint, Set
  <2>3. u = s => validation'[s] = "pending" /\ Waits(s)'
    BY <1>1, <1>7, <1>8, <2>1 DEF SaveEndpoint, Set
  <2> QED BY <1>4, <1>7, <2>1, <2>2, <2>3
<1>9. ASSUME NEW u \in Scanners, Web(u) PROVE Rest
  <2>1. UNCHANGED <<phase, pc, loaded, asked>>
    BY <1>9, WebKeeps DEF queueVars, workerVars
  <2>2. CASE RemoveEndpoint(u) /\ u = s
    <3>1. validation'[s] = "absent" /\ \A t \in Tasks : scannerOf'[t] # s
      BY <1>1, <2>2 DEF RemoveEndpoint, Set
    <3> QED BY <3>1 DEF Runs, TasksOf
  <2>3. CASE RemoveEndpoint(u) /\ u # s
    <3>1. /\ UNCHANGED <<endpoint[s], validation[s], capabilities[s]>>
          /\ \A t \in Tasks : scannerOf'[t] = s <=> scannerOf[t] = s
      BY <1>1, <1>2, <2>3 DEF RemoveEndpoint, Set
    <3>2. TasksOf(s)' = TasksOf(s)
      BY <3>1 DEF TasksOf
    <3> QED BY <1>4, <2>1, <3>1, <3>2 DEF Runs, Waits, Owed, Handles
  <2>4. CASE Revalidate(u) \/ RequestDies(u)
    <3>1. UNCHANGED <<endpoint, capabilities, scannerOf>>
          /\ (validation'[s] = "pending" \/ validation'[s] = validation[s])
      BY <1>1, <2>4 DEF Revalidate, RequestDies, Set, rowVars
    <3>2. Owed(s) # {} => Owed(s)' # {}
      BY <2>1, <3>1, StillOwed
    <3> QED BY <1>3, <1>5, <2>1, <3>1, <3>2 DEF Current, Answers, Endpoint
  <2> QED BY <1>9, <2>2, <2>3, <2>4 DEF Web
<1>10. ASSUME NEW u \in Scanners, RevalidateEnqueue(u) PROVE Rest
  BY <1>4, <1>7, <1>10 DEF RevalidateEnqueue, rowVars, workerVars
<1>11. ASSUME Reconciles PROVE Rest
  <2>1. UNCHANGED <<phase, scannerOf, endpoint, capabilities>>
        /\ pc' \notin {"loaded", "asking", "fetched", "return", "raise"}
    BY <1>11, ReconcilesKeeps DEF queueVars
  <2>2. validation'[s] = "pending" \/ validation'[s] = validation[s]
    BY <1>1, <1>11 DEF Reconciles, ReadUnknown, SkipQueued, ReconcileSave, StartLoop, Set, rowVars
  <2>3. Owed(s) # {} => Owed(s)' # {}
    BY <2>1, StillOwed
  <2> QED BY <1>3, <2>1, <2>2, <2>3 DEF Current, Answers, Endpoint
<1>12. ASSUME ReconcileEnqueue PROVE Rest
  <2>1. /\ pc = "enqueueing" /\ pc' = "reconciling" /\ Looked \in Scanners
        /\ UNCHANGED <<endpoint, validation, capabilities>>
    BY <1>12, LookedIsOne DEF ReconcileEnqueue, TypeOK, PcFits, rowVars
  <2>2. Owed(s) # {} => Owed(s)' # {}
    <3>1. CASE UNCHANGED <<queueVars, scannerOf>>
      BY <2>1, <3>1, StillOwed DEF queueVars
    <3> PICK u \in Scanners : u = Looked
      BY <2>1
    <3> QED BY <1>7, <1>12, <2>1, <3>1 DEF ReconcileEnqueue
  <2> QED BY <1>3, <2>1, <2>2 DEF Current, Answers, Endpoint
<1>13. ASSUME NEW t \in Tasks, StartTask(t) PROVE Rest
  <2>1. pc' = "begin" /\ UNCHANGED <<scannerOf, endpoint, validation, capabilities>>
    BY <1>13 DEF StartTask, rowVars
  <2>2. \A u \in Owed(s) : u \in Owed(s)'
    BY <1>13, <2>1, Starting DEF Owed, TasksOf, Handles
  <2> QED BY <1>3, <2>1, <2>2 DEF Current, Answers, Endpoint
<1>14. ASSUME NEW t \in Tasks, EndTask(t) PROVE Rest
  <2>1. /\ pc \in {"return", "raise"} /\ pc' = "idle"
        /\ UNCHANGED <<scannerOf, endpoint, validation, capabilities>>
    BY <1>14 DEF EndTask, Running, rowVars
  <2>2. \A u \in Owed(s) : u \in Owed(s)'
    BY <1>14, <2>1, EndingLeaves DEF EndTask, Owed, TasksOf, Handles
  <2> QED BY <1>3, <2>1, <2>2 DEF Current, Answers, Endpoint
<1>15. ASSUME WorkerDies PROVE Rest
  <2>1. pc' = "starting" /\ UNCHANGED <<scannerOf, endpoint, validation, capabilities>>
    BY <1>15 DEF WorkerDies, rowVars
  <2>2. \A u \in Owed(s) : u \in Owed(s)'
    BY <1>15, <2>1, DeathLeaves DEF Owed, TasksOf, Handles
  <2> QED BY <1>3, <2>1, <2>2 DEF Current, Answers, Endpoint
<1>16. ASSUME UNCHANGED vars PROVE Rest
  BY <1>3, <1>16 DEF vars, queueVars, rowVars, workerVars, Current, Answers, Endpoint, Runs,
     Waits, Owed, Handles, TasksOf
<1>17. ASSUME NEW t \in Tasks, Within(t), scannerOf[t] = s PROVE Rest
  <2> USE <1>17
  <2>1. Handles(t) /\ UNCHANGED <<phase, scannerOf, endpoint>> /\ Saves(t)
    BY <1>1, WithinKeeps DEF queueVars, Saves
  <2>2. Runs(s) /\ (Waits(s)' <=> Waits(s))
    BY <1>5, <2>1 DEF Runs, TasksOf
  <2>3. CASE Load(t)
    <3>1. pc' = "loaded" /\ loaded' = endpoint[s] /\ t \in Owed(s)'
      BY <2>1, <2>3 DEF Load, Owed, TasksOf, Handles
    <3> QED BY <2>1, <3>1 DEF Current
  <2>4. CASE Resolve(t)
    <3>1. /\ pc = "loaded" /\ pc' = "asking" /\ asked' \in Resolved(s) /\ t \in Owed(s)'
      BY <2>1, <2>4 DEF Resolve, Running, Owed, TasksOf, Handles
    <3>2. \A a \in Resolved(s) : loaded = endpoint[s] => Answers(s, a)
      BY ResolvedIs, TypesSplit
    <3>3. ~Waits(s) => Answers(s, asked')
      BY <1>3, <2>2, <3>1, <3>2 DEF Current
    <3> QED BY <2>1, <2>2, <3>1, <3>3 DEF Current, Answers, Endpoint
  <2>5. CASE SaveCapabilities(t)
    <3>1. /\ pc = "asking" /\ pc' = "fetched" /\ capabilities'[s] = asked /\ t \in Owed(s)'
      BY <1>2, <2>1, <2>5 DEF SaveCapabilities, Running, Set, Owed, TasksOf, Handles
    <3> QED BY <1>3, <2>1, <2>2, <3>1 DEF Current, Answers, Endpoint
  <2>6. CASE SaveReady(t)
    <3>1. pc = "fetched" /\ pc' = "return" /\ capabilities' = capabilities
      BY <2>6 DEF SaveReady, SaveVerdict, Running
    <3>2. Owed(s)' = {} => ~Waits(s)'
      BY DEF Owed, Waits
    <3> QED BY <1>3, <2>1, <2>2, <3>1, <3>2 DEF Current, Answers, Endpoint
  <2>7. CASE SaveFailed(t)
    <3>1. validation'[s] = "failed" /\ pc' = "raise"
      BY <1>1, <2>7 DEF SaveFailed, SaveVerdict, Set
    <3> QED BY <3>1 DEF Current
  <2>8. ~SaveFindsNoRow(t)
    BY <2>1 DEF SaveFindsNoRow
  <2> QED BY <2>3, <2>4, <2>5, <2>6, <2>7, <2>8 DEF Within
<1>18. ASSUME NEW t \in Tasks, Within(t), scannerOf[t] # s PROVE Rest
  <2>1. Handles(t) /\ UNCHANGED <<phase, scannerOf, endpoint>>
    BY <1>18, WithinKeeps DEF queueVars
  <2>2. ~Runs(s)'
    BY <1>18, <2>1, OneHandler DEF Runs, TasksOf, Handles
  <2>3. UNCHANGED <<validation[s], capabilities[s]>>
    BY <1>1, <1>2, <1>18 DEF Within, Load, Resolve, SaveCapabilities, SaveReady, SaveFailed,
       SaveFindsNoRow, SaveVerdict, Saves, Set, rowVars
  <2>4. \A u \in Owed(s) : u \in Owed(s)'
    BY <2>1, <2>2 DEF Owed, Runs, TasksOf, Handles
  <2> QED BY <1>6, <2>1, <2>2, <2>3, <2>4
<1> HIDE DEF Rest
<1>19. Rest
  BY <1>8, <1>9, <1>10, <1>11, <1>12, <1>13, <1>14, <1>15, <1>16, <1>17, <1>18, StepKinds
<1> QED BY <1>19 DEF Rest

-----------------------------------------------------------------------------
LEMMA Starts == Init => IInv
<1> SUFFICES ASSUME Init PROVE IInv
  OBVIOUS
<1> USE ScannersAssumption DEF Init
<1>1. QueueOK /\ \A t \in Tasks : phase[t] = "absent"
  BY QueueStarts DEF QueueInit
<1>2. RowsTyped /\ RestTyped
  BY AnswerTypes DEF RowsTyped, RestTyped, PCs
<1>3. \A t \in Tasks : ~Handles(t)
  BY <1>1 DEF Handles
<1>4. PcFits /\ RowsExist
  BY <1>3 DEF PcFits, RowsExist, Saves
<1>5. \A s \in Scanners : validation[s] \notin {"pending", "ready"} /\ ~Runs(s)
  BY <1>3 DEF Runs, TasksOf
<1> QED BY <1>1, <1>2, <1>4, <1>5, TypesSplit
   DEF IInv, PendingIsOwed, PendingHasTask, LastIsCurrent, ReadyIsOfEndpoint

\* The invariant holds of every behaviour: each part is kept by every request, step of
\* reconcile, step of the handler and death.
THEOREM Inductive == Spec => []IInv
<1>1. IInv /\ [Next]_vars => IInv'
  BY TypesInductive, PcInductive, RowsInductive, PendingInductive, LastInductive DEF IInv
<1> QED BY Starts, <1>1, PTL DEF Spec

\* Rows, tasks and the worker's memory hold values of their kinds.
THEOREM TypeCorrect == Spec => []TypeOK
<1>1. IInv => TypeOK
  BY DEF IInv
<1> QED BY Inductive, <1>1, PTL

\* A scanner that shows as pending has a validation queued or running, however requests,
\* retries, deletions and deaths come together; the one gap is a death between the state
\* and the task, of scanner_revalidate or of reconcile.
THEOREM PendingIsValidated == Spec => []PendingHasTask
<1>1. IInv => PendingHasTask
  BY DEF IInv
<1> QED BY Inductive, <1>1, PTL

\* A scanner that is ready with no verdict to come has the capabilities of its present
\* endpoint, or of one whose name contains its own: the verdict of handle_configure_scanner
\* over an endpoint edited meanwhile is never the last.
THEOREM ReadyIsCurrent == Spec => []ReadyIsOfEndpoint
<1>1. IInv => ReadyIsOfEndpoint
  BY DEF IInv
<1> QED BY Inductive, <1>1, PTL

\* Every step submits, starts or ends one task as the abstract queue does, or leaves the
\* queue alone.
THEOREM ScannersKeepToQueue == Spec => QueueSpec
<1>1. Init => QueueInit
  BY DEF Init
<1>2. IInv /\ [Next]_vars => [QueueNext]_queueVars
  <2> SUFFICES ASSUME IInv, [Next]_vars PROVE [QueueNext]_queueVars
    OBVIOUS
  <2>1. ASSUME NEW s \in Scanners, Enqueue(s) PROVE QueueNext
    BY <2>1, SubmitIsStep DEF Enqueue, Free
  <2>2. ASSUME NEW s \in Scanners, NEW v \in Versions, SaveEndpoint(s, v) PROVE QueueNext
    BY <2>1, <2>2 DEF SaveEndpoint
  <2>3. ASSUME NEW s \in Scanners, Web(s) PROVE UNCHANGED queueVars
    BY <2>3, WebKeeps
  <2>4. ASSUME NEW s \in Scanners, RevalidateEnqueue(s) PROVE QueueNext
    BY <2>1, <2>4 DEF RevalidateEnqueue
  <2>5. Reconciles => UNCHANGED queueVars
    BY ReconcilesKeeps
  <2>6. ReconcileEnqueue => [QueueNext]_queueVars
    <3>1. ReconcileEnqueue => Looked \in Scanners
      BY LookedIsOne DEF ReconcileEnqueue, IInv, PcFits, TypeOK
    <3> QED BY <2>1, <3>1 DEF ReconcileEnqueue
  <2>7. ASSUME NEW t \in Tasks, StartTask(t) \/ EndTask(t) PROVE QueueNext
    BY <2>7 DEF StartTask, EndTask, QueueNext
  <2>8. ASSUME NEW t \in Tasks, Within(t) PROVE UNCHANGED queueVars
    BY <2>8, WithinKeeps
  <2>9. WorkerDies => [QueueNext]_queueVars
    BY DEF WorkerDies, QueueNext
  <2>10. UNCHANGED vars => UNCHANGED queueVars
    BY DEF vars
  <2> QED BY <2>2, <2>3, <2>4, <2>5, <2>6, <2>7, <2>8, <2>9, <2>10, StepKinds
<1> QED BY Inductive, <1>1, <1>2, PTL DEF Spec, QueueSpec
=============================================================================
