----------------------- MODULE AtLeastOnceQueue_proofs -----------------------
(***************************************************************************)
(* What every module built on the abstract queue may take from it, for any *)
(* number of tasks and any limits: the types of its rows, and that no      *)
(* worker executes two tasks. The proofs of the job modules cite the       *)
(* lemmas; the theorems are those of the queue alone.                      *)
(***************************************************************************)
EXTENDS AtLeastOnceQueue, TLAPS

Phases == {"absent", "waiting", "executing", "complete", "failed"}

QueueTypeOK ==
    /\ phase \in [Tasks -> Phases]
    /\ executor \in [Tasks -> Workers \cup {NoWorker}]
    /\ tries \in [Tasks -> Nat]
    /\ limit \in [Tasks -> RetryLimits \cup {0}]

\* A task that executes does so on a worker, and no two of them on the same.
OneTaskEach ==
    /\ \A t \in Tasks : phase[t] = "executing" => executor[t] \in Workers
    /\ \A t, u \in Tasks : phase[t] = "executing" /\ phase[u] = "executing"
                           /\ executor[t] = executor[u] => t = u

\* A task that was started was submitted before.
StartedOnce == \A t \in Tasks : phase[t] \notin {"absent", "waiting"} => tries[t] > 0

Unsubmitted == \A t \in Tasks : phase[t] = "absent" => tries[t] = 0 /\ limit[t] = 0

QueueOK == QueueTypeOK /\ OneTaskEach /\ StartedOnce /\ Unsubmitted

LEMMA QueueStarts == QueueInit => QueueOK
BY DEF QueueInit, QueueOK, QueueTypeOK, OneTaskEach, StartedOnce, Unsubmitted, Phases

LEMMA SubmitAllKeeps == ASSUME QueueOK, NEW new \in SUBSET Tasks, SubmitAll(new) PROVE QueueOK'
BY DEF SubmitAll, QueueOK, QueueTypeOK, OneTaskEach, StartedOnce, Unsubmitted, Phases

LEMMA SubmitKeeps == ASSUME QueueOK, NEW t \in Tasks, Submit(t) PROVE QueueOK'
BY SubmitAllKeeps DEF Submit

LEMMA StartKeeps ==
    ASSUME QueueOK, NEW w \in Workers, NEW t \in Tasks, Start(w, t) PROVE QueueOK'
BY DEF Start, Idle, QueueOK, QueueTypeOK, OneTaskEach, StartedOnce, Unsubmitted, Phases

LEMMA EndKeeps ==
    ASSUME QueueOK, NEW t \in Tasks, NEW p \in {"waiting", "complete", "failed"}, End(t, p)
    PROVE  QueueOK'
BY DEF End, QueueOK, QueueTypeOK, OneTaskEach, StartedOnce, Unsubmitted, Phases

\* The three ways an execution ends.
LEMMA EndingKeeps ==
    ASSUME QueueOK, NEW t \in Tasks, Succeed(t) \/ Fail(t) \/ Lose(t)
    PROVE  QueueOK'
<1>1. CASE Succeed(t)
  BY <1>1, EndKeeps DEF Succeed
<1>2. CASE Fail(t)
  BY <1>2, EndKeeps DEF Fail
<1>3. CASE Lose(t)
  BY <1>3, EndKeeps DEF Lose
<1> QED BY <1>1, <1>2, <1>3

LEMMA StutterKeeps == ASSUME QueueOK, UNCHANGED queueVars PROVE QueueOK'
BY DEF queueVars, QueueOK, QueueTypeOK, OneTaskEach, StartedOnce, Unsubmitted

-----------------------------------------------------------------------------
\* With one worker at most one task executes ...
LEMMA OneExecutes ==
    ASSUME QueueOK, \A v, w \in Workers : v = w,
           NEW t \in Tasks, NEW u \in Tasks, phase[t] = "executing", phase[u] = "executing"
    PROVE  t = u
BY DEF QueueOK, OneTaskEach

\* ... and a task is started only when none does.
LEMMA NoneExecutes ==
    ASSUME QueueOK, \A v, w \in Workers : v = w,
           NEW w \in Workers, NEW t \in Tasks, Start(w, t)
    PROVE  \A u \in Tasks : phase[u] # "executing"
BY DEF Start, Idle, QueueOK, OneTaskEach

\* What a step of the queue does to the phases and to the count of executions.
LEMMA SubmitPhases ==
    ASSUME QueueOK, NEW t \in Tasks, Submit(t)
    PROVE  /\ phase[t] = "absent" /\ phase'[t] = "waiting"
           /\ \A u \in Tasks : u # t => phase'[u] = phase[u]
           /\ tries' = tries
BY DEF Submit, SubmitAll, QueueOK, QueueTypeOK

LEMMA StartPhases ==
    ASSUME QueueOK, NEW w \in Workers, NEW t \in Tasks, Start(w, t)
    PROVE  /\ phase[t] = "waiting" /\ phase'[t] = "executing"
           /\ \A u \in Tasks : u # t => phase'[u] = phase[u] /\ tries'[u] = tries[u]
           /\ tries'[t] = tries[t] + 1
BY DEF Start, QueueOK, QueueTypeOK

LEMMA EndingPhases ==
    ASSUME QueueOK, NEW t \in Tasks, Succeed(t) \/ Fail(t) \/ Lose(t)
    PROVE  /\ phase[t] = "executing"
           /\ \A u \in Tasks : u # t => phase'[u] = phase[u]
           /\ Succeed(t) => phase'[t] = "complete"
           /\ Fail(t) => phase'[t] \in {"waiting", "failed"}
           /\ Lose(t) => phase'[t] = "waiting"
           /\ tries' = tries
BY DEF Succeed, Fail, Lose, End, QueueOK, QueueTypeOK

\* A submission is a step of the queue.
LEMMA SubmitIsStep == ASSUME NEW t \in Tasks, Submit(t) PROVE QueueNext
BY DEF Submit, QueueNext

-----------------------------------------------------------------------------
\* The rows of the abstract queue keep their types, and each worker its one task.
THEOREM QueueIsSound == QueueSpec => []QueueOK
<1>1. QueueOK /\ [QueueNext]_queueVars => QueueOK'
  BY SubmitAllKeeps, StartKeeps, EndingKeeps, StutterKeeps DEF QueueNext
<1> QED BY QueueStarts, <1>1, PTL DEF QueueSpec
=============================================================================
