-------------------------- MODULE AtLeastOnceQueue --------------------------
(***************************************************************************)
(* What the persistent task queue promises to the rest of Printer Manager: *)
(* a submitted task is executed by one worker at a time, in submission     *)
(* order as long as it has not been tried, again after a failure while its *)
(* retry limit allows and again after its worker was lost; once it is      *)
(* complete or failed it never runs again.                                 *)
(*                                                                         *)
(* There are no leases and no clocks here: TaskQueue.tla, which has them,  *)
(* is shown to implement this specification, and the modules of the jobs   *)
(* are built on it.                                                        *)
(***************************************************************************)
EXTENDS Integers

CONSTANTS
    MaxTasks,      \* number of Task rows; a row's number is its rank in created_at
    Workers,       \* runworker processes
    NoWorker,      \* no executor
    RetryLimits    \* values Task.enqueue can find in task_retry_limit

VARIABLES
    phase,         \* where each task is in its life
    executor,      \* the worker executing it
    tries,         \* how many times an execution was started
    limit          \* max_attempts, fixed when the task is submitted

queueVars == <<phase, executor, tries, limit>>

Tasks == 1..MaxTasks

Idle(w) == \A t \in Tasks : executor[t] # w

\* A waiting task that was never started is due at once, and rows are taken in
\* created_at order: only tasks held back by a backoff or a lost lease are passed.
Overtakes(t) == \A u \in 1..(t - 1) : phase[u] = "waiting" => tries[u] > 0

QueueInit ==
    /\ phase = [t \in Tasks |-> "absent"]
    /\ executor = [t \in Tasks |-> NoWorker]
    /\ tries = [t \in Tasks |-> 0]
    /\ limit = [t \in Tasks |-> 0]

\* The tasks of one transaction, which all become visible at its end.
SubmitAll(new) ==
    /\ \A t \in new : phase[t] = "absent"
    /\ phase' = [t \in Tasks |-> IF t \in new THEN "waiting" ELSE phase[t]]
    /\ \E n \in RetryLimits : limit' = [t \in Tasks |-> IF t \in new THEN n ELSE limit[t]]
    /\ UNCHANGED <<executor, tries>>

Submit(t) == SubmitAll({t})

Start(w, t) ==
    /\ phase[t] = "waiting"
    /\ Idle(w)
    /\ Overtakes(t)
    /\ phase' = [phase EXCEPT ![t] = "executing"]
    /\ executor' = [executor EXCEPT ![t] = w]
    /\ tries' = [tries EXCEPT ![t] = @ + 1]
    /\ UNCHANGED limit

\* The execution of t ends and the task goes to phase p.
End(t, p) ==
    /\ phase[t] = "executing"
    /\ phase' = [phase EXCEPT ![t] = p]
    /\ executor' = [executor EXCEPT ![t] = NoWorker]
    /\ UNCHANGED <<tries, limit>>

Succeed(t) == End(t, "complete")

Fail(t) == End(t, IF tries[t] < limit[t] THEN "waiting" ELSE "failed")

\* The worker dies: the execution has no outcome and the task is due again.
Lose(t) == End(t, "waiting")

QueueNext ==
    \/ \E new \in SUBSET Tasks : SubmitAll(new)
    \/ \E t \in Tasks :
        \/ \E w \in Workers : Start(w, t)
        \/ Succeed(t)
        \/ Fail(t)
        \/ Lose(t)

QueueSpec == QueueInit /\ [][QueueNext]_queueVars
=============================================================================
