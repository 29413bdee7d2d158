----------------------------- MODULE TaskQueue -----------------------------
(***************************************************************************)
(* The persistent task queue: the Task rows, claim_task and process_one    *)
(* (manager/task_processor.py) and the runworker loop that calls them,     *)
(* with the clock, the 20-minute leases, the retry backoff and the death   *)
(* of a worker process at any point.                                       *)
(*                                                                         *)
(* A row's number is its rank in created_at, the order claim_task takes    *)
(* rows in. Times are kept as what is left of them: leaseLeft[t] is        *)
(* lease_expires_at - now and waitLeft[t] is run_after - now, so the clock *)
(* itself needs no bound. What a handler does is left to the modules of    *)
(* the jobs: here it takes at most HandlerMax and returns or raises.       *)
(***************************************************************************)
EXTENDS Integers

CONSTANTS
    MaxTasks,      \* Task rows
    Workers,       \* runworker processes (one in docker/supervisord.conf)
    NoOwner,       \* lease_owner = ""
    RetryLimits,   \* values of the setting task_retry_limit
    Lease,         \* length of a lease
    Backoff,       \* unit of the delay before a retry
    HandlerMax,    \* longest time a handler runs
    MaxExits       \* bound: worker processes that die

Tasks == 1..MaxTasks
NoTask == 0

ASSUME TaskQueueAssumption ==
    /\ MaxTasks \in Nat
    /\ NoOwner \notin Workers
    /\ RetryLimits \subseteq Nat \ {0}
    /\ Lease \in Nat
    /\ Backoff \in Nat
    /\ HandlerMax \in Nat
    /\ MaxExits \in Nat

\* Nothing checks the lease when a handler ends, so the queue is sound only if
\* no other worker can claim a row whose handler is still running.
ASSUME LeaseAssumption ==
    \/ HandlerMax <= Lease
    \/ \A v, w \in Workers : v = w

VARIABLES
    state,         \* Task.state, "absent" before the row is created
    attempts,      \* Task.attempts
    maxAttempts,   \* Task.max_attempts
    waitLeft,      \* Task.run_after, 0 once it has passed
    owner,         \* Task.lease_owner
    leaseLeft,     \* Task.lease_expires_at, -1 once it has passed, 0 if None
    up,            \* the worker process is running
    current,       \* the row whose handler the worker runs
    claimedAs,     \* attempts in that worker's copy of the row
    elapsed,       \* for how long it has been running
    exits,         \* worker processes that died (bounded by MaxExits)
    lost           \* history: executions of each task cut short by an exit

rowVars == <<state, attempts, maxAttempts, waitLeft, owner, leaseLeft>>
workerVars == <<up, current, claimedAs, elapsed>>
vars == <<rowVars, workerVars, exits, lost>>

-----------------------------------------------------------------------------
\* Fault: a lease is taken for expired at the very moment it ends.
ExpiredAtOnce(t) == state[t] = "running" /\ leaseLeft[t] <= 0

\* Fault: the comparison with now is the wrong way round.
ExpiredNever(t) == state[t] = "running" /\ leaseLeft[t] > Lease

\* claim_task's first statement, on the lease of one row.
Expired(t) == state[t] = "running" /\ leaseLeft[t] < 0

\* The states of the rows once that statement has run.
Recovered == [t \in Tasks |-> IF Expired(t) THEN "pending" ELSE state[t]]

\* Fault: failed rows are among the rows to claim.
DueOrFailed(t) == Recovered[t] \in {"pending", "failed"} /\ waitLeft[t] = 0

Due(t) == Recovered[t] = "pending" /\ waitLeft[t] = 0

\* Fault: rows come in no particular order.
IsAnyDue(t) == Due(t)

\* The row .first() returns: Meta.ordering is created_at.
IsFirstDue(t) == Due(t) /\ \A u \in Tasks : Due(u) => t <= u

\* Fault: one retry too many.
RetriesOnceMore(t, n) == IF n <= maxAttempts[t] THEN "pending" ELSE "failed"

\* Fault: a state the queue does not know.
RetryState(t, n) == IF n < maxAttempts[t] THEN "retry" ELSE "failed"

\* What becomes of a row whose handler raised in a worker that read n attempts.
AfterFailure(t, n) == IF n < maxAttempts[t] THEN "pending" ELSE "failed"

-----------------------------------------------------------------------------
Init ==
    /\ state = [t \in Tasks |-> "absent"]
    /\ attempts = [t \in Tasks |-> 0]
    /\ maxAttempts = [t \in Tasks |-> 0]
    /\ waitLeft = [t \in Tasks |-> 0]
    /\ owner = [t \in Tasks |-> NoOwner]
    /\ leaseLeft = [t \in Tasks |-> 0]
    /\ up = [w \in Workers |-> FALSE]
    /\ current = [w \in Workers |-> NoTask]
    /\ claimedAs = [w \in Workers |-> 0]
    /\ elapsed = [w \in Workers |-> 0]
    /\ exits = 0
    /\ lost = [t \in Tasks |-> 0]

\* Task.enqueue, once or several times in one transaction. created_at is taken before
\* the insert, so rows of concurrent requests may appear out of order: any absent rows
\* can be the next.
Enqueue(new) ==
    /\ \A t \in new : state[t] = "absent"
    /\ state' = [t \in Tasks |-> IF t \in new THEN "pending" ELSE state[t]]
    /\ \E n \in RetryLimits :
        maxAttempts' = [t \in Tasks |-> IF t \in new THEN n ELSE maxAttempts[t]]
    /\ UNCHANGED <<attempts, waitLeft, owner, leaseLeft, workerVars, exits, lost>>

\* claim_task, one transaction: the update takes SQLite's write lock, so nothing
\* comes between the recovery of expired leases and the claim.
Claim(w) ==
    /\ up[w]
    /\ current[w] = NoTask
    /\ \E t \in Tasks :
        /\ IsFirstDue(t)
        /\ state' = [Recovered EXCEPT ![t] = "running"]
        /\ owner' = [u \in Tasks |-> IF u = t THEN w
                                     ELSE IF Expired(u) THEN NoOwner ELSE owner[u]]
        /\ leaseLeft' = [u \in Tasks |-> IF u = t THEN Lease
                                         ELSE IF Expired(u) THEN 0 ELSE leaseLeft[u]]
        /\ attempts' = [attempts EXCEPT ![t] = @ + 1]
        /\ current' = [current EXCEPT ![w] = t]
        /\ claimedAs' = [claimedAs EXCEPT ![w] = attempts[t] + 1]
    /\ elapsed' = [elapsed EXCEPT ![w] = 0]
    /\ UNCHANGED <<maxAttempts, waitLeft, up, exits, lost>>

\* The save that ends process_one: it names the row by its key and writes the
\* lease away whoever holds it; attempts is not among the fields it saves.
Release(w, s) ==
    /\ current[w] # NoTask
    /\ state' = [state EXCEPT ![current[w]] = s]
    /\ owner' = [owner EXCEPT ![current[w]] = NoOwner]
    /\ leaseLeft' = [leaseLeft EXCEPT ![current[w]] = 0]
    /\ current' = [current EXCEPT ![w] = NoTask]
    /\ claimedAs' = [claimedAs EXCEPT ![w] = 0]
    /\ elapsed' = [elapsed EXCEPT ![w] = 0]
    /\ UNCHANGED <<attempts, maxAttempts, up, exits, lost>>

\* process_one, the handler returned.
HandlerReturns(w) ==
    /\ Release(w, "complete")
    /\ UNCHANGED waitLeft

\* process_one, the handler raised.
HandlerRaises(w) ==
    LET s == AfterFailure(current[w], claimedAs[w])
    IN  /\ Release(w, s)
        /\ waitLeft' = IF s = "pending"
                       THEN [waitLeft EXCEPT ![current[w]] = Backoff * claimedAs[w]]
                       ELSE waitLeft

\* The process ends: SIGTERM between two tasks, or a kill, a restart of the
\* container or an error outside process_one's try at any time.
Exit(w) ==
    /\ up[w]
    /\ exits < MaxExits
    /\ exits' = exits + 1
    /\ up' = [up EXCEPT ![w] = FALSE]
    /\ current' = [current EXCEPT ![w] = NoTask]
    /\ claimedAs' = [claimedAs EXCEPT ![w] = 0]
    /\ elapsed' = [elapsed EXCEPT ![w] = 0]
    /\ lost' = [t \in Tasks |-> IF t = current[w] THEN lost[t] + 1 ELSE lost[t]]
    /\ UNCHANGED rowVars

\* supervisord (autorestart=true) starts a process again.
StartWorker(w) ==
    /\ ~up[w]
    /\ up' = [up EXCEPT ![w] = TRUE]
    /\ UNCHANGED <<rowVars, current, claimedAs, elapsed, exits, lost>>

\* Time passes, at most until the running handlers have had their HandlerMax.
Tick ==
    /\ \A w \in Workers : current[w] # NoTask => elapsed[w] < HandlerMax
    /\ leaseLeft' = [t \in Tasks |-> IF state[t] = "running" /\ leaseLeft[t] >= 0
                                     THEN leaseLeft[t] - 1 ELSE leaseLeft[t]]
    /\ waitLeft' = [t \in Tasks |-> IF waitLeft[t] > 0 THEN waitLeft[t] - 1 ELSE 0]
    /\ elapsed' = [w \in Workers |-> IF current[w] # NoTask THEN elapsed[w] + 1 ELSE 0]
    /\ UNCHANGED <<state, attempts, maxAttempts, owner, up, current, claimedAs, exits, lost>>

Next ==
    \/ \E new \in SUBSET Tasks \ {{}} : Enqueue(new)
    \/ \E w \in Workers :
        \/ Claim(w)
        \/ HandlerReturns(w)
        \/ HandlerRaises(w)
        \/ Exit(w)
        \/ StartWorker(w)
    \/ Tick

Spec == Init /\ [][Next]_vars

\* The loop of runworker never stops claiming and a handler always ends (its
\* subprocesses and sockets have timeouts); supervisord restarts the worker.
Fairness ==
    /\ WF_vars(Tick)
    /\ \A w \in Workers :
        /\ WF_vars(StartWorker(w))
        /\ WF_vars(Claim(w))
        /\ WF_vars(HandlerReturns(w) \/ HandlerRaises(w))

FairSpec == Spec /\ Fairness
-----------------------------------------------------------------------------
States == {"absent", "pending", "running", "complete", "failed"}
Finished == {"complete", "failed"}

\* Type invariant: every row and every worker holds values of its kind.
TypeOK ==
    /\ state \in [Tasks -> States]
    /\ attempts \in [Tasks -> Nat]
    /\ maxAttempts \in [Tasks -> Nat]
    /\ waitLeft \in [Tasks -> Nat]
    /\ owner \in [Tasks -> Workers \cup {NoOwner}]
    /\ leaseLeft \in [Tasks -> -1..Lease]
    /\ up \in [Workers -> BOOLEAN]
    /\ current \in [Workers -> Tasks \cup {NoTask}]
    /\ claimedAs \in [Workers -> Nat]
    /\ elapsed \in [Workers -> 0..HandlerMax]
    /\ exits \in 0..MaxExits
    /\ lost \in [Tasks -> Nat]

\* No task is executed by two workers at once: a lease is recovered only when
\* its worker is gone (claim_task's update of expired leases).
OneExecutor ==
    \A v, w \in Workers : v # w /\ current[v] # NoTask => current[v] # current[w]

\* The retry limit is exceeded only by executions that were cut short: a task is
\* started at most max_attempts times plus once for each time its worker died,
\* and it is given up only when its retries are used up.
RetryBudget ==
    \A t \in Tasks :
        /\ attempts[t] <= maxAttempts[t] + lost[t]
        /\ state[t] = "failed" => attempts[t] >= maxAttempts[t]

FinishedUntouched ==
    \A t \in Tasks : state[t] \in Finished =>
        state'[t] = state[t] /\ attempts'[t] = attempts[t]

\* A complete or failed task is never touched again: no late save of another
\* worker, no recovered lease brings it back to the queue.
FinishedIsFinal == [][FinishedUntouched]_vars

\* Every task that was enqueued completes or is given up, through failures,
\* backoffs and lost workers.
EveryTaskEnds ==
    \A t \in Tasks : state[t] = "pending" ~> state[t] \in Finished
-----------------------------------------------------------------------------
(* The inductive invariant of the queue, by its parts.                     *)

\* A worker that runs a handler still holds the row it claimed, unchanged, so
\* the save that ends process_one, which does not look, overwrites nothing.
HolderIsCurrent ==
    \A w \in Workers : current[w] # NoTask =>
        /\ state[current[w]] = "running"
        /\ owner[current[w]] = w
        /\ attempts[current[w]] = claimedAs[w]

\* While handlers end within the lease, a lease outlives the handler it covers.
LeaseCoversHandler ==
    HandlerMax <= Lease =>
        \A w \in Workers : current[w] # NoTask =>
            leaseLeft[current[w]] + elapsed[w] = Lease

Unheld(t) == \A w \in Workers : current[w] # t

\* A row that no worker holds and that may be started again has budget left.
BudgetLeft ==
    \A t \in Tasks : state[t] \in {"pending", "running"} /\ Unheld(t) =>
        attempts[t] < maxAttempts[t] + lost[t]

\* A row that was never started waits for nothing but its turn.
UntriedIsDue ==
    \A t \in Tasks :
        /\ state[t] = "absent" => attempts[t] = 0
        /\ attempts[t] = 0 => state[t] \in {"absent", "pending"} /\ waitLeft[t] = 0

\* The inductive invariant: what every step of the queue preserves and what
\* its other properties follow from.
QueueInv ==
    /\ TypeOK
    /\ HolderIsCurrent
    /\ LeaseCoversHandler
    /\ BudgetLeft
    /\ UntriedIsDue
    /\ RetryBudget
-----------------------------------------------------------------------------
\* The refinement mapping: a row in state "running" whose worker is gone waits,
\* whether or not claim_task has noticed.
Executing(t) == owner[t] # NoOwner /\ current[owner[t]] = t

absPhase ==
    [t \in Tasks |-> IF Executing(t) THEN "executing"
                     ELSE IF state[t] \in {"pending", "running"} THEN "waiting"
                     ELSE state[t]]

absExecutor == [t \in Tasks |-> IF Executing(t) THEN owner[t] ELSE NoOwner]

Abstract == INSTANCE AtLeastOnceQueue WITH
    NoWorker <- NoOwner, phase <- absPhase, executor <- absExecutor,
    tries <- attempts, limit <- maxAttempts

\* The leased queue implements the queue the job modules are built on.
ImplementsQueue == Abstract!QueueSpec
=============================================================================
