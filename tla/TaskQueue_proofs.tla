-------------------------- MODULE TaskQueue_proofs --------------------------
(***************************************************************************)
(* The queue of TaskQueue.tla is sound for every number of tasks, workers, *)
(* retries, exits and every length of the lease, under LeaseAssumption:    *)
(* handlers end within the lease, or there is one worker.                  *)
(***************************************************************************)
EXTENDS TaskQueue, TLAPS

USE DEF States

\* Rows are numbered from 1, so no row is mistaken for the absence of one.
LEMMA TaskIsSome == ASSUME NEW t \in Tasks PROVE t # NoTask /\ t \in Nat
BY TaskQueueAssumption DEF Tasks, NoTask

\* A backoff is a number of ticks.
LEMMA BackoffIsNat == ASSUME NEW n \in Nat PROVE Backoff * n \in Nat
BY TaskQueueAssumption

\* claim_task never takes a row from a live handler: while some worker is free
\* to claim, a row whose lease has passed is held by no worker.
LEMMA ExpiredIsUnheld ==
    ASSUME QueueInv, NEW v \in Workers, current[v] = NoTask,
           NEW u \in Tasks, Expired(u)
    PROVE  Unheld(u)
<1> SUFFICES ASSUME NEW w \in Workers, current[w] = u PROVE FALSE
  BY DEF Unheld
<1>1. CASE HandlerMax <= Lease
  <2>1. leaseLeft[u] + elapsed[w] = Lease
    BY <1>1, TaskIsSome DEF QueueInv, LeaseCoversHandler
  <2>2. elapsed[w] \in 0..HandlerMax /\ leaseLeft[u] \in -1..Lease
    BY DEF QueueInv, TypeOK
  <2> QED BY <1>1, <2>1, <2>2, TaskQueueAssumption DEF Expired
<1>2. CASE \A x, y \in Workers : x = y
  BY <1>2, TaskIsSome
<1> QED BY <1>1, <1>2, LeaseAssumption

-----------------------------------------------------------------------------
\* Every step keeps rows and workers within their types.
LEMMA TypeInductive == ASSUME TypeOK, [Next]_vars PROVE TypeOK'
<1> USE TaskQueueAssumption DEF TypeOK
<1>1. ASSUME NEW new \in SUBSET Tasks, Enqueue(new) PROVE TypeOK'
  BY <1>1 DEF Enqueue, workerVars
<1>2. ASSUME NEW w \in Workers, Claim(w) PROVE TypeOK'
  <2> PICK t \in Tasks :
        /\ state' = [Recovered EXCEPT ![t] = "running"]
        /\ owner' = [u \in Tasks |-> IF u = t THEN w
                                     ELSE IF Expired(u) THEN NoOwner ELSE owner[u]]
        /\ leaseLeft' = [u \in Tasks |-> IF u = t THEN Lease
                                         ELSE IF Expired(u) THEN 0 ELSE leaseLeft[u]]
        /\ attempts' = [attempts EXCEPT ![t] = @ + 1]
        /\ current' = [current EXCEPT ![w] = t]
        /\ claimedAs' = [claimedAs EXCEPT ![w] = attempts[t] + 1]
    BY <1>2 DEF Claim
  <2>1. Recovered \in [Tasks -> States]
    BY DEF Recovered
  <2>2. state' \in [Tasks -> States] /\ owner' \in [Tasks -> Workers \cup {NoOwner}]
    BY <2>1
  <2>3. leaseLeft' \in [Tasks -> -1..Lease]
    OBVIOUS
  <2>4. attempts' \in [Tasks -> Nat] /\ claimedAs' \in [Workers -> Nat]
    OBVIOUS
  <2>5. current' \in [Workers -> Tasks \cup {NoTask}] /\ elapsed' \in [Workers -> 0..HandlerMax]
    BY <1>2 DEF Claim
  <2> QED BY <1>2, <2>2, <2>3, <2>4, <2>5 DEF Claim
<1>3. ASSUME NEW w \in Workers, HandlerReturns(w) PROVE TypeOK'
  BY <1>3 DEF HandlerReturns, Release
<1>4. ASSUME NEW w \in Workers, HandlerRaises(w) PROVE TypeOK'
  <2>1. waitLeft' \in [Tasks -> Nat]
    BY <1>4, BackoffIsNat DEF HandlerRaises, Release
  <2>2. AfterFailure(current[w], claimedAs[w]) \in States
    BY DEF AfterFailure
  <2> QED BY <1>4, <2>1, <2>2 DEF HandlerRaises, Release
<1>5. ASSUME NEW w \in Workers, Exit(w) PROVE TypeOK'
  BY <1>5 DEF Exit, rowVars
<1>6. ASSUME NEW w \in Workers, StartWorker(w) PROVE TypeOK'
  BY <1>6 DEF StartWorker, rowVars
<1>7. CASE Tick
  <2>1. leaseLeft' \in [Tasks -> -1..Lease] /\ waitLeft' \in [Tasks -> Nat]
    BY <1>7 DEF Tick
  <2>2. elapsed' \in [Workers -> 0..HandlerMax]
    BY <1>7 DEF Tick
  <2> QED BY <1>7, <2>1, <2>2 DEF Tick
<1>8. CASE UNCHANGED vars
  BY <1>8 DEF vars, rowVars, workerVars
<1> QED BY <1>1, <1>2, <1>3, <1>4, <1>5, <1>6, <1>7, <1>8 DEF Next

\* Every row and every worker always holds values of its kind.
THEOREM TypeCorrect == Spec => []TypeOK
<1>1. Init => TypeOK
  BY TaskQueueAssumption DEF Init, TypeOK
<1> QED BY <1>1, TypeInductive, PTL DEF Spec

-----------------------------------------------------------------------------
\* The parts of the invariant other than the types, after every step.

LEMMA ClaimKeepsInv ==
    ASSUME QueueInv, TypeOK', NEW w \in Workers, Claim(w) PROVE QueueInv'
<1> USE DEF QueueInv, TypeOK
<1> PICK t \in Tasks :
      /\ IsFirstDue(t)
      /\ state' = [Recovered EXCEPT ![t] = "running"]
      /\ owner' = [u \in Tasks |-> IF u = t THEN w
                                   ELSE IF Expired(u) THEN NoOwner ELSE owner[u]]
      /\ leaseLeft' = [u \in Tasks |-> IF u = t THEN Lease
                                       ELSE IF Expired(u) THEN 0 ELSE leaseLeft[u]]
      /\ attempts' = [attempts EXCEPT ![t] = @ + 1]
      /\ current' = [current EXCEPT ![w] = t]
      /\ claimedAs' = [claimedAs EXCEPT ![w] = attempts[t] + 1]
  BY DEF Claim
<1>1. current[w] = NoTask /\ elapsed' = [elapsed EXCEPT ![w] = 0]
      /\ UNCHANGED <<maxAttempts, waitLeft, exits, lost>>
  BY DEF Claim
<1>2. \A u \in Tasks : Expired(u) => Unheld(u)
  BY <1>1, ExpiredIsUnheld
<1>3. Unheld(t)
  BY <1>2, TaskIsSome DEF IsFirstDue, Due, Recovered, HolderIsCurrent, Unheld
<1>4. \A u \in Tasks : u # t =>
        /\ state'[u] = IF Expired(u) THEN "pending" ELSE state[u]
        /\ attempts'[u] = attempts[u]
  BY DEF Recovered
<1>5. state'[t] = "running" /\ attempts'[t] = attempts[t] + 1
  BY DEF Recovered
<1>6. \A v \in Workers : v # w /\ current'[v] # NoTask =>
        /\ current'[v] = current[v] /\ current[v] \in Tasks /\ current[v] # t
        /\ ~Expired(current[v])
  BY <1>2, <1>3 DEF Unheld
<1>7. HolderIsCurrent'
  BY <1>4, <1>5, <1>6 DEF HolderIsCurrent
<1>8. LeaseCoversHandler'
  BY <1>1, <1>6, TaskQueueAssumption DEF LeaseCoversHandler
<1>9. state[t] \in {"pending", "running"}
  BY DEF IsFirstDue, Due, Recovered, Expired
<1>10. BudgetLeft'
  <2> SUFFICES ASSUME NEW u \in Tasks, state'[u] \in {"pending", "running"}, Unheld(u)'
               PROVE  attempts'[u] < maxAttempts'[u] + lost'[u]
    BY DEF BudgetLeft
  <2>1. u # t
    BY DEF Unheld
  <2>2. Unheld(u)
    BY <1>1, <2>1, TaskIsSome DEF Unheld
  <2> QED BY <1>1, <1>4, <2>1, <2>2 DEF BudgetLeft, Expired
<1>11. UntriedIsDue'
  BY <1>1, <1>4, <1>5 DEF UntriedIsDue, Expired
<1>12. RetryBudget'
  <2>1. attempts'[t] <= maxAttempts'[t] + lost'[t]
    BY <1>1, <1>3, <1>5, <1>9 DEF BudgetLeft
  <2> QED BY <1>1, <1>4, <1>5, <2>1 DEF RetryBudget
<1> QED BY <1>7, <1>8, <1>10, <1>11, <1>12

LEMMA ReleaseKeepsInv ==
    ASSUME QueueInv, TypeOK', NEW w \in Workers, HandlerReturns(w) \/ HandlerRaises(w)
    PROVE  QueueInv'
<1> USE DEF QueueInv, TypeOK
<1> DEFINE t == current[w]
           s == state'[t]
<1>1. t # NoTask /\ t \in Tasks
  BY DEF HandlerReturns, HandlerRaises, Release
<1>2. /\ state[t] = "running" /\ owner[t] = w /\ attempts[t] = claimedAs[w]
      /\ \A v \in Workers : v # w => current[v] # t
  BY <1>1 DEF HolderIsCurrent
<1>3. /\ UNCHANGED <<attempts, maxAttempts, exits, lost>>
      /\ current' = [current EXCEPT ![w] = NoTask]
      /\ claimedAs' = [claimedAs EXCEPT ![w] = 0]
      /\ elapsed' = [elapsed EXCEPT ![w] = 0]
      /\ leaseLeft' = [leaseLeft EXCEPT ![t] = 0]
      /\ owner' = [owner EXCEPT ![t] = NoOwner]
      /\ \A u \in Tasks : u # t => state'[u] = state[u] /\ waitLeft'[u] = waitLeft[u]
  BY DEF HandlerReturns, HandlerRaises, Release
<1>4. \/ s = "complete"
      \/ s = "pending" /\ attempts[t] < maxAttempts[t]
      \/ s = "failed" /\ attempts[t] >= maxAttempts[t]
  BY <1>1, <1>2 DEF HandlerReturns, HandlerRaises, Release, AfterFailure
<1>5. attempts[t] # 0
  BY <1>1, <1>2 DEF UntriedIsDue
<1>6. \A v \in Workers : current'[v] # NoTask => v # w /\ current'[v] = current[v] /\ current[v] # t
  BY <1>2, <1>3
<1>7. HolderIsCurrent'
  BY <1>3, <1>6 DEF HolderIsCurrent
<1>8. LeaseCoversHandler'
  BY <1>3, <1>6 DEF LeaseCoversHandler
<1>9. BudgetLeft'
  <2> SUFFICES ASSUME NEW u \in Tasks, state'[u] \in {"pending", "running"}, Unheld(u)'
               PROVE  attempts'[u] < maxAttempts'[u] + lost'[u]
    BY DEF BudgetLeft
  <2>1. CASE u = t
    BY <1>3, <1>4, <2>1
  <2>2. CASE u # t
    <3>1. Unheld(u)
      BY <1>3, <2>2 DEF Unheld
    <3> QED BY <1>3, <2>2, <3>1 DEF BudgetLeft
  <2> QED BY <2>1, <2>2
<1>10. UntriedIsDue'
  BY <1>3, <1>4, <1>5 DEF UntriedIsDue
<1>11. RetryBudget'
  BY <1>3, <1>4 DEF RetryBudget
<1> QED BY <1>7, <1>8, <1>9, <1>10, <1>11

LEMMA ExitKeepsInv ==
    ASSUME QueueInv, TypeOK', NEW w \in Workers, Exit(w) PROVE QueueInv'
<1> USE DEF QueueInv, TypeOK
<1>1. /\ UNCHANGED <<state, attempts, maxAttempts, waitLeft, owner, leaseLeft>>
      /\ current' = [current EXCEPT ![w] = NoTask]
      /\ claimedAs' = [claimedAs EXCEPT ![w] = 0]
      /\ elapsed' = [elapsed EXCEPT ![w] = 0]
      /\ lost' = [t \in Tasks |-> IF t = current[w] THEN lost[t] + 1 ELSE lost[t]]
  BY DEF Exit, rowVars
<1>2. HolderIsCurrent' /\ LeaseCoversHandler'
  BY <1>1 DEF HolderIsCurrent, LeaseCoversHandler
<1>3. BudgetLeft'
  <2> SUFFICES ASSUME NEW u \in Tasks, state'[u] \in {"pending", "running"}, Unheld(u)'
               PROVE  attempts'[u] < maxAttempts'[u] + lost'[u]
    BY DEF BudgetLeft
  <2>1. CASE u = current[w]
    BY <1>1, <2>1 DEF RetryBudget
  <2>2. CASE u # current[w]
    <3>1. Unheld(u)
      BY <1>1, <2>2 DEF Unheld
    <3> QED BY <1>1, <2>2, <3>1 DEF BudgetLeft
  <2> QED BY <2>1, <2>2
<1>4. UntriedIsDue' /\ RetryBudget'
  BY <1>1 DEF UntriedIsDue, RetryBudget
<1> QED BY <1>2, <1>3, <1>4

LEMMA EnqueueKeepsInv ==
    ASSUME QueueInv, TypeOK', NEW new \in SUBSET Tasks, Enqueue(new) PROVE QueueInv'
<1> USE DEF QueueInv, TypeOK
<1> PICK n \in RetryLimits :
       maxAttempts' = [t \in Tasks |-> IF t \in new THEN n ELSE maxAttempts[t]]
  BY DEF Enqueue
<1>1. /\ \A t \in new : state[t] = "absent"
      /\ state' = [t \in Tasks |-> IF t \in new THEN "pending" ELSE state[t]]
      /\ UNCHANGED <<attempts, waitLeft, owner, leaseLeft, current, claimedAs, elapsed, lost>>
  BY DEF Enqueue, workerVars
<1>2. n \in Nat /\ n > 0 /\ \A t \in new : attempts[t] = 0 /\ waitLeft[t] = 0
  BY <1>1, TaskQueueAssumption DEF UntriedIsDue
<1>3. HolderIsCurrent' /\ LeaseCoversHandler'
  BY <1>1 DEF HolderIsCurrent, LeaseCoversHandler
<1>4. BudgetLeft'
  BY <1>1, <1>2 DEF BudgetLeft, Unheld
<1>5. UntriedIsDue' /\ RetryBudget'
  BY <1>1, <1>2 DEF UntriedIsDue, RetryBudget
<1> QED BY <1>3, <1>4, <1>5

LEMMA TickKeepsInv == ASSUME QueueInv, TypeOK', Tick PROVE QueueInv'
<1> USE DEF QueueInv, TypeOK
<1>1. UNCHANGED <<state, attempts, maxAttempts, owner, current, claimedAs, lost>>
  BY DEF Tick
<1>2. HolderIsCurrent'
  BY <1>1 DEF HolderIsCurrent
<1>3. LeaseCoversHandler'
  <2> SUFFICES ASSUME HandlerMax <= Lease, NEW w \in Workers, current[w] # NoTask
               PROVE  leaseLeft'[current[w]] + elapsed'[w] = Lease
    BY <1>1 DEF LeaseCoversHandler
  <2>1. elapsed[w] \in 0..HandlerMax /\ elapsed[w] < HandlerMax /\ elapsed'[w] = elapsed[w] + 1
    BY DEF Tick
  <2>2. state[current[w]] = "running" /\ leaseLeft[current[w]] + elapsed[w] = Lease
    BY DEF HolderIsCurrent, LeaseCoversHandler
  <2>3. leaseLeft[current[w]] \in -1..Lease /\ leaseLeft[current[w]] >= 0
    BY <2>1, <2>2, TaskQueueAssumption
  <2>4. leaseLeft'[current[w]] = leaseLeft[current[w]] - 1
    BY <2>2, <2>3 DEF Tick
  <2> QED BY <2>1, <2>2, <2>3, <2>4
<1>4. BudgetLeft' /\ RetryBudget'
  BY <1>1 DEF BudgetLeft, RetryBudget, Unheld
<1>5. UntriedIsDue'
  BY <1>1 DEF UntriedIsDue, Tick
<1> QED BY <1>2, <1>3, <1>4, <1>5

LEMMA InvInductive == ASSUME QueueInv, [Next]_vars PROVE QueueInv'
<1>1. TypeOK'
  BY TypeInductive DEF QueueInv
<1>2. ASSUME NEW w \in Workers, StartWorker(w) PROVE QueueInv'
  BY <1>1, <1>2 DEF StartWorker, rowVars, QueueInv, HolderIsCurrent, LeaseCoversHandler,
     BudgetLeft, Unheld, UntriedIsDue, RetryBudget
<1>3. CASE UNCHANGED vars
  BY <1>1, <1>3 DEF vars, rowVars, workerVars, QueueInv, HolderIsCurrent, LeaseCoversHandler,
     BudgetLeft, Unheld, UntriedIsDue, RetryBudget
<1> QED
  BY <1>1, <1>2, <1>3, EnqueueKeepsInv, ClaimKeepsInv, ReleaseKeepsInv, ExitKeepsInv,
     TickKeepsInv DEF Next

\* The invariant of the queue holds in every reachable state.
THEOREM QueueInvariant == Spec => []QueueInv
<1>1. Init => QueueInv
  BY TaskQueueAssumption DEF Init, QueueInv, TypeOK, HolderIsCurrent, LeaseCoversHandler,
     BudgetLeft, UntriedIsDue, RetryBudget
<1> QED BY <1>1, InvInductive, PTL DEF Spec

\* No task is ever executed by two workers at once.
THEOREM MutualExclusion == Spec => []OneExecutor
<1>1. QueueInv => OneExecutor
  BY DEF QueueInv, HolderIsCurrent, OneExecutor
<1> QED BY <1>1, QueueInvariant, PTL

\* Starts in excess of max_attempts are executions lost to a dead worker, and a
\* task is given up only with its retries used up.
THEOREM RetriesAreBounded == Spec => []RetryBudget
<1>1. QueueInv => RetryBudget
  BY DEF QueueInv
<1> QED BY <1>1, QueueInvariant, PTL

\* A complete or failed task is out of reach of every later step.
THEOREM FinishedStays == Spec => FinishedIsFinal
<1>1. ASSUME QueueInv, Next PROVE FinishedUntouched
  <2> USE <1>1 DEF QueueInv, TypeOK, Finished, FinishedUntouched
  <2>1. ASSUME NEW new \in SUBSET Tasks, Enqueue(new) PROVE FinishedUntouched
    BY <2>1 DEF Enqueue
  <2>2. ASSUME NEW w \in Workers, Claim(w) PROVE FinishedUntouched
    <3> PICK t \in Tasks :
          /\ IsFirstDue(t)
          /\ state' = [Recovered EXCEPT ![t] = "running"]
          /\ attempts' = [attempts EXCEPT ![t] = @ + 1]
      BY <2>2 DEF Claim
    <3> QED BY DEF IsFirstDue, Due, Recovered, Expired
  <2>3. ASSUME NEW w \in Workers, HandlerReturns(w) \/ HandlerRaises(w) PROVE FinishedUntouched
    <3>1. PICK s : Release(w, s)
      BY <2>3 DEF HandlerReturns, HandlerRaises
    <3>2. state[current[w]] = "running"
      BY <3>1 DEF Release, HolderIsCurrent
    <3> QED BY <3>1, <3>2 DEF Release
  <2>4. ASSUME NEW w \in Workers, Exit(w) \/ StartWorker(w) PROVE FinishedUntouched
    BY <2>4 DEF Exit, StartWorker, rowVars
  <2>5. CASE Tick
    BY <2>5 DEF Tick
  <2> QED BY <2>1, <2>2, <2>3, <2>4, <2>5 DEF Next
<1>2. QueueInv /\ [Next]_vars => [FinishedUntouched]_vars
  BY <1>1 DEF FinishedUntouched, vars, rowVars
<1> QED BY <1>2, QueueInvariant, PTL DEF Spec, FinishedIsFinal

-----------------------------------------------------------------------------
(* TaskQueue implements AtLeastOnceQueue. *)

\* What the mapping makes of a row in a reachable state.
LEMMA MappedRow ==
    ASSUME QueueInv, NEW t \in Tasks
    PROVE  /\ Executing(t) <=> ~Unheld(t)
           /\ \A w \in Workers : absExecutor[t] = w <=> current[w] = t
           /\ Executing(t) => state[t] = "running" /\ owner[t] \in Workers
           /\ Unheld(t) => absExecutor[t] = NoOwner
           /\ absPhase[t] = IF Executing(t) THEN "executing"
                            ELSE IF state[t] \in {"pending", "running"} THEN "waiting"
                            ELSE state[t]
<1> USE TaskIsSome DEF QueueInv, TypeOK
<1>1. Executing(t) => owner[t] \in Workers /\ current[owner[t]] = t
  BY DEF Executing
<1>2. \A w \in Workers : current[w] = t => owner[t] = w /\ state[t] = "running"
  BY DEF HolderIsCurrent
<1>3. Executing(t) <=> ~Unheld(t)
  BY <1>1, <1>2, TaskQueueAssumption DEF Executing, Unheld
<1>4. \A w \in Workers : absExecutor[t] = w <=> current[w] = t
  BY <1>1, <1>2, <1>3, TaskQueueAssumption DEF absExecutor, Unheld
<1>5. Unheld(t) => absExecutor[t] = NoOwner
  BY <1>3 DEF absExecutor
<1> QED BY <1>1, <1>2, <1>3, <1>4, <1>5 DEF absPhase

\* The initial rows are an empty queue.
LEMMA InitMapsToInit == Init => Abstract!QueueInit
<1> SUFFICES ASSUME Init PROVE Abstract!QueueInit
  OBVIOUS
<1>1. \A t \in Tasks : ~Executing(t) /\ state[t] = "absent"
  BY TaskQueueAssumption DEF Init, Executing
<1>2. absPhase = [t \in Tasks |-> "absent"] /\ absExecutor = [t \in Tasks |-> NoOwner]
  BY <1>1 DEF absPhase, absExecutor
<1> QED BY <1>2 DEF Init, Abstract!QueueInit, Abstract!Tasks, Tasks

\* The mapped variables are functions on the rows.
LEMMA MappedDomain ==
    /\ Abstract!Tasks = Tasks
    /\ absPhase = [t \in Tasks |-> absPhase[t]] /\ absPhase' = [t \in Tasks |-> absPhase'[t]]
    /\ absExecutor = [t \in Tasks |-> absExecutor[t]]
    /\ absExecutor' = [t \in Tasks |-> absExecutor'[t]]
BY DEF Abstract!Tasks, Tasks, absPhase, absExecutor

LEMMA EnqueueIsSubmit ==
    ASSUME QueueInv, QueueInv', NEW new \in SUBSET Tasks, Enqueue(new)
    PROVE  Abstract!SubmitAll(new)
<1> USE DEF QueueInv, TypeOK
<1>1. /\ \A t \in new : state[t] = "absent"
      /\ state' = [t \in Tasks |-> IF t \in new THEN "pending" ELSE state[t]]
      /\ UNCHANGED <<attempts, owner, current>>
  BY DEF Enqueue, workerVars
<1>2. \A u \in Tasks : Executing(u)' <=> Executing(u)
  BY <1>1 DEF Executing
<1>3. \A t \in new : ~Executing(t)
  BY <1>1, MappedRow
<1>4. absExecutor' = absExecutor
  BY <1>1, <1>2 DEF absExecutor
<1>5. /\ \A t \in new : absPhase[t] = "absent"
      /\ absPhase' = [t \in Tasks |-> IF t \in new THEN "waiting" ELSE absPhase[t]]
  BY <1>1, <1>2, <1>3 DEF absPhase
<1>6. \E n \in RetryLimits :
        maxAttempts' = [t \in Tasks |-> IF t \in new THEN n ELSE maxAttempts[t]]
  BY DEF Enqueue
<1> QED BY <1>1, <1>4, <1>5, <1>6, MappedDomain DEF Abstract!SubmitAll

LEMMA ClaimIsStart ==
    ASSUME QueueInv, QueueInv', NEW w \in Workers, Claim(w)
    PROVE  \E t \in Tasks : Abstract!Start(w, t)
<1> USE DEF QueueInv, TypeOK
<1> PICK t \in Tasks :
      /\ IsFirstDue(t)
      /\ state' = [Recovered EXCEPT ![t] = "running"]
      /\ owner' = [u \in Tasks |-> IF u = t THEN w
                                   ELSE IF Expired(u) THEN NoOwner ELSE owner[u]]
      /\ attempts' = [attempts EXCEPT ![t] = @ + 1]
      /\ current' = [current EXCEPT ![w] = t]
  BY DEF Claim
<1>1. current[w] = NoTask /\ maxAttempts' = maxAttempts
  BY DEF Claim
<1>2. \A u \in Tasks : Expired(u) => Unheld(u)
  BY <1>1, ExpiredIsUnheld
<1>3. state[t] \in {"pending", "running"} /\ Unheld(t)
  BY <1>2, TaskIsSome DEF IsFirstDue, Due, Recovered, Expired, HolderIsCurrent, Unheld
<1>4. \A u \in Tasks : u # t =>
        /\ state'[u] = IF Expired(u) THEN "pending" ELSE state[u]
        /\ Unheld(u)' <=> Unheld(u)
  BY <1>1, TaskIsSome DEF Recovered, Unheld
<1>5. \A u \in Tasks : u # t => absPhase'[u] = absPhase[u] /\ absExecutor'[u] = absExecutor[u]
  <2> SUFFICES ASSUME NEW u \in Tasks, u # t
               PROVE  absPhase'[u] = absPhase[u] /\ absExecutor'[u] = absExecutor[u]
    OBVIOUS
  <2>1. Executing(u)' <=> Executing(u)
    BY <1>2, <1>4, TaskIsSome, TaskQueueAssumption DEF Executing, Unheld, HolderIsCurrent
  <2>2. Executing(u) => ~Expired(u)
    BY <1>2, MappedRow
  <2> QED BY <1>4, <2>1, <2>2 DEF absPhase, absExecutor, Expired
<1>6. absPhase[t] = "waiting" /\ absPhase'[t] = "executing" /\ absExecutor'[t] = w
  BY <1>3, MappedRow, TaskQueueAssumption DEF absPhase, absExecutor, Executing
<1>7. /\ absPhase' = [absPhase EXCEPT ![t] = "executing"]
      /\ absExecutor' = [absExecutor EXCEPT ![t] = w]
  <2>1. absPhase' = [absPhase EXCEPT ![t] = "executing"]
    BY <1>5, <1>6, MappedDomain, Zenon
  <2>2. absExecutor' = [absExecutor EXCEPT ![t] = w]
    BY <1>5, <1>6, MappedDomain, Zenon
  <2> QED BY <2>1, <2>2
<1>8. Abstract!Idle(w)
  BY <1>1, MappedRow, MappedDomain, TaskIsSome DEF Abstract!Idle
<1>9. Abstract!Overtakes(t)
  <2> SUFFICES ASSUME NEW u \in 1..(t - 1), absPhase[u] = "waiting"
               PROVE  attempts[u] > 0
    BY DEF Abstract!Overtakes
  <2>1. u \in Tasks /\ u < t
    BY TaskQueueAssumption DEF Tasks
  <2>2. ~Due(u)
    BY <2>1, TaskIsSome DEF IsFirstDue
  <2>3. state[u] \in {"pending", "running"}
    BY <2>1 DEF absPhase
  <2> QED BY <2>1, <2>2, <2>3 DEF Due, Recovered, Expired, UntriedIsDue
<1> QED BY <1>1, <1>6, <1>7, <1>8, <1>9 DEF Abstract!Start

\* A worker that lets go of its row, and touches no other, ends an execution.
LEMMA LettingGoIsEnd ==
    ASSUME QueueInv, QueueInv', NEW w \in Workers,
           NEW t \in Tasks, current[w] = t, current' = [current EXCEPT ![w] = NoTask],
           \A u \in Tasks : u # t => state'[u] = state[u] /\ owner'[u] = owner[u],
           UNCHANGED <<attempts, maxAttempts>>
    PROVE  Abstract!End(t, absPhase'[t])
<1> USE DEF QueueInv, TypeOK
<1>1. Executing(t)
  BY MappedRow DEF Unheld
<1>2. Unheld(t)'
  BY <1>1, TaskIsSome DEF HolderIsCurrent, Unheld
<1>3. absPhase[t] = "executing" /\ absExecutor'[t] = NoOwner
  BY <1>1, <1>2, MappedRow, TaskQueueAssumption DEF absPhase, absExecutor, Executing, Unheld
<1>4. ASSUME NEW u \in Tasks, u # t
      PROVE  absPhase'[u] = absPhase[u] /\ absExecutor'[u] = absExecutor[u]
  <2>1. Executing(u)' <=> Executing(u)
    BY <1>4, TaskIsSome, TaskQueueAssumption DEF Executing
  <2> QED BY <1>4, <2>1 DEF absPhase, absExecutor, Executing
<1>5. absPhase' = [absPhase EXCEPT ![t] = absPhase'[t]]
  BY <1>1, <1>4, MappedDomain, Zenon
<1>6. absExecutor' = [absExecutor EXCEPT ![t] = NoOwner]
  BY <1>1, <1>3, <1>4, MappedDomain, Zenon
<1> QED BY <1>3, <1>5, <1>6 DEF Abstract!End

LEMMA ReleaseIsOutcome ==
    ASSUME QueueInv, QueueInv', NEW w \in Workers, HandlerReturns(w) \/ HandlerRaises(w)
    PROVE  \E t \in Tasks : Abstract!Succeed(t) \/ Abstract!Fail(t)
<1> USE DEF QueueInv, TypeOK
<1> PICK t \in Tasks : current[w] = t
  BY DEF HandlerReturns, HandlerRaises, Release
<1>1. t # NoTask
  BY TaskIsSome
<1>2. Abstract!End(t, absPhase'[t])
  BY <1>1, LettingGoIsEnd DEF HandlerReturns, HandlerRaises, Release
<1>3. attempts[t] = claimedAs[w]
  BY <1>1 DEF HolderIsCurrent
<1>4. ~Executing(t)'
  BY <1>1, TaskQueueAssumption DEF HandlerReturns, HandlerRaises, Release, Executing
<1>5. absPhase'[t] = IF state'[t] \in {"pending", "running"} THEN "waiting" ELSE state'[t]
  BY <1>1, <1>4 DEF absPhase, Executing
<1>6. CASE HandlerReturns(w)
  <2>1. absPhase'[t] = "complete"
    BY <1>1, <1>5, <1>6 DEF HandlerReturns, Release
  <2> QED BY <1>1, <1>2, <2>1 DEF Abstract!Succeed
<1>7. CASE HandlerRaises(w)
  <2>1. absPhase'[t] = IF attempts[t] < maxAttempts[t] THEN "waiting" ELSE "failed"
    BY <1>1, <1>3, <1>5, <1>7 DEF HandlerRaises, Release, AfterFailure
  <2> QED BY <1>1, <1>2, <2>1 DEF Abstract!Fail
<1> QED BY <1>6, <1>7

LEMMA ExitIsLoss ==
    ASSUME QueueInv, QueueInv', NEW w \in Workers, Exit(w), current[w] # NoTask
    PROVE  \E t \in Tasks : Abstract!Lose(t)
<1> USE DEF QueueInv, TypeOK
<1> PICK t \in Tasks : current[w] = t
  OBVIOUS
<1>1. /\ current' = [current EXCEPT ![w] = NoTask]
      /\ UNCHANGED <<state, owner, attempts, maxAttempts>>
  BY DEF Exit, rowVars
<1>2. Abstract!End(t, absPhase'[t])
  BY <1>1, LettingGoIsEnd
<1>3. state'[t] = "running" /\ ~Executing(t)'
  BY <1>1, TaskIsSome DEF HolderIsCurrent, Executing
<1>4. absPhase'[t] = "waiting"
  BY <1>1, <1>3 DEF absPhase, Executing
<1> QED BY <1>1, <1>2, <1>4 DEF Abstract!Lose

\* Steps that move neither a row nor a holder are invisible above.
LEMMA SameRowsIsStutter ==
    ASSUME UNCHANGED <<state, owner, current, attempts, maxAttempts>>
    PROVE  UNCHANGED Abstract!queueVars
BY DEF absPhase, absExecutor, Executing, Abstract!queueVars

LEMMA StepSimulation ==
    ASSUME QueueInv, QueueInv', [Next]_vars
    PROVE  [Abstract!QueueNext]_(Abstract!queueVars)
<1> USE MappedDomain
<1>1. ASSUME NEW new \in SUBSET Tasks, Enqueue(new) PROVE Abstract!QueueNext
  BY <1>1, EnqueueIsSubmit DEF Abstract!QueueNext
<1>2. ASSUME NEW w \in Workers, Claim(w) PROVE Abstract!QueueNext
  BY <1>2, ClaimIsStart DEF Abstract!QueueNext
<1>3. ASSUME NEW w \in Workers, HandlerReturns(w) \/ HandlerRaises(w)
      PROVE  Abstract!QueueNext
  BY <1>3, ReleaseIsOutcome DEF Abstract!QueueNext
<1>4. ASSUME NEW w \in Workers, Exit(w)
      PROVE  Abstract!QueueNext \/ UNCHANGED Abstract!queueVars
  <2>1. CASE current[w] # NoTask
    BY <1>4, <2>1, ExitIsLoss DEF Abstract!QueueNext
  <2>2. CASE current[w] = NoTask
    <3>1. current' = current
      BY <1>4, <2>2 DEF Exit, QueueInv, TypeOK
    <3> QED BY <1>4, <3>1, SameRowsIsStutter DEF Exit, rowVars
  <2> QED BY <2>1, <2>2
<1>5. ASSUME NEW w \in Workers, StartWorker(w) PROVE UNCHANGED Abstract!queueVars
  BY <1>5, SameRowsIsStutter DEF StartWorker, rowVars
<1>6. CASE Tick
  BY <1>6, SameRowsIsStutter DEF Tick
<1>7. CASE UNCHANGED vars
  BY <1>7, SameRowsIsStutter DEF vars, rowVars, workerVars
<1> QED BY <1>1, <1>2, <1>3, <1>4, <1>5, <1>6, <1>7 DEF Next

\* The leased queue implements the queue without leases or clocks.
THEOREM Refinement == Spec => ImplementsQueue
<1>1. [Next]_vars /\ QueueInv /\ QueueInv' => [Abstract!QueueNext]_(Abstract!queueVars)
  BY StepSimulation
<1> QED
  BY <1>1, InitMapsToInit, QueueInvariant, PTL
     DEF Spec, ImplementsQueue, Abstract!QueueSpec
=============================================================================
