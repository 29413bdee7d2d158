# Printer Manager in TLA+

Printer Manager is a Django application that drives network printers through CUPS
and scanners through SANE from one container. Web requests only write rows to SQLite
and enqueue background tasks; one worker process executes the tasks and, between two
of them, a little maintenance. What can go wrong is nearly always between those two:
a request and the worker change the same row, the worker dies in a handler and the
task runs again, CUPS or the disk is ahead of the row or behind it.

This directory models that program: the task queue, and each kind of work that goes
through it as a component on top of the queue's promise. TLC checks each module on small
instances; the TLA+ proof system proves all of the invariants for every instance.

    tlasany M.tla                          parse a module
    tlc -workers 2 -config X.cfg M.tla     check the run of cfg X
    tlapm M_proofs.tla                     check the proofs about module M

`PROJECT.json` lists components, runs, mutants, hazards, findings and theorems, and
maps every definition to the lines of `src/` it models.

## The system

### Components

| Component | State | Operations | Model |
|---|---|---|---|
| Task queue, `task_processor.py:22-65`, `models.py:165-191`, `runworker.py` | `Task` rows: state, attempts, max_attempts, run_after, lease | enqueue, claim_task, process_one, worker loop | `TaskQueue`, `AtLeastOnceQueue` |
| Print jobs, `views.py:167-193, 241-252`, `task_processor.py:134-156, 224-249, 278-305` | `PrintJob` rows, source file, CUPS job | submit, cancel/hold/release/retry, print, sync, cleanup | `PrintJobs` |
| Scan jobs, `views.py:197-295`, `task_processor.py:159-198, 306-312`, `sane_service.py:125-202` | `ScanJob` rows, page files, result file, scanimage process | submit, cancel, delete, download, scan, cleanup | `ScanJobs` |
| Scanner validation, `views.py:58-119, 217-229`, `task_processor.py:107-131, 264-275`, `sane_service.py:42-115` | `ScannerEndpoint` rows, airscan.conf | save endpoint, remove, revalidate, reconcile, validate | `Scanners` |
| Device registry and commands, `views.py:58-137, 327-340`, `task_processor.py:95-104, 201-221, 252-257`, `cups_service.py:33-74` | `Device` and `PrinterEndpoint` rows, CUPS queues | create, edit, delete, configure queue, delete queue, enable, disable, refresh | `PrinterQueues` |
| Accounts, `views.py:362-432`, `security.py`, `bootstrap.py` | users, groups, start of the container | create, edit, passwords, bootstrap, restart | `Accounts` |
| Discovery, `discovery.py`, `views.py:140-148`, `task_processor.py:68-92` | `DiscoveryRun` rows | start a run, probe, filter, deduplicate | `Discovery` |
| Settings, `models.py:207-235`, `forms.py:202-212`, `views.py:435-452` | `AppSetting` rows | save, get_int and its eight uses | `Settings` |
| Documents, `documents.py` | none | inspect, normalize | one outcome of `handle_print` |
| Deployment, `supervisord.conf`, `entrypoint.sh`, `compose.yaml` | processes | restart | deaths and restarts in every module |
| Audit, templates | - | - | not modelled, see below |

### Interactions

* Requests reach the worker only through `Task.enqueue`; the worker reaches them only
  through the rows. There is no lock and, outside `claim_task`, no transaction that
  spans two statements: every save is its own.
* `claim_task` is one transaction that starts with an update, so SQLite's write lock
  makes recovery of expired leases and claim one step.
* Handlers call CUPS (pycups) and scanimage synchronously. CUPS goes on by itself: its
  jobs are polled by `sync_print_jobs` between two tasks, its queues by nobody.
* The view decides on the row it read; the worker keeps a row in memory for as long
  as a handler runs, and both save lists of fields (`update_fields`), not rows.
* supervisord restarts the worker, and the lease (20 minutes) tells the queue of its
  death. Handlers have no record of how far they got.

### What makes each part correct

* Queue: one executor per task; retries bounded; a finished task stays finished; order
  of submission for what was never tried; every task ends.
* Print jobs: a job that shows as waiting has a task; a cancel is never lost; what is
  shown agrees with CUPS; a document goes to CUPS once, plus at most once for each
  execution cut short; no job stays in conversion; the sync catches up.
* Scan jobs: an active scan has a task and ends; a cancel holds against every later
  attempt; an offered download is whole; the pages are in order.
* Scanner validation: READY has the last word only for the endpoint that was validated;
  PENDING always has a task; every scanner gets a verdict.
* Device registry: an online printer has its queue in CUPS, no queue is there that nobody
  will delete, and once the tasks of a printer are done its row shows the queue as the
  last of them left it. (What cupsd does to a queue by itself is shown at the next refresh.)
* Accounts: an administrator who can log in remains; each account has one role; a
  disabled account and a new password stay; the container starts.
* Discovery: every run ends; of all that answered the best is offered, once; nothing
  outside the network asked for.
* Settings: what the form accepts is what every use takes, whatever was stored before.

The hazards, each at its line, are in `PROJECT.json`.

## The modules

### AtLeastOnceQueue - what the queue promises

A task is absent, waiting, executing, complete or failed, with its executor, the number
of executions started and its limit. `SubmitAll` (the tasks of one transaction; `Submit`
is one task), `Start`, `Succeed`, `Fail` and `Lose` are all that happens to it. There are
no leases, no backoff and no clock: a lost execution waits again, a failed one waits again
while `tries < limit`, and `Overtakes` says that only tasks that were tried before may be
passed. The modules of the jobs EXTEND it and attach a handler to `Start` ... `Succeed`/`Fail`/`Lose`.

### TaskQueue - how it keeps the promise

The `Task` rows as `claim_task` and `process_one` see them, a set of workers, their
deaths, and time. `Enqueue` adds the rows of one transaction. `Claim` is `claim_task`: all expired leases are recovered, then the
first due row in `created_at` order is taken. `HandlerReturns` and `HandlerRaises` are
the two endings of `process_one`; like the code they save the outcome by primary key
without looking whether the lease is still theirs, from the copy of `attempts` taken at
the claim. `Exit` kills a worker anywhere, `StartWorker` is supervisord. Times are
countdowns (`leaseLeft`, `waitLeft`, `elapsed`), so the clock needs no bound; `-1` is a
lease that has passed, since the code compares strictly (`lease_expires_at__lt=now`).

`LeaseAssumption` is what the code needs and never checks: handlers end within the
lease, or there is one worker. The deployment has one. With the largest
`scan_timeout_minutes` (120) and a second worker the queue would be unsound, which is
why the assumption is named. Nothing else about durations is assumed.

### PrintJobs

Web: `CreateJob`, `EnqueuePrint` (two transactions, `RequestDies` between them),
`RequestCommand`. Worker: `handle_print` as `PrintCancelled` or `PrintConverting`,
`PrintSubmit`, `PrintSubmitted`, `PrintFails`; `handle_print_job_command` as
`RetryReset`, `RetryRefused`, `RetryEnqueue`, `CommandCups`, `CommandRefused`,
`CommandSaved`, `CancelWaiting`, `CommandIgnored`; `EndTask`, and `WorkerDies` between
any two. `pc` is the position in the handler. Maintenance: `SyncJob` and `CleanupJob`, on
one row, when the worker is between two tasks. External: `cups` with what cupsd does to
its jobs (`CupsWorks`, `AfterCommand`).

Abstracted: conversion and submission succeed or raise; error texts, times and the
normalized copy are left out; a CUPS job that cupsd has *stopped* is one it works on,
because the sync ignores that state. CUPS does not forget finished jobs.

### ScanJobs

Web: `CreateScan`, `EnqueueScan`, `RequestDies`; `scan_job_cancel` cut between its read
(`ReadCancel`) and its save of state and request (`SaveCancel`); `scan_delete` cut between
file (`DeleteFile`) and row (`DeletePath`). Worker: `Load`, `ScanCancelled`, `Scanning`,
then `run_scan` as `Launch`, `NextPage`, `PollCancelled`, `Assemble`, `Assembled`,
`UnlinkPage`, `Protect`, and the end as `Deliver` or `ScanFails`; `CleanupScan` between two
tasks. A page file is the number of the attempt that wrote it (0: no file), so leftovers
of earlier attempts can be told apart; `result` is the file at `result_path` with the
pages that went into it.

Abstracted: the result has one name (in the code it depends on format and number of
pages); a death of the worker is one of scanimage, which reports each page to a pipe; the cleanup's `unlink` and its save
of the cleared path (`task_processor.py:308`, `:312`) are one step unless the worker dies
between them;
`page_count`, diagnostics and titles are left out.

### Scanners

An endpoint (address and driver) is a version number, new with every change, and what
scanimage reported is the device it was asked of, so that a verdict can be compared with
the row it ends up in. Web: `SaveEndpoint` and `RemoveEndpoint` are the scanner half of
`_save_endpoints`, whose transaction makes row and task one step; `scanner_revalidate` is
two (`Revalidate`, `RevalidateEnqueue`, `RequestDies` between). Worker, at its start:
`reconcile_scanner_validations` as `ReadUnknown`, `SkipQueued`, `ReconcileSave`,
`ReconcileEnqueue`, `StartLoop`. Handler: `Load`, `Resolve` (airscan.conf is written from
the rows as they are *then*, while the row in memory is older), `SaveCapabilities`,
`SaveReady` or `SaveFailed`, `SaveFindsNoRow` for a row deleted meanwhile. `Init` includes
the database in which migration 0003 has just added `validation_state` (UNKNOWN).

Abstracted: names of SANE devices are the relation `NameWithin` (`resolve` takes the
first listed device whose name *contains* the scanner's); sane_name, messages and times go
with the verdict. A scanner with scan jobs cannot be removed: one without is meant.

### PrinterQueues

cupsd keeps queues by name, the database printers by device: `cups` says which device
each queue prints to. Web: `CreateDevice`; `device_edit` cut between its read (`EditRead`,
which takes the whole row, status included) and its transaction (`EditSave`,
`EditRemoves`, or `EditEnds`); `device_delete` cut between the queue's deletion
(`DeleteEnqueue`) and the row's (`DeleteRow`, `DeleteDies`); `Request`; `AddJob`, a print
job that protects the rows. Worker: `ensure_queue` as `AddQueue`, `OpenQueue` and
`Refreshed`; `set_queue_state` as `Command` and `Refreshed`; `DeleteQueue`; every call to
CUPS may raise (`CallFails`), upon which configure and refresh save `offline`
(`SaveOffline`) and a command saves nothing. External: `CupsStops`, cupsd's own step.
`docker/cupsd.conf` sets no ErrorPolicy, so by CUPS' default (stop-printer) a queue whose
backend fails is stopped, at any time and without any task; only a command or a
configuration opens it again, and only a refresh shows it.

Abstracted: `open` is enabled and accepting jobs, both in CUPS and in the row, and a stop by
cupsd takes away the first; the two saves of a refresh, of the endpoint and of its device
(`cups_service.py:54`, `:59`), are one step; a queue that somebody changes with CUPS' own
tools is not meant.

Histories name what the code does not repair, so that the properties can say that nothing
else goes wrong: `late` (a deletion retried, interrupted or half done took a queue that a
printer has), `leaked` (a queue nothing is going to delete), `unconfigured` and `unseen`
(a task of the printer was given up), `stopped` (a queue cupsd stopped after a task last
opened, closed or showed it). `ShownIsCups` excuses the last in one direction only: the row
then shows as open what is not.

### Accounts

A request reads a whole `User` row and saves it whole; its role follows as
`groups.clear()` and `groups.add()`. `user_edit` is `ReadUser`, `CheckLastAdmin`,
`SaveUser`, `ClearGroups`, `AddGroup`; `user_create` is `CreateUser`, `AddGroup`; the two
password views are `ReadForPassword`, `SavePassword`. `Bootstrap` and `BootstrapAdds` run
at every start of the container, `ContainerStops` and `RequestDies` anywhere. `raced`
records that a request saved although another had saved since it began, `cut` a death
between two saves.

Abstracted: `is_superuser`, which nothing in the program sets, and changes of user names.
The bootstrap's environment is complete; without it the container does not start at all.

### Settings and Discovery

`Settings` has the eight numbers of `SettingsForm`. The ranges stand twice in the code, in
the form (`Accepted`) and at every use (`SessionMinutes` to `UploadMegabytes`, each a call
of `GetInt` with the numbers written at that use); nothing but their agreement makes a
saved value the value used. `SaveKey` is one `update_or_create`. `Discovery` EXTENDS it
and the abstract queue: `EnqueueRun` reads the retry limit at that moment.

The rules of `discovery.py` are operators over what the network may answer: `ValidCidr`,
`Probed` (a host's services), `WsdScanners` (both addresses in the network), `Gathered`
(over the hosts in the order of `network.hosts()`), `Deduplicated` and `LastAnnounced`,
which fold the steps of the two loops (`TakeBest`, `TakeLast`) over the results; the
dictionary a loop fills is a function, and `Put` the assignment to one of its keys. A run is `CreateRun`, `EnqueueRun` (two transactions),
then `RunStarts`, and `DiscoverMdns`, `DiscoverLan` or `DiscoveryFails`. `BestIsOffered`
and `ResultsInNetwork` compare the results saved with all that was heard, without the
folds that computed them.

Abstracted: a network is its addresses and, in order, those that `hosts()` probes; a host
is a number, an answer a set of services; times, names and XML.

### In all modules

* A save does not fail, and a call that raises has done nothing. SQLite waits 30 seconds
  for its lock. A save that fails all the same would raise inside the handler, also at places
  where the models have no failure: after cupsd has accepted a document
  (`task_processor.py:150`, whose `except` would show the job as failed), after the
  capabilities of a scanner were fetched (`SaveFailed` is before that), after a run was
  saved as complete (`:77-81`, which would become failed). The last save of `process_one`
  failing is a death of the worker.
* A death of the worker and a restart of the container are the same: rows and files
  stay, the process's memory goes.
* Cleanup may find an artifact expired at any time after the request: retention is
  counted from the request and a queue may be long.

## The runs

| Run | Instance | Shows |
|---|---|---|
| `task_queue` | 3 tasks, 2 workers, lease 2, handlers up to 2, backoff 1, limits {1, 2}, 2 exits | types, one executor, retry budget, the inductive invariant, finished is final, refinement, every task ends |
| `print_jobs_safety` | 1 job, 4 tasks, limit 2, 1 exit | types, waiting has a task, cancel sticks, shown state agrees with CUPS, submissions accounted |
| `print_jobs_liveness` | 2 jobs, 2 tasks, limit 2, 1 exit | conversion ends, the sync catches up |
| `print_retry_source` | 1 job, 3 tasks | violation, finding 1 |
| `print_sync_pending` | 1 job, 1 task | violation, finding 2 |
| `scan_jobs` | 1 job, 2 pages, limits {1, 2}, 2 exits | types, active has a task, cancel holds, offered is whole, pages in order, scanning ends |
| `scan_cancel_stale` | 1 job, 1 page | violation, finding 3 |
| `scan_leftover_pages` | 1 job, 1 page, limit 2 | violation, finding 4 |
| `scanners` | 2 scanners, the name of one within the other's, 2 endpoints each, 3 tasks, limit 2, 1 exit | types, pending has a task, ready is of its endpoint, a verdict comes |
| `printers` | 2 devices, 2 queue names, 3 tasks, limit 2, 1 edit, 1 deletion, the command disable, stops by cupsd | types, online is served, no orphan queue, the row shows its queue as the last task left it |
| `accounts` | 2 accounts, 2 requests, 1 new password each, deaths without bound | types, an administrator remains, one role, decisions hold, starts |
| `discovery` | 1 run, 1 task, a network of addresses 0 to 2 of which 1 and 2 are probed, and 3 outside, 27 sets of answers; every setting saved once over 4 kinds of stored values | types, a run has a task, the best is offered, results in the network, limits, settings take effect, a run ends |

Every property of a passing run has a mutant: a definition with a plausible bug (the
`Fault:` operators of the modules) under which TLC finds the property violated.

### Bounds

* `MaxTasks`: three rows are a row that is claimed, one that is recovered in the same
  statement and one that waits behind both. In `PrintJobs` four rows are the print task,
  a command, a retry and the print task of the retry. `Reserved` keeps rows back for
  requests in flight and queued retries, so that the bound never blocks a handler.
* `MaxExits`: one death reruns a handler over the effects of an execution that was cut
  short; two (queue, scans) rerun a rerun. Print jobs have one, for the size.
* `Lease`, `Backoff`, `HandlerMax`: small numbers with the relations that matter, a
  handler that ends just within the lease and a backoff shorter than the lease, so that
  both orders of the two occur. One worker whose handlers outlast the lease is covered by
  the proofs, which hold for it too.
* `MaxPages`: two pages are what an order and a partial leftover need.
* `RetryLimits`: 1 (never retried) and 2 or 3. The setting allows 1 to 10.
* Two jobs interact only through the queue, the worker and CUPS' numbers;
  `print_jobs_liveness` has two. One request of each kind per job is in flight at a time.
* Scanners: three tasks are a validation that runs, one that waits with the edit's and
  one to come; two endpoints are the old and the new one, one of each kind of driver.
* PrinterQueues: two names are what a rename and a reuse of a name need; three tasks are a
  deletion, a configuration and whatever comes between. One edit is in flight,
  there is one deletion in all, and a task is lost only in its first execution. `Requests` is
  {disable}: enable undoes it and refresh is its second half. `MCBound`, a constraint of the
  run, stops the search where an edit was begun, a deletion was begun and a queue is stopped
  by cupsd; every two of the three are covered, and the proofs know no such bound. (Without
  the constraint TLC finds no error either, in twice as many states.)
* Accounts: two requests are what overlapping needs. Only requests are symmetric.
* Discovery: one host out of the network, one address in it that is not probed, one driver
  of each priority, one service announced twice; both ends of every range and four kinds of garbage.
* There is symmetry only in `printers` (devices, queue names) and `accounts` (requests),
  whose runs have no liveness property; elsewhere rows are ordered.

`CHECK_DEADLOCK FALSE` stands in the runs of the jobs: when every job is done and the
rows of the bound are used up, nothing is left to do.

### Fairness

Weak fairness of the worker: its loop (`runworker.py:23-31`) claims whenever it is idle,
supervisord restarts it (`autorestart=true`), and handlers end. For scans the last part
is in the code: the polling loop has a deadline (1 to 120 minutes) and every other
subprocess a timeout (30 s for scanimage's listings, 10 s for `file`, the conversion
timeout for LibreOffice). Calls into pycups have no timeout, so for print jobs it is an
assumption that cupsd answers. cupsd prints what it has (`CupsWorks`). In `PrintJobs` a
request that has created its job goes on to enqueue its task or dies. Nothing is assumed
of users, of the moment of expiry or of deaths, of which there are finitely many.

Scanners and discovery runs have the fairness of the worker only, with time-outs in the
code: 30 s for each call of scanimage, 0.5 to 4 s for each probe, the listening time of
mDNS. A request that saved PENDING, or created its run, goes on or dies.

`SyncCatchesUp` assumes that the sync runs when a row is out of date: the loop calls it
between two tasks once 15 seconds have passed (`runworker.py:26`).

## Findings

1. **Retry after expiry** (`print_retry_source`). Cleanup clears `source_path` to `""`;
   the retry tests `Path("").exists()`, which is the current directory. `README.md:102`
   says "Retry is available only while the retained source still exists".
2. **Sync drops waiting jobs** (`print_sync_pending`). `sync_print_jobs` maps CUPS
   *pending* to PENDING but looks up only SUBMITTED, HELD and PRINTING: a job it once
   saw waiting shows as pending for ever.
3. **Stale cancel** (`scan_cancel_stale`). `scan_job_cancel` saves the state it read. If
   the worker ended the scan meanwhile, the final state is overwritten with SCANNING and
   nothing is left to end it. `README.md:112`: "Running scans can be cancelled".
4. **Leftover pages** (`scan_leftover_pages`). The directory of a scan is not emptied
   before an attempt: a retry delivers the pages of the failed attempt with its own, or,
   when its scanner returned none, instead of failing with "The scanner returned no
   pages" (`sane_service.py:178`).

### What the passing properties excuse

These are things the code does which contradict no document; the properties name them and
show that nothing else goes wrong.

* A task whose worker dies is claimed again without a look at max_attempts
  (`task_processor.py:28`): `RetryBudget` says the excess is exactly the executions lost.
* A death between PENDING and the task of a validation leaves the scanner pending; the
  reconciliation looks only at UNKNOWN (`dropped` in `Scanners`).
* A validation of the old endpoint may save READY over the PENDING of the new one; the
  edit's own validation follows and corrects it.
* A scanner whose name is part of another's can be validated with the other's answer.
* Removing a printer endpoint leaves its queue in CUPS (`views.py:105`); a deletion that is
  retried, or whose `device.delete()` fails, takes the queue of a printer that is there
  (`views.py:132`, `:102`); an edit inserts a device again that was deleted since it was
  read.
* cupsd stops a queue whose backend fails, and the row shows it as open until somebody runs
  Refresh, the first advice of the repository's Troubleshooting for printers (`stopped` in
  `PrinterQueues`); a command whose refresh fails in every attempt leaves the row as it was
  (`unseen`).
* Two administrators demoted in overlapping requests, or a death between `groups.clear()`
  and `groups.add()`, leave no administrator; the bootstrap then tries to create a name
  that exists and the container restarts for ever. A stale save of a `User` row undoes a
  new password or a disabling.
* A malformed HTTP status line from one host fails the whole LAN scan
  (`discovery.py:108` catches `OSError` only); the error of a failed attempt stays beside
  the results of the next (`task_processor.py:84`); a death between two keys leaves the
  settings half saved.

## Proofs

Each component `M` has a module `M_proofs.tla`. All but that of the task queue are laid out
alike: the parts of the inductive invariant `IInv`, a lemma `StepKinds` that sorts the
disjuncts of `Next` by what they leave alone, one lemma for each part, `Starts` or
`Begins` for the initial states, `THEOREM Inductive` (`Spec => []IInv`), and one theorem
for each property. TLC has checked every `IInv` on the instance of the component's run (print
jobs also with two jobs; printers also, without an error but not to the end, with four
tasks, two edits and the command refresh, but without cupsd's stops).

| Module | Theorem | Statement |
|---|---|---|
| `TaskQueue` | `TypeCorrect` | `Spec => []TypeOK` |
| | `QueueInvariant` | `Spec => []QueueInv` |
| | `MutualExclusion` | `Spec => []OneExecutor` |
| | `RetriesAreBounded` | `Spec => []RetryBudget` |
| | `FinishedStays` | `Spec => FinishedIsFinal` |
| | `Refinement` | `Spec => ImplementsQueue` |
| `AtLeastOnceQueue` | `QueueIsSound` | `QueueSpec => []QueueOK` |
| `PrintJobs` | `TypeCorrect` | `Spec => []TypeOK` |
| | `WaitingJobHasTask` | `Spec => []WaitingHasTask` |
| | `CancelIsKept` | `Spec => []CancelSticks` |
| | `ShownAgrees` | `Spec => []ShownStateIsTracked` |
| | `NothingPrintsTwice` | `Spec => []SubmissionsAccounted` |
| | `TracksItsOwn` | `Spec => []TrackedIsOwn` |
| | `JobsKeepToQueue` | `Spec => QueueSpec` |
| `ScanJobs` | `TypeCorrect` | `Spec => []TypeOK` |
| | `ActiveScanHasTask` | `Spec => []ActiveHasTask` |
| | `CancelIsKept` | `Spec => []CancelHolds` |
| | `OffersWhole` | `Spec => []OfferedIsWhole` |
| | `KeepsPageOrder` | `Spec => []PagesInOrder` |
| | `DeliveredIsKept` | `Spec => DeliveredStays` |
| | `ScansKeepToQueue` | `Spec => QueueSpec` |
| `Scanners` | `TypeCorrect` | `Spec => []TypeOK` |
| | `PendingIsValidated` | `Spec => []PendingHasTask` |
| | `ReadyIsCurrent` | `Spec => []ReadyIsOfEndpoint` |
| | `ScannersKeepToQueue` | `Spec => QueueSpec` |
| `PrinterQueues` | `TypeCorrect` | `Spec => []TypeOK` |
| | `OnlinePrinterIsServed` | `Spec => []OnlineIsServed` |
| | `NoQueueIsOrphaned` | `Spec => []NoOrphanQueue` |
| | `ShowsWhatCupsHas` | `Spec => []ShownIsCups` |
| | `PrintersKeepToQueue` | `Spec => QueueSpec` |
| `Accounts` | `TypeCorrect` | `Spec => []TypeOK` |
| | `AdministratorRemains` | `Spec => []AdminRemains` |
| | `RoleIsSingle` | `Spec => []OneRole` |
| | `DecisionsAreKept` | `Spec => []DecisionsHold` |
| | `BootstrapSucceeds` | `Spec => []StartsUndisturbed` |
| `Discovery` | `TypeCorrect` | `Spec => []TypeOK` |
| | `NoRunIsForgotten` | `Spec => []RunHasTask` |
| | `OffersTheBest` | `Spec => []BestIsOffered` |
| | `StaysInNetwork` | `Spec => []ResultsInNetwork` |
| | `LimitsInRange` | `Spec => []LimitsAreSane` |
| | `SavedIsUsed` | `Spec => []SettingsTakeEffect` |
| | `DiscoveryKeepsToQueue` | `Spec => QueueSpec` |

### Assumptions

The theorems hold for any number of tasks, rows, accounts, pages, edits and deaths and for
any retry limits. They rest on the ASSUMEs of the modules, which TLC evaluates in every run:

* constants have their kinds, and the values that stand for *none* (`NoJob`, `NoScanner`,
  `NoDevice`, `NoQueue`, `NoRow`, `NoNumber`, `NoOwner`) are no members of the sets they
  are added to; a scan has at least one page, an endpoint at least one version; `Boss` is
  a user and "admin" a role;
* the hosts of a network lie in it, what answers is a sequence of answers, and mDNS
  announces printers and scanners (the service types the browser asks for);
* the job modules have one worker, as `docker/supervisord.conf` starts it. Every handler
  is written for it: `pc` is one place, and two validations or two print commands at once
  would read and save the same rows;
* the task queue has `LeaseAssumption` (above), of which one worker is a case.

### The task queue

`OneExecutor` is not inductive: it says nothing of the rows. The danger is `Claim`
recovering a row whose handler still runs. `QueueInv` adds what excludes it.
`HolderIsCurrent`: a worker in a handler still holds its row, running, under its name
and with the attempts it read; so the blind save of `Release` overwrites nothing.
`LeaseCoversHandler`: if handlers end within the lease then `leaseLeft + elapsed = Lease`,
so the lease of a running handler has not passed (`ExpiredIsUnheld`; with one worker the
claiming worker holds nothing, and the same lemma follows without it). `BudgetLeft`:
what may be started has an attempt or a lost execution left, from which `RetryBudget`
follows at the claim. `UntriedIsDue`: a row never tried waits for nothing, so taking the
first due row overtakes only tried ones, which is the order the abstract queue promises.

The refinement maps a row whose worker is gone to *waiting* at the moment of death, not
when `claim_task` notices: `Exit` maps to `Lose`, `Claim` to `Start` whatever else it
recovers, and `Tick`, `StartWorker` and an `Exit` between two tasks to stuttering.

That is what lets the other modules forget leases and clocks. `AtLeastOnceQueue_proofs` has
the lemmas they take from the queue (`OneExecutes`, `EndingPhases`, ...), and the theorems
that end in `=> QueueSpec` say that the requests and handlers of print jobs, scans,
validations, printers and discovery runs use the queue as the abstract one allows. A rename
of a printer enqueues a deletion and a configuration in one transaction, so the abstract
queue accepts the tasks of a transaction together (`SubmitAll`), and the refinement proof
of `TaskQueue` shows that its rows keep that promise too. (The users and accounts of
`Accounts` have no tasks.)

### The jobs

*Print jobs.* A property of the row alone is not kept by a step of the handler, so `IInv`
ties the three together: `PcFits` and `WorkFits` (which task is at which place),
`TrackedIsOwn` (the CUPS job of a row was made by a task of that row, so a cancel or a sync
never touches another's), `SubmittedFits` (the document just handed over is CUPS' newest
job), `EndsWaiting` (a handler that is over has left the job to another task or to an end
state). `SubmissionsAccounted` counts: `SubmittedOnce` says of each task and each place what
it may have handed over, and losses (`lost`) pay for the rest.

The proof corrected a property. A retry resets its job to pending and enqueues the print
task in a second transaction; if the worker dies between the two and the source expires
meanwhile, the retry is refused when it runs again and the job stays pending.
`WaitingHasTask` excused that only while the source was unlinked and its path not yet
cleared; with two deaths the cleanup gets to clear it, as TLC then showed (5 tasks, limit
1, 2 exits). The excuse is now `RetryGivenUp`: a retry of the job was given up, its
source gone.

*Scan jobs.* `OneScanEach`: a scan has one task for ever, so its attempts are the tries of
that row, and page files are numbered by them (`PagesBegun`). `CancelSeen` and `NeverBack`
carry a cancel through the two saves of `scan_job_cancel`: an attempt that goes on had
begun before it, and a job cancelled before its first attempt is not brought back by a
stale state. `FilesInOrder` and `OwnPagesFirst` give `PagesInOrder`: the pages of the
present attempt overwrite those of earlier ones from the first on, so a later page of a
result is never of a later attempt. `NotAgain` says that no attempt works on or waits for a
scan that shows as complete, from which `DeliveredIsKept` gets an action property: what was
delivered is not scanned, written or offered again, except after a death or a stale cancel
(TLC has checked it on the instance of `scan_jobs` too; it stands in `ScanJobs_proofs`).
`NotOffered` keeps the handler off a file that a user may be
downloading, unless the worker died between the save of COMPLETE and the end of the task
(`unrecorded`).

*Scanners.* `PendingIsOwed` is `PendingHasTask` with the one row that the reconciliation is
about to enqueue. `LastIsCurrent` is the heart of `ReadyIsOfEndpoint`: every edit leaves a
task behind, so a handler with no task waiting behind it works with the endpoint the row
has, at each of the places where it holds a copy.

*Printers.* Database and cupsd share no transaction, so `IInv` is about what tasks and the
handler's copies refer to. `HeldFits`: the row in the handler's memory is that of its task,
or its printer waits for a configuration; and whoever else has taken the queue name it
holds waits for one. `DeletionsFirst`: a deletion that was never tried comes before the
configuration of whoever has the name since. This is where the order of the queue
(`Overtakes`) is used, and why a deletion that is *retried* may take a queue that is in use
(`late`). `DeletingFits` covers the gap between the two transactions of `device_delete`,
`HandlersFit` what a handler that ended has done. `ShownIsCups` is carried by `HeldFits`
through the last steps of a handler (`ShownFits` where it returns), and a stop by cupsd keeps
it: the row of a queue that was open, if it fitted, shows it as open. `Served` is `OnlineIsServed` for printers
that are not online too, since the next refresh may say that they are.

*Accounts.* `FreshFits` says what a request may rely on while nobody has saved since it
read: the row is as it read it and, before it takes a role away, somebody else administers.
`AtRest` and `RoleEach` carry the properties through the starts of the container.

*Settings and discovery.* `SavedSoFar` is `SettingsTakeEffect` for the keys the save has
reached; `LimitsAreSane` follows from a lemma about `GetInt` for every stored value, texts
and missing rows among them. `EndsSaved` says that a handler that is over has saved how its
run ended, which is why the end of its task leaves no run behind.

`OffersOK` ties a row to what its last complete discovery had heard: the row offers the
best of it (`BestOf`, which mentions no loop), and of a LAN scan all of it lies in the
network. What the loops compute is proved for answers of any number, by an induction that
stays first order: `LeastOf` takes the least element of a set of numbers from the
library's well-foundedness of `<`, and `InductOver` is induction over a *set* of numbers,
so that no operator has to be instantiated. With it `SelectionExists` and
`FlatteningExists` show that the recursions behind the library's `FoldLeft` and
`FlattenSeq` have a solution, without which the CHOOSE in them would say nothing, and
`LoopOver` that the fold is the loop: a value for the empty dictionary, and one step of
the loop for each result. `ChosenNext` is the loop's invariant: after n results the
dictionary holds under each key the last result with it or, for a scanner, one whose driver
is at least as good as any other's; `OffersBest` reads the properties off at the end.

### Only model-checked

* Every liveness property (`EveryTaskEnds`, `ConvertingEnds`, `SyncCatchesUp`,
  `ScanningEnds`, `VerdictComes`, `RunEnds`): fairness and ENABLED are beyond the prover.
* The violated properties of the findings, which are about single behaviours.

## Not modelled

* The audit log (append-only, read by one page), login auditing and throttling
  (django-axes, with `user_unlock`), templates and form layout: they steer none of the
  state above. Which buttons a state offers is advisory, the views do not check it.
* MIME detection, LibreOffice, image conversion: I/O with one outcome or an error. The
  normalisation of endpoint texts in the scanner drivers.
* Printer defaults (`set_defaults`) and the test page: nothing reads the one, the other
  changes no state. (A default that is cleared is not reset in CUPS: `cups_service.py:80`
  sends only the options that have a value.)
* `Device.enabled`: hides a device from the submission of jobs.
* `scan_rename` changes a title and nothing else; `scan_download` and `scan_preview`
  change nothing, `OfferedIsWhole` is about what they find.
* Migrations 0001 and 0002, static configuration (`settings.py`; of cupsd.conf only the missing ErrorPolicy matters).

## Plan

1. `TaskQueue` over `AtLeastOnceQueue`, proved - done.
2. `PrintJobs` - done.
3. `ScanJobs` - done.
4. `Scanners` and `PrinterQueues` - done.
5. `Accounts` - done.
6. `Settings` and `Discovery` - done.
7. Proofs of the invariants of all components, and that each keeps to the abstract
   queue - done.
8. Left: action properties of print jobs like `DeliveredStays` of scans (the end state of a
   print job is left by a retry, a repeated attempt or a late task of an earlier retry;
   `SubmissionsAccounted` counts what comes of it), with runs of their own.
