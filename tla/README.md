# Verification project for codex-auto-register

TLA+ models of the parts of this repository that carry its own control logic,
the TLC runs that check them on small instances, and TLAPS proofs of the
properties that matter most. Paths below are relative to the repository.

## 1. Inventory

The system is a FastAPI back end (`src/app/backend`) with a MongoDB database,
a Vue front end that polls it, helper processes it spawns, and a separate
mailbox tool (`src/mailcom-manager`). A *run* takes addresses from a pool,
processes them with several workers, and either consumes an address (an account
is stored, the address is deleted) or gives it back.

| Component | State it keeps | Operations | Hard behaviour | What makes it correct |
| --- | --- | --- | --- | --- |
| `RunManager` and the executors (`run_manager.py`) | `states`, `_tasks`, `_cancel_events`, work queues | `start`, `start_browser_probe`, `cancel`, `recover`, `shutdown`, `_execute`, `_database_call` | coroutines interleave at every `await`; the database disappears, operations are repeated; recovery races new requests; cancellation | no address lost, nothing left reserved, one run at a time, counters match, every run ends |
| `MongoRunStore` (`run_store.py`) | collection `runs`, unique key `activeKey` | `create`, `set_reserved`, `save`, `active_states`, `request_cancel` | an acknowledgement is lost after the write | one active run; a finished run does not block the next |
| `MongoResourceStore`, `ResourceService` (`resource_service.py`) | `emails`, `accounts`, `proxies` | reservations, registration, reconciliation, import, edit, delete | two operations make one logical step; reads decide later writes; pages and runs share the rows | an address leaves the pool only when its account is stored; an address is worked on by one run |
| `MongoManager` (`mongo_manager.py`) | `online`, the online event, the monitor task | `start`, `stop`, `_probe`, `mark_offline`, `wait_until_online` | callbacks run while requests are served | the connection comes back, recovery is repeated until it succeeds |
| `MongoProbeStore` (`probe_store.py`) | leases on the controller, workspaces and proxies | `acquire_*`, `heartbeat_*`, `release_*`, `clear_expired_*` | time; a late heartbeat; two processes | one controller at a time |
| `BrowserProbeRunExecutor` (`run_manager.py`), `MongoRunWorkerStore` | worker processes, event queue, circuit breaker, worker documents | preflight, `launch_one`, `record_event`, `cleanup_handle`, recovery | final events after the process is dead; cancellation, deadline, breaker, kills | each email counted once, every lease given back, the run returns |
| A worker process (`browser_worker.py`, `browser_probe.py`) | a proxy lease, a Roxy window, the attempt | `run`, `_attempt`, `_cleanup_browser` | each call may take effect without an answer; retries with other proxies; a window that starts after its deletion | one registration, from one window behind its proxy, and nothing kept at the end |
| A registration (`browser_automation.py`, `mailbox_client.py`) | what the attempt has seen and done on the page | wait for pages, codes, the session; store the account | the page is known by polls only; clicks are lost; codes of earlier attempts arrive late | no code that was there before is typed; what is stored opens the account |
| Completion of paid accounts (`account_mfa.py`) | leases, a window, the account read at the start | `run`, `_run_one`, `enroll_totp`, `add_password` | the site takes a secret and the answer or the process is lost; retries work on old data | the stored secret and password are the site's |
| `TaskManager` (`oai_payment_extractor/web/tasks.py`) | tasks, subscribers' queues, slots | `create`, `retry`, `cancel`, `delete`, `subscribe`, `_run` | threads of a pool against requests; bounded queues | slots within the limit, the outcome is told, no lost task |
| Jobs of the agreement sidecar (`paypal_agreement_protocol/web.py`) | `JOBS`, the semaphore, a lock, event and input queue per job | create, reclaim, input, cancel, complete, fail, prune | cancellation between any two steps of a job's thread | permits exact, a link has one owner, an end stays |
| `AccountPipelineService` (`pipeline_service.py`) | collection `account_pipeline` | tick, start, input, reset, delete | tick and requests interleave at awaits; three services that fail or restart; numbers and payments cost money | nothing paid twice, no number forgotten, spending bounded |
| `AccountPlanCheckService` (`plan_check_service.py`) | claims on accounts, a proxy lease | claim, ask, store, release | a claim that is stale while its owner works | one check per account and proxy, a good token is kept |
| MailCom Manager (`src/mailcom-manager/manager`) | SQLite tables, the bulk job, browser flows | import, delete, make aliases, start the job, export | the provider makes an alias and the flow fails; manual requests beside the job | no mailbox over its target, what exists is stored, counts add up |
| `RunLogStore`, `SettingsStore` | JSON files | create, append, prune; atomic replace | a crash between two file operations | a reader sees an old or a new file |
| Service clients, front end, scripts | little or none | requests | third-party behaviour | outside the models |

`PROJECT.json` lists each component with its status and, under `hazards`, each
place where this code can go wrong in a way that is hard to test.

How they interact: the HTTP routes call the services; `RunManager` reads and
writes through `MongoRunStore` and `MongoResourceStore`; both ask
`MongoManager.require_online` before an operation and call `mark_offline` when
one fails; the monitor of `MongoManager` probes the server and, when it answers,
sets `online` and runs `RunManager.recover` as a callback.

The services meet in their databases: a browser run reserves addresses, its
workers register them and turn them into accounts; accounts that are paid are
completed by the backfill; the pipeline sends accounts through the extractor's
tasks and the sidecar's jobs; the MailCom Manager's aliases become addresses of
the pool.

## 2. Plan

| Step | Modules | State |
| --- | --- | --- |
| Mock runs over a failing database | `RunDatabase`, `RunManager`, abstract `PoolLedger`, `RunLedger`; `RunManagerProofs` | done, section 3 |
| The thread pool of the extractor | `TaskManager`, abstract `TaskLifecycle`; `TaskManagerProofs` | done, section 4 |
| Leases with a clock | `ControllerLock`; `ControllerLockProofs` | done, section 5 |
| Browser runs and their processes | `ProbeExecutor`; `ProbeExecutorProofs` | done, section 6 |
| A worker, its attempts, completion | `ProbeWorker`, `SignupPage`, abstract `WorkerContract`, `AttemptContract`; `AccountBackfill`, `AccountLife`; `SignupPageProofs`, `AccountLifeProofs` | done, section 7 |
| Jobs of the sidecar | `AgreementJobs`; proved in `PipelineProofs` | done, section 8 |
| The pipeline of paid accounts | `Pipeline`; `PipelineProofs` | done, section 9 |
| Mailboxes, resources, plan checks | `MailDomain`, `AliasMaker`, `ResourceDesk`, composed in `Mailboxes`; `MailboxesProofs` | done, section 10 |
| `online` and the online event as two variables | `ConnectionMonitor` | open |

Section 12 lists what is proved and what is only model-checked.

The runs share one form: the smallest instance in which each interleaving that a
property is about can happen, explored exhaustively. Names such as `MaxTroubles`,
`MaxFaults`, `MaxEvents` or `MaxRequests` bound what the environment does, never
what the code does.

## 3. The run manager

### Modules

`RunDatabase` holds the database as a value: run documents (status, whether the
document carries the unique key, the cancel flag), the pool (available, deleted,
or the run that holds the address) and the set of stored accounts. Each operator
is one server-side operation of `MongoRunStore` or `MongoResourceStore`.

`RunManager` is the process. One TLA+ step is what the program does between two
suspensions: a database operation and the code after its answer, up to the next
`await`. The coroutines are variables with a program counter:

| Variable | Code |
| --- | --- |
| `db` | what MongoDB stores; the only thing a crash leaves |
| `online`, `wakes`, `serving` | `MongoManager.online`; its `_online_event` is set; the lifespan has yielded |
| `hung` | a coroutine retries its call without ever suspending (see below) |
| `mem`, `listed` | the `RunState` object a task works on, and what `self.states` maps the run to: that object, or the copy `recover` puts there |
| `plan`, `next` | the reserved emails and the head of the work queue |
| `event` | the run's entry in `_cancel_events`, set |
| `task`, `worker` | the coroutine `_execute` and its workers |
| `starter` | `start`, alone under `_start_lock` |
| `canceller` | a `cancel` between its database call and its effect in memory |
| `recovery` | `recover`, run by `_probe` under its lock |
| `stopper` | `shutdown` |

A database operation `Returns(d)` while online, or `Raises(d)`: at once when
offline, or because the connection fails now, and then the server may or may not
have applied it. Calls that go through `_database_call` wait and are issued
again from the same operation; calls that do not (in `start`, `recover`,
`shutdown`, the `except` clause of `_execute`) end their caller where the code
says. A worker's registration of an account and the deletion of the address are
two steps (`account`, `consume`); a repeated call starts at the first again
(`RetryFrom`).

Simplifications, all of them explicit in the model: the lookup of the account
and the write it decides, two awaits of `reconcile_run_reservations`, are one
step (`Reconciled`); the third operation of `complete_mock_success`, which reads
the document that was just written, is part of `consume`; an operation in flight
when a shutdown cancels its coroutine counts as applied before the cancellation
or not at all; delays of the retry loop and of the monitor have no length; log
files do not fail.

`PoolLedger` is what the manager promises about the pool in any circumstances;
`RunLedger` what the runs collection promises when the database stays reachable.
`RunManager` is shown to implement both by `INSTANCE ... WITH`.

### Runs

Both runs are exhaustive.
Deadlock is not checked: run ids, failures and restarts are bounded supplies, so
the model really stops when they are used up.

| Run | Question | Instance |
| --- | --- | --- |
| `reconnect` | Do starts, cancellations, crashes, shutdowns and a recovery that races a new start leave anything behind, and are pool and runs collection ledgers? | 2 runs, 1 address, 1 worker, a deadline, 1 failure, 1 restart |
| `live` | Do retries and recovery keep the counters right across outages at any step, and does every active run end? | 1 run, 2 addresses, 2 workers, no deadline, 2 failures or 1 and a restart, fair |

Why the bounds are enough: two runs are what the unique key is about, two
workers what the shared state of a run is about, and two addresses give both a
success and a failure (`FailEvery` is 2 in the runs, 4 in the code). One failure
reaches each retry and each recovery once; one restart starts a new process on what any
step left; a second failure during the callbacks of a recovery is what it takes to hang.

In `live`, `TwoMisfortunes` leaves out two failures and a restart together, and
`ChoosesFirst` fixes which address is lent first and which worker takes it. Addresses
and workers are interchangeable until then, so each behaviour left out is one that is
kept with the names exchanged, and no property names an address or a worker; TLC's
own symmetry sets are not sound for liveness.

Properties:

- `ConsumedHasAccount`, `PoolSpec`: an address leaves the pool only while it is
  lent and when its account is stored, and it never comes back.
- `NothingLeftBehind`: when nothing is under way and the database is reachable,
  no address is reserved and no document active, whichever calls failed before.
- `CompletedIsAccounted`: the counters of a completed run match its emails, and
  each success has its account.
- `LedgerSpec`: `RunLedger` until an operation fails: runs become active one at a time,
  and a terminal status is final, across crashes, shutdowns and restarts.
- `EveryRunEnds`: an active document reaches a terminal status, unless the process
  hangs (`hung`, the first item of the differences below) on the way.

### Fairness

`FairSpec` assumes weak fairness of each coroutine that is ready (the event loop
runs every ready task), of the answers of the database, of the end of sleeps, and
of the monitor: `_monitor_loop` probes for ever with a bounded delay. None of this
holds of a process that hangs: every action but the crash asks for `~hung`. It does not
assume that a request is made, that a crash or a failure happens or does not
happen. Failures are bounded, so from some point on a probe succeeds; without
this no run could be expected to end.

### Where the code differs from its documents

No run checks these five, since no property can hold of them; they are behaviours
of the model, and the properties above hold through them or except them.

- `mongo_manager.py:108`: `_probe` sets the online event after its callbacks, whether
  or not another coroutine's failed call has marked the database offline during the
  last of them. Then `wait_until_online` returns at once, the next attempt raises at
  once, and `_database_call` (`run_manager.py:1516`) of a run without a deadline that
  nobody has cancelled goes round without a suspension: the event loop stands still,
  the monitor with it, and only the end of the process ends it.
- `run_manager.py:878`: `recover` computes the runs with a task before it asks for
  the active documents, and a run that `start` is preparing has no task yet. It is
  saved as interrupted, its key is unset, and a second run can execute beside it,
  although `run_store.py:27` names the key for one active run.
- `run_manager.py:972`: a cancellation accepted while `start` is between `create` and
  the registration of the event is kept in the state and never reaches the executor.
- `run_manager.py:891`: the save of `interrupted` is applied and its
  acknowledgement lost: the document is terminal, the object in `self.states` is
  not, and `start` refuses every later run of this process.
- `run_manager.py:895`: a run that fails while offline skips the reconciliation,
  and the release of orphans at the next recovery does not look for the account:
  the address of a stored account is back in the pool.

With two workers waiting, the second puts back the status `waiting_for_database`
it found at entry, so a run may say it waits when nothing does. Failures of the log
file (`run_manager.py:964`) are not modelled.

### Proofs

`RunManagerProofs` proves, for every set of runs, addresses and workers (at least one
worker, as `concurrency` is at least 1) and all bounds:

- `TypeCorrectness`: `Spec => []TypeOK`;
- `NoAddressIsLost`: `Spec => []ConsumedHasAccount`;
- `ManagerImplementsPoolLedger`: `Spec => PoolSpec`;
- `CompletedRunsAreAccounted`: `Spec => []CompletedIsAccounted`;
- `NothingIsLeftBehind`: `Spec => []NothingLeftBehind`;
- `ManagerImplementsRunLedger`: `Spec => LedgerSpec`;
- `OneRunHoldsTheLease`: `Spec => []LeaseIsSingle`, the "single-active-run lease" of
  `run_store.py:27`: until an operation fails, no two runs are prepared, executed or
  cleaned up at the same time, and the one that is holds the key. No run checks it.
- `StoredAddressesLeaveThePool`: `Spec => []StoredLeavesPool`, for `app/README.md:137`
  ("成功邮箱从邮箱池物理删除"): until an operation fails, an address whose account is
  stored is never lent again, and is deleted once nothing is under way. No run checks it.

The inductive invariant has four layers, each of which uses those before it.

`IInv == TypeOK /\ JobsReserved /\ ConsumedHasAccount` is enough for the pool.
`JobsReserved` is the strengthening: a worker that is not idle works on an email of
its run's plan, and one that is about to delete an address (`consume`) has stored its
account. `ConsumedHasAccount` alone is not inductive, because the deletion does not
look for the account: it relies on the order of the two operations. `PoolStep(d, c)`
says what an operation may do to the pool; the lemma `Steps` shows each step of the
manager to be one, and the refinement follows since a `PoolStep` is a step or a
stutter of the ledger.

`Parts` is about the runs' coroutines: `RunInv(r)` for each run, and `StartsOne`,
`StopsAlone`, `Tended`. In `RunInv`, `InOrder` says that two workers are never at one
address and none at an address that is still in the queue; `Unfinished` that what is
reserved has not been counted; `Counting` that what has left the queue and is with
nobody is counted, and stored if it succeeded, unless the run was cancelled; and
`Settles` that the completing write finds nothing reserved. With an empty queue and no
worker left, these give `CompletedIsAccounted`. `Tended` gives `NothingLeftBehind`: while
online, what is active or reserved has someone who will deal with it: the `start` that
is preparing it, its task, or the recovery that is still to reach it. It has to say
which runs a recovery is still to reach (`ToBeRecovered`), as the recovery computes its
two lists at different times; that the runs it leaves out (`local`) are those with a
task is where the order of the code matters.

`Orderly`, the third layer, holds until an operation fails: `Calm` says who can be at
work while the database is offline, being recovered or being left, `StillActive` that a
run stays active as long as somebody is about to write it, and `OneActive` that the
active run is the one with the key. Each operation is then a step of the ledger
(`Books`), and `LeaseIsSingle` is what the layer says of the process. After a failure it
does not hold: the second item of the list above is the counterexample, and `LedgerSpec`
and `LeaseIsSingle` say so.

`Tidy`, the fourth layer, also holds until an operation fails. `StoredLeavesPool` is
not inductive: between `complete_mock_success`'s two operations a crash, a shutdown or a
timeout leaves an address both lent and stored, and what matters is that whoever cleans
up asks `reconcile_interrupted_email` and does not just release it. So `Cared` says of each
stored address that it is deleted, or that the worker that stored it, the run's task
(`ByTask`), a shutdown (`ByStopper`) or the next recovery (`ByRecovery`) has it
before it. `HoldsPlan` (a run holds what it has not finished, each address once) makes the
deletion after a store succeed; `Listing` says that a shutdown finds in `self.states` each
run that is executed, and `ScansAll` that, without failures, a recovery leaves out none. A failure breaks the property: a run that fails while
offline skips the reconciliation (the fifth item of the list above).

The assumptions are those of the modules: status names are not run ids, `None` is not
a run, the bounds are natural numbers, and there is a worker. The sets need not be
finite.

`TypeOK` is proved only; the runs leave it out. `EveryRunEnds` is only model-checked: it
needs fairness and `ENABLED`, which the prover does not treat.

## 4. The task manager

`TaskManager` models `oai_payment_extractor/web/tasks.py`. A step is one critical
section of `self._lock`, one call of the extractor, or one operation on a queue:

| Variable | Code |
| --- | --- |
| `record` | `_tasks`; a removed record stays as `gone`, as threads may still hold it |
| `pending`, `thread` | the futures nobody has taken; each pool thread's place in `_run` |
| `activeSlots`, `concurrency` | `_active_slots`, `_concurrency` |
| `resolving` | a `resolve_paypal` between its two critical sections |
| `closing`, `toCancel` | `close()` of the service |
| `history`, `subscribed`, `queue` | `_history`, `_subscribers`, the subscribers' queues |
| `unserved`, `displacing` | where `_publish_locked` is in its loop |
| `told` | what the events received by a connection amount to (`reduceTaskEvent`) |
| `overflowed` | not in the code: connections whose queue has been full |

`_publish_locked` puts an event into each queue while the manager's lock is held,
but the receivers need no lock: an action that publishes fills `unserved`, no other
critical section begins before it is empty, and `Deliver`, `Displace` and `Receive`
interleave. `TaskLifecycle` is the abstract life cycle, a retry being one step that
removes a task and creates another.

| Run | Question | Instance |
| --- | --- | --- |
| `tasks` | Are slots exact, is every task worked on by one thread, do tasks follow the life cycle, does every task end? | 2 tasks, 2 threads, nobody subscribed, fair |
| `stream` | Is a reader that keeps up told each outcome? | 2 tasks, 1 thread, 1 connection, queue and history of 2 |

The second task may be a retry of the first or another one; two threads compete
for a slot and, with `concurrency` lowered to 1, one polls. A queue of two events (256 in
the code) fills within the lives of two tasks. Task ids are a bounded supply, so
deadlock is not checked. Fairness: each thread gets the lock in the end, an
extraction ends because each of its requests has a timeout, and `close()` goes on;
nothing is assumed of requests, of stages or of receivers.

The comment at `tasks.py:477` promises that terminal events are kept. With the
queue full, a terminal event displaces the oldest event whatever it is; if the
receiver empties the queue just then, the new event itself is lost
(`tasks.py:480`). `FinishedIsTold` therefore speaks of readers whose queue has not
overflowed.

Not modelled: the limit on unfinished tasks of the service, which `create` checks
and `retry` does not (`payment_extractor_service.py:612`), and requests after
`close()`, when `submit` raises (`tasks.py:178`): the lifespan ends them before.

### Proofs

`TaskManagerProofs` proves for any finite sets of tasks and threads, all sets of
connections and all queue and history sizes: `SlotsAreExact`, `TasksAreWorkedOn`,
`TasksFollowTheirLifecycle` and `FinishedTasksAreTold`. The
invariant of the first three is `IInv == Typed /\ Shape /\ SlotsExact`. `Shape` is about where a task is:
no future waits twice, for no task that a thread has, and no two threads have one task
(`FuturesApart`, `ThreadsApart`); a thread that is waiting for a slot finds its task
queued, cancelled or removed, one that extracts finds it at work, one that gives its
slot back finds it ended (`Located`); and a record kept for a retry has ended (`Sound`).
`SlotsExact` alone is not inductive: that the slot a thread gives back is one it took
rests on the thread's place, and that the counter never falls below 0 on the count. For
the refinement each step is a move of one task that `TaskLifecycle` has (`Follows`), a
retry of an ended task being two.

`FinishedIsTold` needs a second invariant about the streams, `StreamInv`, beside `IInv`.
It is not inductive by itself: the replay may be of an old history, so every terminal
event of the history must still be right, its task having ended that way or left
(`HistoryRight`, `Right`), which rests on the life cycle; a `resolve_paypal` publishes a
success without looking at the status, so its task must have succeeded when it began
(`ResolvesSuccess`); whoever has not subscribed has been told nothing
(`StrangersUntold`); and an event is displaced only in a queue that has been full
(`DisplacesFull`). A step then publishes an event for the task it finishes, and nothing
about one that has finished (`Publishing`), or leaves what its connection will have been
told in the end as it was (`QueueMoves`).

What a page shows after some events is a fold, and what becomes of a fold when an event
leaves at the front is an induction over sequences, out of the prover's reach. `Replayed`
is therefore the fold in closed form: the last event with a status decides, and an event
without one makes a task known. The lemma `ReceivingTellsTheSame` proves that it takes in
one event after another as the page does, for every sequence; that this makes it the fold
is the induction, and `ReplayIsReduction` in `MCTaskManager` states it: TLC evaluates it
over sequences of three events, every page and every choice of places. The liveness
property is only model-checked.

## 5. The controller lock

`ControllerLock` models the document `browser_probe_controller` and the programs
that take it. An operation of `MongoProbeStore` on the document is one operator;
an action is one operation and the code after its answer. Time is a `Tick`:
`lock.left` is what is left of the lease (0 is expired, `leaseUntil <= now`), and
`due[h]` is what is left of the holder's heartbeat interval or of a phase that has
no heartbeat (preparing a run, ending its processes, one database call).

| Variable | Code |
| --- | --- |
| `lock` | the document in `executor_locks` |
| `phase`, `due` | where the holder is, and its timer |
| `listed` | runs with an active document or an active state in memory |
| `heart`, `current`, `asked` | the probe's `_heartbeat_task`, `current_proxy_id`, and the id a heartbeat in flight was issued with |
| `leased`, `tried` | the proxy the store has leased to a probe, `excluded` |
| `steady` | not in the code: false once the holder was late, its heartbeat task has ended or a recovery has released its lock |

The three holders differ, and the properties say how. A web run looks at the
result of its heartbeat and stops (`LosersStop`). The command-line probe has a task
nobody awaits; when it ends, the probe works on without renewing. The backfill
(`account_mfa.py`) asks for 600 seconds and never renews.

| Run | Question | Instance |
| --- | --- | --- |
| `lock` | Does a holder that is on time keep the lock, is a running lease fenced, does a run without the lock stop, does the lock of a dead holder come free? | 1 run, 1 probe, 1 backfill, 1 proxy, lease of 4 ticks, any fault |

One holder of each kind is enough for the run, as holders interact only through
the document and never take it twice; the theorems cover any number. The times
keep the order of the code's (a lease outlasts preparing, one interval and the
cleanup; 4 ticks against 1 + 1 + 1), and with `Faults` any of them can be missed.
With `Faults` off nobody is late and nothing fails. The leases of proxies last
here as long as their holder keeps them.

Fairness (`FairSpec`): time passes, a due heartbeat of a run is made in the end
(the executor's loop polls every 0.1 s), and the cleanup of a run ends, since each
process is terminated and joined with a timeout. Nothing is assumed of the probe
or the backfill.

`SteadyHolds` is about holders that are still `steady`, because of one thing the
code does: `run()` awaits `release_proxy` and clears `current_proxy_id` afterwards
(`browser_probe.py:892`). A `heartbeat_proxy` issued in between matches nothing,
`_heartbeat_loop` returns, and from then on nobody renews the controller lock,
although the probe goes on with its next proxy. The two calls only have to overlap;
`src/app/README.md:136` promises one controller.

### Proofs

`ControllerLockProofs` proves, for all sets of holders and all times that satisfy
`TimesAssumption` (preparing + one interval + cleanup is shorter than the lease;
one call + the probe's interval is shorter than the lease):

- `LockTypeCorrectness`: `Spec => []TypeOK`;
- `LeaseIsFenced`: `Spec => LeaseChangesHands`, from `TypeOK` alone: a running
  lease is only ever replaced through a filter on the owner's name;
- `SteadyHolderHasLock`: `Spec => []SteadyHolds`.

`SteadyHolds` is not inductive: it says that the lease has not run out, and a tick
may end it. The invariant `LeaseInv` says by how much the lease outlasts the
holder's timer: `lock.left > due[h] + Reserve(h)`, where `Reserve` is what the
holder may still do before it renews (a run that is preparing: an interval and a
cleanup; a run at work: a cleanup; a probe that waits for its proxy's heartbeat:
an interval). A tick lowers both sides, a renewal restores the margin, and no
other holder can take, clear or release the lock while the margin is positive
(`OthersKeep`). `HeartAlive` adds that a steady probe has its heartbeat task, so
that a tick which finds it late makes it unsteady.

`LosersStop` and `EndedIsFreed` are liveness and only model-checked.



## 6. Browser runs and their processes

`ProbeExecutor` models a browser run from its start to the last trace it leaves:
the preflight and preparation (`start_browser_probe`), the rounds of
`BrowserProbeRunExecutor.execute`, the worker processes as the parent sees them,
and what `_execute` or the recovery of the next process does with the rest. The
parent is one coroutine; its step is what it does between two answers of the
database. A worker id stands for its address too.

| Variable | Code |
| --- | --- |
| `parent` | where `start_browser_probe`, `execute`, `_execute` or `recover` is |
| `pending`, `active`, `handle` | the launch list, the `BrowserProcessHandle`s with `final_status` and `cancel_event` |
| `doc` | the worker documents of `MongoRunWorkerStore`: status, `dirId` |
| `proc` | the worker's process: stage, number and result of its attempt |
| `window`, `proxy`, `email`, `account` | Roxy's windows, proxy leases, the pool, the accounts |
| `queue` | the event queue |
| `run` | `stopping`, timeout, breaker, consecutive failures, counters, outcome |
| `arrived`, `skipped` | not in the code: results in the order they counted; workers whose cleanup failed or was not reached |

A worker is coarse here: its stages are those at which it holds something others
can see. What a stage may do is the contract that section 7 checks of the process
itself. The rounds of `execute` have no place of their own: an event or a death a
round missed is found in a later one, so a round that looks at everything in order
is the sequence of what it finds.

| Run | Question | Instance |
| --- | --- | --- |
| `probe` | Do counters and documents agree, are slots and breaker exact, is anything left? | 3 workers, 2 at a time, breaker at 2, cancelled at any time, 1 fault |
| `probe_live` | Does a run return although workers hang? | 2 workers, 1 at a time, a deadline, 1 retry, 1 fault, fair |

Three workers with two slots let a third start after one ends; two failures in a
row can come from three workers with another result in between. One fault is a
death, a lost write, a failed call, a failed cleanup or the end of the parent, at
any step. `CountsMatch` compares the run's counters with the documents, which
different handlers write. `BreakerExact` compares the breaker with the sequence of
results. `SlotsBounded` counts processes, and workers whose window is not yet cleaned
up, against the slots. `NothingLeft` is about addresses, proxies, windows,
processes and documents once the run is over.

Fairness: the parent goes on, the deadline passes, and the kill 15 seconds after the
stop is made. Strong fairness is needed for the kill and the deadline since a
single round that drains events disables them for a step. Nothing is assumed of a
worker: it may hang for ever.

Not modelled: a second run beside this one (section 5), log output, `pid`s. The
preflight closes every managed window before the controller lock is asked for, so a
start that is refused may close the window of the backfill script
(`run_manager.py:1012`); in `AccountBackfill` that is a call of the page that fails.

### Proofs

`ProbeExecutorProofs` proves for any finite set of workers, every concurrency, threshold and
number of retries and faults: `SlotsAreBounded`, `NothingIsLeft`, `CountersMatch` and
`BreakerIsExact`. The invariant is `IInv == Typed /\ Shape /\ SlotsKept /\ NothingLeft /\
CountsMatch /\ Breaker`. `Shape` says, for each place of the parent, who can still hold
what: nobody before the first launch (`NotBegun`); while it schedules, only what it has
launched and not reaped (`Launching`); in `finally` and in a recovery, what is still on
its list or was skipped (`Finishing`). `Documents` relates a worker's document to what
the parent knows of it, which is what makes the counters those of the documents: an
event that counts finds the document `running`, and a worker that is reaped without an
event has not been counted. `SlotsKept` counts processes, windows that the documents
name, and workers that are launched and not reaped as one set, which is what a launch
compares with the concurrency; `OldWindowsGone` is there because a window of an earlier
run is named by no document. `Breaker` adds that the counter of consecutive failures is
the length of the last series, from which `BreakerExact` follows one result at a time.

That the run returns (`probe_live`) is liveness and only model-checked.


## 7. A worker, its registration, and the completion of the account

Four modules in two layers, and the script that comes after them:

- `SignupPage` models the attempts at one address: what `CdpBrowserAutomation` does on
  the site's pages, the wait for the code in the mailbox, and what is stored. It
  implements `AttemptContract`.
- `ProbeWorker` models `BrowserProbeRunner.run` around attempts that keep
  `AttemptContract`: proxies, windows, retries, the result. It implements
  `WorkerContract`, which is what `ProbeExecutor` assumes of a process.
- `AccountBackfill` models `PaidAccountMfaBackfill` on one paid account, and
  `AccountLife` composes worker and script over the life of an account.

### The page

`page` is what the window shows, `pend` what the site is about to show, `svc` the
site's account, `box` the mailbox, `form` what the attempt remembers, `rec` what is
stored. The code knows the page by polls only: a click may be lost, an answer comes
some time later, and every wait may see it or give up just before. What the site
answers is external: the pages are those the code looks for, and none is
impossible. Codes are numbers in the order they are sent, which is all that
`FreshCode` tells apart; folders of the mailbox are merged, and the five seconds by
which a mail's date may precede the request (`mailbox_client.py:1107`) may reach the code sent last before it,
which may be one of an earlier attempt, but not the one before that. A provider either
dates its mails or not (`opts.dated`).

| Run | Question | Instance |
| --- | --- | --- |
| `signup` | Which codes of earlier attempts can be typed, is what is stored the site's, is a full success usable, does an attempt keep its contract? | 2 attempts, 1 trouble, addresses new or already known to the site |
| `worker` | Does a worker keep its contract, and does the script leave an account that can be opened? | 3 proxies, 1 retry, 1 rotation, 2 runs of the script, 3 troubles in all |

Two attempts are needed for a code, a password or an account of the first to meet
the second. `FreshCode` says what the date and the baseline give. A dated code
was sent since the attempt began, or is the last one before its request; an undated one was not
in the mailbox at the baseline. An undated code of an earlier attempt that arrives after the baseline is
typed (`mailbox_client.py:1076`): the model has that, the site refuses it, and the attempt
fails. A code hidden behind an old one of another folder is a wait that gives
up. `StoredAccountExists` holds because the account is stored only after the site has
left the profile page. `FullSuccessIsUsable` speaks of attempts that end well without
telling of an error: a lost second factor is told of.

### The worker

Any call to Roxy may fail with or without effect. `windows` holds what Roxy really
has, `opened` what the runner believes; a window whose opening was not answered may
start after its deletion ("late", "stray"). The contract's window is that of the
last attempt: one whose creation was not answered and not found again is nobody's
(`browser_probe.py:1346`), and the next preflight closes it. Heartbeats of the
proxy lease are not modelled; section 5 has them. A cancellation strikes once, at any
`await` (`browser_worker.py:342`): within an attempt it goes through the cleanup of the
window (`CancelStrikes`, and the last cases of `CreatesWindow`), anywhere else it ends the
block it strikes and what was asked for may still be done (`CancelStops`); a release
it interrupts is not repeated, and the lease runs out by itself. The observation counts two
confirmations that the window is absent; one kept from before a failed query counts
too (`browser_probe.py:1478`), and the model has it so.

### Completion

The site's secret and password live outside MongoDB. `BackfillKept` says that what
is stored is the site's, that `success` means both are stored, and that no secret the
script made is lost and no lease left when it rests. `spoiled` records what the
property does not promise after: a password form that only disappeared for three
seconds, an activation whose answer was lost, a process that was killed, an account
whose stored password was changed by its owner before. Each excuse covers the one
thing that the code cannot know.

Not modelled: the canary of `_main`; windows the script leaves (the preflight closes
them); pages behind `SECURITY_NAVIGATION_ENABLED`, which is false. Two weaknesses are
not excluded by a property: after the secret is stored a retry works on the account as
it was read (`account_mfa.py:160`), so it fails until the next run; and a failed write
of `success` leaves a status that `candidates` does not list again
(`account_mfa.py:212`).

### Proofs

`SignupPageProofs` proves, for any number of attempts and troubles, `TypedCodeIsFresh`,
`StoredAccountIsReal`, `SuccessIsUsable` and `AttemptsKeepContract`. The invariant is
`IInv == Typed /\ Codes /\ Placed /\ Accounts`; TLC checked it on the instance of the
run `signup` before it was proved.

- `Codes`: where an attempt has asked for a code, the request is not older than the
  attempt (`form.start <= form.asked`), which is why a code later than the request is
  one of the attempt; no request follows a code that is typed; and the last mail to arrive is the one the baseline saw last or
  none that it saw, which is why comparing an undated code with that one is enough.
- `Placed`: what is stored at each place of the attempt. Up to the profile nothing is,
  so that only there may an error ask for another attempt; the second factor begins
  only after account, deletion and token, and an error in it is told, not raised.
- `Accounts`: home is shown only of a complete account (`HomeIsComplete`); the page that
  asks for a password is the answer to the last click, so that no other answer is
  outstanding when it is filled (`Answering`); and an attempt that must set a password
  gets to the mailbox only when the site has taken the one of this attempt
  (`PasswordIsSet`).

The last is the subtle one: `submit_password_and_continue` waits for the code's page and
takes it as the answer to its own click. That is right only because no page of an
earlier click can still come, which is what `Answering` says.

`AccountLifeProofs` proves the run `worker`'s two properties, for any proxies, retries,
runs of the script and troubles: `WorkersKeepContract` and `BackfillIsKept`. TLC checked
both invariants on the run's instance first. The one assumption on a constant is that
no proxy is the value that stands for none.

`WorkerInv == WorkerTyped /\ WindowsKept /\ Progress` is the worker's:

- `WindowsKept`: a window's number is its own (`Alone`), and a window in which an attempt
  has begun is running, so that its deletion leaves nothing that could start late; only
  therefore is a success told of with no window left.
- `Progress`: what is held at each place of `run`. The worker comes back to the lease of a
  proxy only while no account is stored, which is what `AttemptContract` promises of the
  errors that are tried again; and an error of the cleanup replaces a success, never a
  reason to retry.

`ScriptInv` is the script's: `SecretKept` (a secret that the site has and nobody stored is
on its way to the document, or trouble is known to have lost it), `PasswordKept`,
`SuccessKept` and `LeasesKept`. A password is set only when none was stored as the run
began, and the document still says what it said then until an attempt has stored
something; an attempt that has is not repeated after it stored a password, since the
errors that may follow are not retryable. This is why a retry with the old snapshot
never overwrites a password.


## 8. The jobs of the agreement sidecar

`AgreementJobs` models `paypal_agreement_protocol/web.py`: one thread per job, the
bounded semaphore of execution slots, the lock of the list and the lock of each job.
A step is one critical section, one operation on the semaphore, or one check of the
cancellation. The payment flow is external: it works, asks for input, returns or
raises. `pc` is where a job's thread is, `freeing` the jobs whose slot `cancel()` has
yet to give back, since it does so after its critical section.

The run `jobs` has two jobs on one slot, links that two devices want, an internal
caller that may reclaim a link and a browser that may not. Two jobs are what slots
and links are about; one prompt and one input let an answer come late or be left for
the next prompt. Job ids are a bounded supply, so the model may stop. Fairness: each
thread goes on, as each wait of the code has a time limit, and `cancel()` returns;
nothing is assumed of inputs.

`OneOwnerPerLink` is about threads, not about what the jobs show: of the threads
between their start and their end on one link, at most one has not been told to stop.
It is not the stronger "no link is paid by two threads side by side", which the code
does not give: a job that is reclaimed (web.py:1749) shows `cancelled` at once, but its
thread is inside `flow.run()` until it looks at the event or finds its session
closed, and may pay in the meantime, beside the thread of the new job. In the model
both are then `working`.

`wait_for_captcha` and the manual browser cannot be reached, since the handler of
the challenge returns nothing and `manual_funding` is false, and are left out.

### Proofs

`PipelineProofs`, in its part on the sidecar, proves for all sets of jobs and requests and all limits:
`TypesHold`, `PermitsAreExact`, `LinksHaveOneOwner` and `EndsStay`. The invariant is
`ManagerInv == ManagerTyped /\ Shape /\ PermitsExact /\ OneShownPerLink`. `Shape` relates what a job
shows to where its thread is: a cancelled job is shown as ended, a job at work that is
not cancelled is shown as active, what is active is listed, and a slot is held only
past the place that takes it. `OneShownPerLink` is what the search for duplicates keeps, and
needs the list, since it sees only listed jobs; with `Shape` it gives `OneOwnerPerLink`, which is about
threads; `PermitsExact` needs that a thread that takes a
permit holds none, and `EndsStay` that a thread about to show work finds its job
active or cancelled. `ManagerTyped` leaves out the upper bound of `permits`, which follows
from the count. `EveryJobEnds` is liveness and only model-checked.


## 9. The pipeline of paid accounts

`Pipeline` models `AccountPipelineService` with one account. The tick and one request
are two coroutines (`at`); each keeps the document it has read (`seen`) and what it was
just given (`got`), and writes later. A step is one await that another can come
between; the giving back of a number is merged with the write that follows it, which
nobody reads in between. The services are what the code sees of them: extraction
tasks that end, sidecar jobs that prompt and end, numbers that lapse.

The run `pipeline` lets one event happen anywhere: a request of the page, a failed or
unanswered call of a service, a failing write or read of the database (`DatabaseFails`),
a number that lapses, a restart of the application or the sidecar, an account whose
trial or token ends or that the page deletes. With the retries of the settings at 1, every
retry meets every event once. `MaxTasks`, `MaxJobs` and `MaxNumbers` are more than that
can use, also where a write that failed makes the tick start again. The three invariants
were also checked with two events (9.4 million states).

The properties have excuses, one for each thing the code does not prevent:

| Excuse | Code |
| --- | --- |
| `raced` | a request and the tick work on documents each has read before the other's write: two starts of one payment (`pipeline_service.py:3502`), a reset or deletion under the tick's unguarded writes, expiry of a link while a start is under way (`:2553`) |
| `insisted` | the page resets or deletes a payment that was already made; the answer "completed" of the cancel is taken for a refusal or ignored (`:3300`) |
| `blind` | an answer is lost after the service did what it was asked: `POST /api/jobs` (`:3552`), a code or phone for a job (`:3382`, `:3462`), the purchase of a number (`:3232`; a number whose price is refused, `hero_sms_service.py:183`, stays bought too); a restart in the middle of a step; a job the sidecar has forgotten, which fails the payment and gives no number back (`:3648`) |
| `unrecorded` | the database raises (`_guard`, `:414`) where nobody catches it and what was done is in no record: a number was bought (`:3237`; `:3546` catches `HeroSmsError` only), a job was made (`:3577`), a start has failed (`:3569`). The record stays `payment_ready`, and the next tick buys and pays again |
| `refused` | HeroSMS does not take a number back |

The run stops at states where a race has happened (`NotRaced`): no property promises
anything there. Without an excuse `PaidOnce`, `NoNumberForgotten` and
`SpendsWithinSettings` hold in every state; each names the excuses it needs, and other
failures of the database are none. `Settles` says that the account reaches a
final stage, or is stranded: of an account that was deleted (`main.py:965` leaves the
record) every start raises `ResourceNotFoundError` (`:2758`), which `:2818` does not
catch, so that its record stays eligible for ever. Fairness is that of the loop (it ticks on), of calls (they return), of
tasks and jobs (their own time limits) and of links (they age).

Not modelled: several accounts, whose records share nothing but the limits; automation
switched off; reconciliation by paid mail (it only makes records `paid`); the SMS
receiver of the page; changes of the settings while a payment runs; proxies. One record
that raises ends the tick for those behind it (`:491`), a stranded one at every tick;
with one account that is a tick that ends.

The rotation of a number catches what the services answer and what `HeroSmsClient`
raises, but not a failed connection of `_protocol_request` (`:3400`), which ends the tick
with the new number in the record; the model has both.

`PipelineProofs` proves the three invariants for all settings and bounds:
`AccountIsPaidOnce`, `NumbersAreKnown` and `SpendingIsBounded`. None of the three is
inductive; each needs to know what the tick and the request have in hand. The invariant
`IInv` has a layer for each set of excuses, and every layer rests on those above it:

- `Typed`: the documents, and that the jobs they name exist.
- `Sound`, `Hands` and `Remembered`, until a race, a lost answer or a lost record: the parts of the
  record agree with its stage; only one of the two coroutines has a document in hand
  (`Alone`); the record is still the one it has read, but for what it wrote itself
  (`InHand`), and in the stage its place asks for (`Staged`). This is what makes the
  writes by `_id` alone safe, which no guard in the database protects.
- `JobsKnown`, also until the page insists: a job that runs or has completed is the
  record's (`Tracked`), or just being written there; and where the code is about to let
  go of the record's job, that job is waiting or over (`Quiet`). Only one job can be
  tracked, so only one can complete.
- `NumbersKnown`, also until a release is refused: an active number is that of the record
  in a stage in which somebody will give it back (`Numbered`), or of whoever is about to
  write it (`Noted`).
- `Spent`, while there is no excuse at all: what was bought is within the payments begun
  and the attempt of the present one. An attempt is counted when its number is noted,
  and a retry, which starts counting anew, is itself counted in `paymentRetry`.

An excuse is never taken back (`ExcusesGrow`), so a layer that holds after a step held
before it. `Settles` is liveness and stays with the model checker.


## 10. Mailboxes, resources and plan checks

`AliasMaker` (the MailCom Manager) and `ResourceDesk` (the rows of the registration
service, with the plan checks) are two processes with their own databases;
`Mailboxes` composes them with the sync that turns aliases into addresses of the pool.
`MailDomain` has what both share. A step is one call of a database or of the
provider's pages.

| Variable | Code |
| --- | --- |
| `row`, `owner` | tables `accounts` and `aliases` of SQLite |
| `remote` | external: how many aliases the provider has for a mailbox |
| `flow`, `job` | `create_aliases_for_account` of each worker and manual request; `alias_bulk_job` |
| `account`, `email`, `proxy` | the collections of MongoDB |
| `run`, `check` | a run that registers one address; a plan check |
| `importer`, `creator` | an import or sync, and a `POST /api/accounts`, between two calls |
| `met`, `removed`, `disturbed`, `takenOver`, `renewed`, `dropped` | not in the code: what a property makes an exception for |

A flow's account is an address: the mailbox itself or an alias of it. The store keeps
an address in one of its two tables: an account cannot be imported over an alias
(`storage.py:99`), nor an alias over an account (`storage.py:317`), which is answered as
a duplicate. So an alias that was imported as an account first stays one, and a flow at
it works in the mailbox it belongs to; that any address the provider knows opens its
mailbox is assumed of the provider. What raises inside an attempt is tried again; what
raises outside of one (the launch or the end of the browser, the opening or the end of a
context, the store) ends the flow at once (`Breaks`). An alias whose creation is not
answered within eight seconds is made before the attempt ends, or never.

Ids are issued once, so that a row that was deleted and inserted again is told from
the first. Which candidate a run takes first is left open.

The run `mailboxes` has two mailboxes, two workers of the job and one manual request,
two runs, two plan checks and one proxy, and four requests of the pages in all;
accounts that are imported at the start count as requests. Only the first mailbox's
addresses reach the pool. `FirstIsThere` leaves out states that only repeat, for another
mailbox, what the first one meets: its account is there at the start; of all aliases
only its first becomes an account of its own, or is stored under the account of the
other mailbox; and only the job's workers, at it, try an attempt again. The theorems
have none of these bounds. The symmetry is sound, as the run has no liveness property.

- `WithinTarget`, `StoresWhatExists`: no mailbox gets more addresses than wanted, and
  when a flow succeeds every address the provider has for the mailbox is in the tables,
  as an alias or as an account. The exceptions are a second flow at the mailbox (`met`: a
  manual request beside the job, `app.py:155`, or an alias that is an account of its own
  worked on beside its mailbox) and, for the second property, an address, or the flow's
  account, that the page took away meanwhile (`removed`).
- `CountsAddUp`: a finished job has told of each of its accounts once, and of each alias
  its workers made unless an attempt was made again or an account failed: what such an
  attempt had made before is not told of.
- `TakenOnce`: an address a run works on has no account yet, and no other run; unless
  the page has put it back or deleted it meanwhile (`resource_service.py:697`).
- `ChecksApart`, `TokenKept`: two checks are at work on one account or proxy only after
  a claim or lease ran over, and a token counts as missing only when that very token
  was refused by the site or had passed its own expiry, for which the site is not asked
  (`chatgpt_plan.py:225`); unless it was renewed while a check of the old one was at
  work (`resource_service.py:592`).

Each excuse is something a request, a limit of time or a failed attempt does beside or
under a flow, run or check; where nothing of the kind happened the properties hold.

### Proofs

`MailboxesProofs` proves its theorems for the composition, whose steps are those of one
part while the other rests, or the sync. Of `AliasMaker`, for any finite sets of mailboxes and
workers, any manual requests and every target and number of attempts: `NeverTooMany`,
`SuccessIsStored` and `JobsAddUp`. Mailboxes start below the target. The invariant is
`MakerInv == MakerTyped /\ Flown /\ AllTold /\ AllMade`. In `Flown`, `Apart` says that two flows past the wait for
a browser at one mailbox have met, `Knows` that a flow that has met no other knows every
alias the provider has for its mailbox (so that it stops at the target), `Kept` that the
row of a flow's account is there or its mailbox's addresses count as taken away, and
`Recorded` that an address a flow has dealt with is in one of the tables or was taken
away. `AllTold` counts each account of the job: told
of, in the queue, or with a worker; `AllMade` each alias: in the job's count or made in
an attempt that is under way.

Of `ResourceDesk`, for all addresses, accounts, proxies, runs and checks, any
number of requests: `AddressesAreTakenOnce`, `ChecksAreApart` and `TokensAreKept`. The
invariant is `DeskInv == DeskTyped /\ RunInv /\ ClaimInv /\ Leased`.

- `RunInv`: a reservation is that of a run that is not through with the address
  (`Backed`), a run that works on an address has its reservation (`Reserved`), and the
  address is not registered (`Unregistered`). The code makes sure of the last with a list
  read before the reservation. That is sound because an address that is registered after
  the list was read is no address of the pool any more, or is still reserved by the run
  that registered it and will be consumed (`Excluded`).
- `ClaimInv`: rows have ids that are issued once (`Issued`), a check that asks has marked
  its account as running (`Marked`), which is why nobody else claims it (`Sole`); it asks
  with the token the row has, or an older one of an account that was renewed under a check
  (`TokenRead`), and a refusal it still has to write is noted of that token
  (`RefusalKnown`).
- `Leased`: a check has its proxy until its lease runs over or the page deletes the proxy.

The search for this invariant found an exception the histories had missed: `POST
/api/accounts` deletes the e-mail of the account it creates, also one that a run has
reserved (`resource_service.py:400`); a second run can then take the address when it is
imported again. `DeleteSource` notes it in `disturbed`, as it notes the other ways in
which the page takes an address from under a run. The bounds of the run `mailboxes` are
too small for it; larger ones show it.


## 11. What is not modelled

- The payment flow of the sidecar (`paypal/flow.py`) and the extractor's flows: a
  sequence of requests to third-party sites whose correctness is whether the site
  accepts them; their ends are choices of `AgreementJobs` and `TaskManager`.
- Clients of external services, conversions (TOTP, crypto, formatting), the front end
  and the scripts: no state of their own, or pure functions.
- `RunLogStore` and `SettingsStore`: files replaced or appended as a whole, on which no
  decision of a run depends.
- `MongoManager`'s online event as an object of its own (`mongo_manager.py:108`), and the
  limits of `PaymentExtractorService`.

`PROJECT.json` gives the reason for each component.

## 12. What is proved and what is only model-checked

| Module | Proved, for every value of the constants | Only model-checked |
| --- | --- | --- |
| `RunManager` | `TypeOK`, `ConsumedHasAccount`, `PoolSpec`, `CompletedIsAccounted`, `NothingLeftBehind`, `LedgerSpec`; also `LeaseIsSingle`, `StoredLeavesPool` | `EveryRunEnds` |
| `TaskManager` | `SlotsExact`, `WorkedOn`, `LifecycleSpec`, `FinishedIsTold` | `EveryTaskEnds`, that `Replayed` is a fold |
| `ControllerLock` | `TypeOK`, `LeaseChangesHands`, `SteadyHolds` | `LosersStop`, `EndedIsFreed` |
| `ProbeExecutor` | `SlotsBounded`, `NothingLeft`, `CountsMatch`, `BreakerExact` | liveness |
| `AgreementJobs` | its types, `PermitsExact`, `OneOwnerPerLink`, `NeverReopens` | `EveryJobEnds` |
| `AliasMaker` | `WithinTarget`, `StoresWhatExists`, `CountsAddUp` | |
| `ResourceDesk` | `TakenOnce`, `ChecksApart`, `TokenKept` | |
| `SignupPage` | `FreshCode`, `StoredAccountExists`, `FullSuccessIsUsable`, `KeepsContract` | |
| `ProbeWorker`, `AccountLife` | `KeepsContract`, `BackfillKept` | |
| `Pipeline` | `PaidOnce`, `NoNumberForgotten`, `SpendsWithinSettings` | `Settles` |

Out of the prover's reach are liveness under fairness, and that the closed form
`Replayed` of `TaskManager` is the fold the page computes, an induction over sequences
that TLC checks up to three events (section 4). Every invariant and every action property
a run checks has a theorem.
