----------------------------- MODULE RunManager -----------------------------
(***************************************************************************)
(* RunManager (app/backend/run_manager.py) executing mock runs: start,     *)
(* cancel, recover, shutdown and _execute with the workers of              *)
(* MockRunExecutor, over the database of RunDatabase and the connection    *)
(* flag of MongoManager.                                                   *)
(*                                                                         *)
(* The program is one asyncio process.  A step is what happens between two *)
(* suspensions: one database operation with the code that follows its      *)
(* answer, up to the next await.  An operation returns while the database  *)
(* is online, or raises MongoUnavailableError: at once when offline, or    *)
(* because the connection fails now (mark_offline), and then the server    *)
(* may or may not have applied it.  A coroutine that never suspends holds  *)
(* the whole process (hung).                                               *)
(***************************************************************************)
EXTENDS Naturals, Sequences, RunDatabase

CONSTANTS Workers,      \* worker slots of a run (settings.concurrency)
          FailEvery,    \* every FailEvery-th email fails (4 in the code)
          HasDeadline,  \* taskTimeoutSeconds > 0
          MaxFaults,    \* bound: connection failures
          MaxRestarts,  \* bound: crashes and shutdowns of the process
          None          \* no run, no email

ASSUME ManagerAssumption == /\ Workers # {} /\ FailEvery \in Nat \ {0}
                            /\ HasDeadline \in BOOLEAN
                            /\ MaxFaults \in Nat /\ MaxRestarts \in Nat
                            /\ None \notin Runs

VARIABLES
  db,        \* the database: all that survives a crash
  online,    \* MongoManager.online
  wakes,     \* its _online_event is set
  hung,      \* a coroutine retries without ever suspending
  serving,   \* the lifespan has yielded: requests are handled
  faults, restarts,
  mem,       \* run -> the RunState object its task works on
  listed,    \* run -> what self.states maps the run to: nothing, that
             \*   object, or the "interrupted" copy recover puts there
  plan,      \* run -> the reserved emails, in order
  next,      \* run -> index of the next email in the work queue
  event,     \* run -> the cancel event is registered and set
  task,      \* run -> the coroutine _execute
  worker,    \* run -> worker -> a coroutine worker()
  starter,   \* the coroutine start(), alone under _start_lock
  canceller, \* the run whose cancel() got its database answer, or None
  recovery,  \* the coroutine recover() run by MongoManager._probe
  stopper    \* the coroutine shutdown()

connection == <<online, wakes, hung, serving, faults, restarts>>
memory == <<mem, listed, plan, next, event>>
vars == <<db, connection, memory, task, worker, starter, canceller, recovery, stopper>>

NoState   == [status |-> "none", cancel |-> FALSE, succeeded |-> 0, failed |-> 0]
NoTask    == [pc |-> "none", waiting |-> FALSE, resume |-> "none", held |-> {}]
NoWorker  == [pc |-> "exit", job |-> 0, waiting |-> FALSE, resume |-> "none"]
NoStarter == [pc |-> "idle", run |-> None, count |-> 0, candidates |-> {}]
NoRecovery == [pc |-> "idle", seen |-> {}, todo |-> {}, local |-> {},
               stale |-> {}, run |-> None, held |-> {}]
NoStopper == [pc |-> "idle", run |-> None, held |-> {}]

AllIdle == [r \in Runs |-> [w \in Workers |-> NoWorker]]

(* The status self.states shows for a run.                                 *)
ListedStatus(r) == CASE listed[r] = "own"  -> mem[r].status
                     [] listed[r] = "copy" -> "interrupted"
                     [] OTHER -> "none"

Listed == {r \in Runs : listed[r] # "none"}
ListedActive == {r \in Runs : ListedStatus(r) \in Active}
LocalActive == {r \in Runs : task[r].pc # "none"}

Init ==
  /\ db = EmptyDatabase
  /\ online = FALSE /\ wakes = FALSE /\ hung = FALSE
  /\ serving = FALSE /\ faults = 0 /\ restarts = 0
  /\ mem = [r \in Runs |-> NoState] /\ listed = [r \in Runs |-> "none"]
  /\ plan = [r \in Runs |-> <<>>] /\ next = [r \in Runs |-> 1]
  /\ event = [r \in Runs |-> FALSE]
  /\ task = [r \in Runs |-> NoTask] /\ worker = AllIdle
  /\ starter = NoStarter /\ canceller = None
  /\ recovery = NoRecovery /\ stopper = NoStopper

-----------------------------------------------------------------------------
(* Database operations.                                                    *)

(* mark_offline.                                                           *)
GoesOffline == online' = FALSE /\ wakes' = FALSE

Fault == online /\ faults < MaxFaults /\ GoesOffline /\ faults' = faults + 1

(* An operation that leaves the database as d answers.  What hangs is      *)
(* offline, and can only be killed.                                        *)
Returns(d) == online /\ db' = d /\ UNCHANGED connection

(* It raises MongoUnavailableError (MongoRunStore._guard,                  *)
(* MongoResourceStore._guard).                                             *)
Raises(d) == /\ ~hung /\ UNCHANGED <<hung, serving, restarts>>
             /\ \/ ~online /\ UNCHANGED <<db, online, wakes, faults>>
                \/ Fault /\ db' \in {db, d}

Quietly == ~hung /\ UNCHANGED <<db, connection>>

-----------------------------------------------------------------------------
(* start(count).                                                           *)

StartGoto(pc) == starter' = [starter EXCEPT !.pc = pc]
StartReturns == starter' = NoStarter
OnlyStarter == UNCHANGED <<memory, task, worker, canceller, recovery, stopper>>
OnlyStarterAndMem ==
  UNCHANGED <<listed, plan, next, event, task, worker, canceller, recovery, stopper>>

StartBegin(r, n) ==
  /\ serving /\ online /\ starter.pc = "idle"
  /\ ListedActive = {}
  /\ listed[r] = "none" /\ db.run[r].status = "none"
  /\ starter' = [NoStarter EXCEPT !.pc = "check", !.run = r, !.count = n]
  /\ Quietly /\ OnlyStarter

(* await self.runs.active()                                                *)
StartCheckActive ==
  /\ starter.pc = "check"
  /\ OnlyStarter
  /\ \/ /\ Returns(db)
        /\ IF ActiveDocs(db) = {} THEN StartGoto("create") ELSE StartReturns
     \/ Raises(db) /\ StartReturns

(* await self.runs.create(state): the unique activeKey decides.            *)
StartCreate(r) ==
  /\ starter.pc = "create" /\ starter.run = r
  /\ UNCHANGED <<plan, next, event, task, worker, canceller, recovery, stopper>>
  /\ IF KeyHolders(db) # {}
     THEN (Returns(db) \/ Raises(db)) /\ StartReturns /\ UNCHANGED <<mem, listed>>
     ELSE \/ /\ Returns(Created(db, r))
             /\ mem' = [mem EXCEPT ![r] = [NoState EXCEPT !.status = "queued"]]
             /\ listed' = [listed EXCEPT ![r] = "own"]
             /\ StartGoto("query")
          \/ Raises(Created(db, r)) /\ StartReturns /\ UNCHANGED <<mem, listed>>

(* The two queries that open reserve_emails.                               *)
StartQueryEmails ==
  /\ starter.pc = "query"
  /\ OnlyStarter
  /\ \/ /\ Returns(db)
        /\ starter' = [starter EXCEPT !.pc = "reserve", !.candidates = Candidates(db)]
     \/ Raises(db) /\ StartGoto("abort")

(* One find_one_and_update of reserve_emails.                              *)
StartReserve(r, e) ==
  /\ starter.pc = "reserve" /\ starter.run = r
  /\ Len(plan[r]) < starter.count /\ e \in starter.candidates
  /\ UNCHANGED <<mem, listed, next, event, task, worker, canceller, recovery, stopper>>
  /\ \/ /\ Returns(Reserved(db, e, r))
        /\ plan' = IF db.email[e] = "available"
                   THEN [plan EXCEPT ![r] = Append(@, e)] ELSE plan
        /\ starter' = [starter EXCEPT !.candidates = @ \ {e}]
     \/ Raises(Reserved(db, e, r)) /\ StartGoto("abort") /\ UNCHANGED plan

(* The loop is over: enough emails, or too few.                            *)
StartReserveEnds(r) ==
  /\ starter.pc = "reserve" /\ starter.run = r
  /\ \/ Len(plan[r]) = starter.count /\ StartGoto("setReserved")
     \/ Len(plan[r]) < starter.count /\ starter.candidates = {} /\ StartGoto("short")
  /\ Quietly /\ OnlyStarter

(* Too few: release_run_reservations, then InsufficientEmailsError.        *)
StartInsufficient(r) ==
  /\ starter.pc = "short" /\ starter.run = r
  /\ Returns(Released(db, HeldBy(db, r))) \/ Raises(Released(db, HeldBy(db, r)))
  /\ StartGoto("abort") /\ OnlyStarter

(* runs.set_reserved needs an active document, else RunNotFoundError.      *)
StartSetReserved(r) ==
  /\ starter.pc = "setReserved" /\ starter.run = r
  /\ OnlyStarter
  /\ \/ Returns(db) /\ StartGoto(IF db.run[r].status \in Active THEN "save" ELSE "abort")
     \/ Raises(db) /\ StartGoto("abort")

(* The except clause of start: release when online; a release that raises  *)
(* leaves the handler before the status is set.                            *)
StartAbort(r) ==
  LET failed == [mem EXCEPT ![r].status = "failed"] IN
  /\ starter.pc = "abort" /\ starter.run = r
  /\ OnlyStarterAndMem
  /\ \/ ~online /\ Quietly /\ mem' = failed /\ StartReturns
     \/ /\ Returns(Released(db, HeldBy(db, r)))
        /\ mem' = failed /\ StartGoto("saveFailed")
     \/ online /\ Raises(Released(db, HeldBy(db, r))) /\ StartReturns /\ UNCHANGED mem

StartSaveFailed(r) ==
  LET saved == Saved(db, r, "failed", mem[r].cancel) IN
  /\ starter.pc = "saveFailed" /\ starter.run = r
  /\ Returns(saved) \/ Raises(saved)
  /\ StartReturns /\ OnlyStarter

(* await self.runs.save(state) with status "running"; only then are the    *)
(* cancel event and the task registered.                                   *)
StartTask(r) ==
  LET saved == Saved(db, r, "running", mem[r].cancel) IN
  /\ starter.pc = "save" /\ starter.run = r
  /\ mem' = [mem EXCEPT ![r].status = "running"]
  /\ StartReturns
  /\ UNCHANGED <<listed, plan, next, canceller, recovery, stopper>>
  /\ \/ /\ Returns(saved)
        /\ event' = [event EXCEPT ![r] = FALSE]
        /\ task' = [task EXCEPT ![r].pc = "gather"]
        /\ worker' = [worker EXCEPT ![r] = [w \in Workers |-> [NoWorker EXCEPT !.pc = "take"]]]
     \/ Raises(saved) /\ UNCHANGED <<event, task, worker>>

Start == \/ \E r \in Runs, n \in 1 .. Cardinality(Emails) : StartBegin(r, n)
         \/ StartCheckActive
         \/ StartQueryEmails
         \/ \E r \in Runs : \/ StartCreate(r) \/ StartReserveEnds(r)
                            \/ StartInsufficient(r) \/ StartSetReserved(r)
                            \/ StartAbort(r) \/ StartSaveFailed(r) \/ StartTask(r)
         \/ \E r \in Runs, e \in Emails : StartReserve(r, e)

-----------------------------------------------------------------------------
(* _database_call: an operation of a run's coroutine c (a worker or        *)
(* _execute) is retried until it answers.  resume is the status at entry.  *)

Call(c, pc, status) == [c EXCEPT !.pc = pc, !.waiting = FALSE, !.resume = status]

(* The status once the operation is issued: an operation that waited puts  *)
(* the status it found at entry back.                                      *)
Resumed(c, r) == IF c.waiting /\ online THEN c.resume ELSE mem[r].status

WithStatus(r, s) == [mem EXCEPT ![r].status = s]

(* A worker's call raises: with the cancel event set the whole run is      *)
(* cancelled (gather cancels the other workers), else it waits.            *)
OnlyRun == UNCHANGED <<listed, plan, next, event, starter, canceller, recovery, stopper>>

AbortWorkers(r, pc, status) ==
  /\ worker' = [worker EXCEPT ![r] = [w \in Workers |-> NoWorker]]
  /\ task' = [task EXCEPT ![r] = Call(@, pc, status)]
  /\ mem' = WithStatus(r, status)

WorkerCall(r, w) == worker[r][w]
WorkerBecomes(r, w, c) == worker' = [worker EXCEPT ![r][w] = c]
Job(r, w) == plan[r][worker[r][w].job]
ShouldFail(i) == i % FailEvery = 0

(* A retry that goes on with the next email of the queue.                  *)
RetryFromQueue(pc) == IF pc = "record" THEN "record" ELSE "take"

(* complete_mock_success is retried from its first operation.              *)
RetryFrom(pc) == IF pc = "consume" THEN "account" ELSE pc

WorkerEffect(r, w) ==
  CASE WorkerCall(r, w).pc = "account" -> Registered(db, Job(r, w))
    [] WorkerCall(r, w).pc = "consume" -> Consumed(db, Job(r, w), r)
    [] WorkerCall(r, w).pc \in {"release", "fail"} ->
         Released(db, {Job(r, w)} \cap HeldBy(db, r))
    [] WorkerCall(r, w).pc = "record" ->
         Saved(db, r, Resumed(WorkerCall(r, w), r), mem[r].cancel)
    [] OTHER -> db

(* wait_until_online returns at once when the online event is set although *)
(* the connection is gone, and so does the next attempt: without a         *)
(* deadline and without a cancellation the loop never suspends again.      *)
Spins(r) == ~online /\ wakes /\ ~HasDeadline /\ ~event[r]

Hangs == /\ ~hung /\ hung' = TRUE
         /\ UNCHANGED <<db, online, wakes, serving, faults, restarts>>

WorkerSpins(r, w) ==
  /\ WorkerCall(r, w).pc \in {"account", "consume", "release", "fail", "record"}
  /\ Spins(r) /\ Hangs
  /\ OnlyRun /\ UNCHANGED <<mem, task, worker>>

WorkerUnavailable(r, w) ==
  /\ WorkerCall(r, w).pc \in {"account", "consume", "release", "fail", "record"}
  /\ ~Spins(r)
  /\ OnlyRun
  /\ Raises(WorkerEffect(r, w))
  /\ IF event[r] THEN AbortWorkers(r, "release", Resumed(WorkerCall(r, w), r))
     ELSE /\ WorkerBecomes(r, w, [WorkerCall(r, w) EXCEPT !.pc = RetryFrom(@),
                                                          !.waiting = TRUE])
          /\ mem' = WithStatus(r, "waiting_for_database")
          /\ UNCHANGED task

(* TimeoutError: the deadline is looked at before every attempt.           *)
WorkerTimesOut(r, w) ==
  /\ HasDeadline
  /\ WorkerCall(r, w).pc \in {"account", "release", "fail", "record"}
  /\ AbortWorkers(r, "failing", mem[r].status)
  /\ Quietly /\ OnlyRun

-----------------------------------------------------------------------------
(* MockRunExecutor: worker().                                              *)

WorkerTakes(r, w) ==
  /\ WorkerCall(r, w).pc = "take"
  /\ IF event[r] \/ next[r] > Len(plan[r])
     THEN WorkerBecomes(r, w, NoWorker) /\ UNCHANGED next
     ELSE /\ WorkerBecomes(r, w, [WorkerCall(r, w) EXCEPT !.pc = "sleep", !.job = next[r]])
          /\ next' = [next EXCEPT ![r] = @ + 1]
  /\ Quietly
  /\ UNCHANGED <<mem, listed, plan, event, task, starter, canceller, recovery, stopper>>

(* After the simulated work the cancel event is looked at again.           *)
AfterWork(r, w) == CASE event[r] -> "release"
                     [] ~event[r] /\ ShouldFail(WorkerCall(r, w).job) -> "fail"
                     [] OTHER -> "account"

WorkerWakes(r, w) ==
  /\ WorkerCall(r, w).pc = "sleep"
  /\ WorkerBecomes(r, w, Call(WorkerCall(r, w), AfterWork(r, w), mem[r].status))
  /\ Quietly /\ OnlyRun /\ UNCHANGED <<mem, task>>

(* The upsert of complete_mock_success, before the email is deleted.       *)
WorkerRegistersAccount(r, w) ==
  /\ WorkerCall(r, w).pc = "account"
  /\ Returns(WorkerEffect(r, w))
  /\ mem' = WithStatus(r, Resumed(WorkerCall(r, w), r))
  /\ WorkerBecomes(r, w, [WorkerCall(r, w) EXCEPT !.pc = "consume"])
  /\ OnlyRun /\ UNCHANGED task

(* record_result counts the outcome before it saves.                       *)
Counted(r, w, succeeded) ==
  LET status == Resumed(WorkerCall(r, w), r) IN
  /\ WorkerBecomes(r, w, Call(WorkerCall(r, w), "record", status))
  /\ mem' = [mem EXCEPT ![r].status = status,
                        ![r].succeeded = IF succeeded THEN @ + 1 ELSE @,
                        ![r].failed = IF succeeded THEN @ ELSE @ + 1]

WorkerConsumesEmail(r, w) ==
  /\ WorkerCall(r, w).pc = "consume"
  /\ Returns(WorkerEffect(r, w))
  /\ Counted(r, w, TRUE)
  /\ OnlyRun /\ UNCHANGED task

WorkerFailsEmail(r, w) ==
  /\ WorkerCall(r, w).pc = "fail"
  /\ Returns(WorkerEffect(r, w))
  /\ Counted(r, w, FALSE)
  /\ OnlyRun /\ UNCHANGED task

WorkerRecords(r, w) ==
  /\ WorkerCall(r, w).pc = "record"
  /\ Returns(WorkerEffect(r, w))
  /\ mem' = WithStatus(r, Resumed(WorkerCall(r, w), r))
  /\ WorkerBecomes(r, w, [NoWorker EXCEPT !.pc = "take"])
  /\ OnlyRun /\ UNCHANGED task

(* A cancelled worker gives its email back and leaves.                     *)
WorkerReleases(r, w) ==
  /\ WorkerCall(r, w).pc = "release"
  /\ Returns(WorkerEffect(r, w))
  /\ mem' = WithStatus(r, Resumed(WorkerCall(r, w), r))
  /\ WorkerBecomes(r, w, NoWorker)
  /\ OnlyRun /\ UNCHANGED task

Work(r, w) == \/ WorkerTakes(r, w) \/ WorkerWakes(r, w)
              \/ WorkerRegistersAccount(r, w) \/ WorkerConsumesEmail(r, w)
              \/ WorkerFailsEmail(r, w) \/ WorkerRecords(r, w) \/ WorkerReleases(r, w)
              \/ WorkerUnavailable(r, w) \/ WorkerSpins(r, w) \/ WorkerTimesOut(r, w)

-----------------------------------------------------------------------------
(* _execute, once the executor has returned or raised.                     *)

OnlyTask == UNCHANGED <<listed, plan, next, worker, starter, canceller, recovery, stopper>>

TaskEnds(r) == /\ task' = [task EXCEPT ![r] = NoTask]
               /\ event' = [event EXCEPT ![r] = FALSE]

TaskGoto(r, pc, status) == /\ task' = [task EXCEPT ![r] = Call(@, pc, status)]
                           /\ UNCHANGED event

(* gather returned: completed, unless the cancel event is set.             *)
TaskGathered(r) ==
  /\ task[r].pc = "gather"
  /\ \A w \in Workers : WorkerCall(r, w).pc = "exit"
  /\ IF event[r] THEN TaskGoto(r, "release", mem[r].status) /\ UNCHANGED mem
     ELSE TaskGoto(r, "complete", "completed") /\ mem' = WithStatus(r, "completed")
  /\ Quietly /\ OnlyTask

TaskCompletes(r) ==
  LET status == Resumed(task[r], r) IN
  /\ task[r].pc = "complete"
  /\ Returns(Saved(db, r, status, mem[r].cancel))
  /\ mem' = WithStatus(r, status)
  /\ TaskEnds(r) /\ OnlyTask

(* The cancelled branch: release_run_reservations, then save.              *)
TaskReleases(r) ==
  /\ task[r].pc = "release"
  /\ Returns(Released(db, HeldBy(db, r)))
  /\ mem' = [mem EXCEPT ![r].status = "cancelled", ![r].cancel = FALSE]
  /\ TaskGoto(r, "cancelled", "cancelled") /\ OnlyTask

TaskCancelled(r) ==
  LET status == Resumed(task[r], r) IN
  /\ task[r].pc = "cancelled"
  /\ Returns(Saved(db, r, status, mem[r].cancel))
  /\ mem' = WithStatus(r, status)
  /\ TaskEnds(r) /\ OnlyTask

TaskEffect(r) ==
  CASE task[r].pc = "release" -> Released(db, HeldBy(db, r))
    [] task[r].pc \in {"complete", "cancelled"} ->
         Saved(db, r, Resumed(task[r], r), mem[r].cancel)
    [] OTHER -> db

(* Only the call that saves "completed" carries the cancel event, and the  *)
(* others have a deadline of their own.                                    *)
TaskSpins(r) ==
  /\ task[r].pc = "complete"
  /\ Spins(r) /\ Hangs
  /\ OnlyTask /\ UNCHANGED <<mem, event, task>>

TaskUnavailable(r) ==
  /\ task[r].pc \in {"complete", "release", "cancelled"}
  /\ ~(task[r].pc = "complete" /\ Spins(r))
  /\ Raises(TaskEffect(r))
  /\ OnlyTask
  /\ IF task[r].pc = "complete" /\ event[r]
     THEN /\ TaskGoto(r, "release", Resumed(task[r], r))
          /\ mem' = WithStatus(r, Resumed(task[r], r))
     ELSE /\ mem' = WithStatus(r, "waiting_for_database")
          /\ task' = [task EXCEPT ![r].waiting = TRUE]
          /\ UNCHANGED event

(* TimeoutError; the cancelled branch always has a deadline of 30 seconds. *)
TaskTimesOut(r) ==
  /\ \/ HasDeadline /\ task[r].pc = "complete"
     \/ task[r].pc \in {"release", "cancelled"}
  /\ TaskGoto(r, "failing", mem[r].status)
  /\ Quietly /\ OnlyTask /\ UNCHANGED mem

(* The except clause of _execute.  Offline it skips the database; a        *)
(* reconciliation that raises leaves the clause with the status unchanged. *)
TaskFails(r) ==
  /\ task[r].pc = "failing"
  /\ OnlyTask
  /\ \/ ~online /\ Quietly /\ mem' = WithStatus(r, "failed") /\ TaskEnds(r)
     \/ /\ Returns(db)
        /\ task' = [task EXCEPT ![r].pc = "reconcile", ![r].held = HeldBy(db, r)]
        /\ UNCHANGED <<mem, event>>
     \/ online /\ Raises(db) /\ TaskEnds(r) /\ UNCHANGED mem

TaskReconciles(r, e) ==
  /\ task[r].pc = "reconcile" /\ e \in task[r].held
  /\ OnlyTask /\ UNCHANGED mem
  /\ \/ /\ Returns(Reconciled(db, e, r))
        /\ task' = [task EXCEPT ![r].held = @ \ {e}]
        /\ UNCHANGED event
     \/ Raises(Reconciled(db, e, r)) /\ TaskEnds(r)

TaskReconciled(r) ==
  /\ task[r].pc = "reconcile" /\ task[r].held = {}
  /\ mem' = WithStatus(r, "failed")
  /\ IF online THEN TaskGoto(r, "failed", "failed") ELSE TaskEnds(r)
  /\ Quietly /\ OnlyTask

TaskFailed(r) ==
  LET saved == Saved(db, r, "failed", mem[r].cancel) IN
  /\ task[r].pc = "failed"
  /\ Returns(saved) \/ Raises(saved)
  /\ TaskEnds(r) /\ OnlyTask /\ UNCHANGED mem

Execute(r) == \/ TaskGathered(r) \/ TaskCompletes(r) \/ TaskReleases(r)
              \/ TaskCancelled(r) \/ TaskUnavailable(r) \/ TaskSpins(r) \/ TaskTimesOut(r)
              \/ TaskFails(r) \/ TaskReconciled(r) \/ TaskFailed(r)
              \/ \E e \in Emails : TaskReconciles(r, e)

-----------------------------------------------------------------------------
(* cancel(run_id): the database first, then the object and the event.      *)

CancelRequests(r) ==
  /\ serving /\ canceller = None /\ db.run[r].status # "none"
  /\ \/ Returns(CancelRequested(db, r)) /\ canceller' = r
     \/ online /\ Raises(CancelRequested(db, r)) /\ UNCHANGED canceller
  /\ UNCHANGED <<memory, task, worker, starter, recovery, stopper>>

CancelSignals(r) ==
  /\ canceller = r
  /\ canceller' = None
  /\ IF ListedStatus(r) \in Active
     THEN /\ mem' = [mem EXCEPT ![r].cancel = TRUE]
          /\ event' = [event EXCEPT ![r] = task[r].pc # "none"]
     ELSE UNCHANGED <<mem, event>>
  /\ Quietly
  /\ UNCHANGED <<listed, plan, next, task, worker, starter, recovery, stopper>>

-----------------------------------------------------------------------------
(* MongoManager._probe and recover().  online is set before the callbacks  *)
(* run, so everything else may proceed while recover does.                 *)

OnlyRecovery == UNCHANGED <<memory, task, worker, starter, canceller, stopper>>

Probe ==
  /\ ~online /\ ~hung /\ recovery.pc = "idle"
  /\ online' = TRUE
  /\ recovery' = [NoRecovery EXCEPT !.pc = "flush", !.seen = Listed, !.todo = Listed]
  /\ UNCHANGED <<db, wakes, hung, serving, faults, restarts>> /\ OnlyRecovery

(* The ping fails: the process goes offline between two operations, or, if *)
(* it was the first ping, serves requests offline.                         *)
ProbeFails ==
  /\ ~hung /\ recovery.pc = "idle"
  /\ online \/ (~serving /\ stopper.pc = "idle")
  /\ faults < MaxFaults /\ faults' = faults + 1
  /\ GoesOffline
  /\ serving' = (serving \/ stopper.pc = "idle")
  /\ UNCHANGED <<db, hung, restarts, recovery>> /\ OnlyRecovery

(* Terminal states are saved again: the last save may have been lost.      *)
RecoverFlushes(r) ==
  /\ recovery.pc = "flush" /\ recovery.seen = Listed /\ r \in recovery.todo
  /\ IF ListedStatus(r) \in Terminal
     THEN Returns(Saved(db, r, ListedStatus(r), listed[r] = "own" /\ mem[r].cancel))
     ELSE Quietly
  /\ recovery' = [recovery EXCEPT !.todo = @ \ {r}]
  /\ OnlyRecovery

(* local_active is computed, then the active documents are awaited.        *)
RecoverSnapshots ==
  /\ recovery.pc = "flush" /\ recovery.seen = Listed /\ recovery.todo = {}
  /\ recovery' = [recovery EXCEPT !.pc = "scan", !.local = LocalActive]
  /\ Quietly /\ OnlyRecovery

RecoverScans ==
  /\ recovery.pc = "scan"
  /\ Returns(db)
  /\ recovery' = [recovery EXCEPT !.pc = "pick", !.stale = ActiveDocs(db) \ recovery.local]
  /\ OnlyRecovery

(* reconcile_run_reservations of one stale run: find, then one by one.     *)
RecoverPicks(r) ==
  /\ recovery.pc = "pick" /\ r \in recovery.stale
  /\ Returns(db)
  /\ recovery' = [recovery EXCEPT !.pc = "reconcile", !.run = r, !.held = HeldBy(db, r)]
  /\ OnlyRecovery

RecoverReconciles(r, e) ==
  /\ recovery.pc = "reconcile" /\ recovery.run = r /\ e \in recovery.held
  /\ Returns(Reconciled(db, e, r))
  /\ recovery' = [recovery EXCEPT !.held = @ \ {e}]
  /\ OnlyRecovery

(* An interruption that is not saved.                                      *)
RecoverInterruptsInMemory(r) ==
  /\ recovery.pc = "reconcile" /\ recovery.held = {} /\ recovery.run = r
  /\ Returns(db)
  /\ listed' = [listed EXCEPT ![r] = "copy"]
  /\ recovery' = [recovery EXCEPT !.pc = "pick", !.run = None, !.stale = @ \ {r}]
  /\ UNCHANGED <<mem, plan, next, event, task, worker, starter, canceller, stopper>>

(* The run is saved as interrupted and self.states maps it to the object   *)
(* read from the database.                                                 *)
RecoverInterrupts(r) ==
  /\ recovery.pc = "reconcile" /\ recovery.held = {} /\ recovery.run = r
  /\ Returns(Saved(db, r, "interrupted", FALSE))
  /\ listed' = [listed EXCEPT ![r] = "copy"]
  /\ recovery' = [recovery EXCEPT !.pc = "pick", !.run = None, !.stale = @ \ {r}]
  /\ UNCHANGED <<mem, plan, next, event, task, worker, starter, canceller, stopper>>

(* A recovery that trusts the reconciliation of the stale runs.            *)
RecoverKeepsOrphans ==
  /\ recovery.pc = "pick" /\ recovery.stale = {}
  /\ Returns(db)
  /\ recovery' = [NoRecovery EXCEPT !.pc = "indexes"]
  /\ OnlyRecovery

(* release_orphaned_reservations, the last operation of recover().         *)
RecoverReleasesOrphans ==
  /\ recovery.pc = "pick" /\ recovery.stale = {}
  /\ Returns(Released(db, {e \in ReservedEmails(db) : db.email[e] \notin recovery.local}))
  /\ recovery' = [NoRecovery EXCEPT !.pc = "indexes"]
  /\ OnlyRecovery

(* The callbacks after recover() create indexes.  They may answer although *)
(* another coroutine's call has just failed: the online event is set in    *)
(* any case.  The first time, the lifespan yields.                         *)
ProbeSucceeds ==
  /\ ~hung /\ recovery.pc = "indexes"
  /\ wakes' = TRUE
  /\ recovery' = NoRecovery
  /\ serving' = (serving \/ stopper.pc = "idle")
  /\ UNCHANGED <<db, online, hung, faults, restarts>> /\ OnlyRecovery

(* What a save of RecoverInterrupts whose answer is lost leaves.           *)
LostSaves == {Saved(db, r, "interrupted", FALSE) :
                r \in {s \in Runs : /\ recovery.pc = "reconcile" /\ recovery.held = {}
                                    /\ recovery.run = s}}

(* A database call of the callbacks raises; or start() grew self.states    *)
(* while recover iterates over it (RuntimeError): _probe marks the         *)
(* database offline and the monitor probes again.                          *)
RecoverFails ==
  /\ ~hung /\ recovery.pc # "idle"
  /\ \/ \/ ~online /\ GoesOffline /\ UNCHANGED <<db, faults>>
        \/ Fault /\ db' \in {db} \cup LostSaves
     \/ /\ recovery.pc = "flush" /\ recovery.seen # Listed
        /\ GoesOffline /\ UNCHANGED <<db, faults>>
  /\ recovery' = NoRecovery
  /\ serving' = (serving \/ stopper.pc = "idle")
  /\ UNCHANGED <<hung, restarts>> /\ OnlyRecovery

Recover == \/ Probe \/ ProbeFails \/ RecoverSnapshots \/ RecoverScans
           \/ RecoverReleasesOrphans \/ ProbeSucceeds \/ RecoverFails
           \/ \E r \in Runs : RecoverFlushes(r) \/ RecoverPicks(r) \/ RecoverInterrupts(r)
           \/ \E r \in Runs, e \in Emails : RecoverReconciles(r, e)

-----------------------------------------------------------------------------
(* A crash, and shutdown(): the process ends and is started again.         *)

NewProcess ==
  /\ online' = FALSE /\ wakes' = FALSE /\ hung' = FALSE /\ serving' = FALSE
  /\ mem' = [r \in Runs |-> NoState] /\ listed' = [r \in Runs |-> "none"]
  /\ plan' = [r \in Runs |-> <<>>] /\ next' = [r \in Runs |-> 1]
  /\ event' = [r \in Runs |-> FALSE]
  /\ task' = [r \in Runs |-> NoTask] /\ worker' = AllIdle
  /\ starter' = NoStarter /\ canceller' = None
  /\ recovery' = NoRecovery /\ stopper' = NoStopper

Crash == /\ restarts < MaxRestarts /\ restarts' = restarts + 1
         /\ NewProcess /\ UNCHANGED <<db, faults>>

(* No request is in progress when the lifespan ends.  The task is          *)
(* cancelled; its state stays as the cancellation finds it.                *)
ShutdownCancelsTask(r) ==
  /\ ~hung /\ task[r].pc # "none"
  /\ \/ /\ stopper.pc = "idle" /\ serving /\ starter.pc = "idle" /\ canceller = None
        /\ restarts < MaxRestarts /\ restarts' = restarts + 1
     \/ stopper.pc = "next" /\ UNCHANGED restarts
  /\ serving' = FALSE
  /\ task' = [task EXCEPT ![r] = NoTask] /\ event' = [event EXCEPT ![r] = FALSE]
  /\ worker' = [worker EXCEPT ![r] = [w \in Workers |-> NoWorker]]
  /\ stopper' = [NoStopper EXCEPT !.run = r, !.pc =
                   IF ListedStatus(r) \in Active THEN "find" ELSE "next"]
  /\ UNCHANGED <<db, online, wakes, hung, faults>>
  /\ UNCHANGED <<mem, listed, plan, next, starter, canceller, recovery>>

StopGoto(pc) == stopper' = [stopper EXCEPT !.pc = pc]
OnlyStopper == UNCHANGED <<listed, plan, next, event, task, worker, starter, canceller, recovery>>

Interrupted(r) == [mem EXCEPT ![r].status = "interrupted", ![r].cancel = FALSE]

(* Offline, only the object is marked.  Online, the reservations are       *)
(* reconciled first; a call that raises ends shutdown().                   *)
ShutdownFinds(r) ==
  /\ stopper.pc = "find" /\ stopper.run = r
  /\ OnlyStopper
  /\ \/ ~online /\ Quietly /\ StopGoto("next") /\ mem' = Interrupted(r)
     \/ /\ Returns(db) /\ UNCHANGED mem
        /\ stopper' = [stopper EXCEPT !.pc = "reconcile", !.held = HeldBy(db, r)]
     \/ online /\ Raises(db) /\ StopGoto("exit") /\ UNCHANGED mem

ShutdownReconciles(r, e) ==
  LET d == Reconciled(db, e, r) IN
  /\ stopper.pc = "reconcile" /\ stopper.run = r /\ e \in stopper.held
  /\ OnlyStopper /\ UNCHANGED mem
  /\ \/ Returns(d) /\ stopper' = [stopper EXCEPT !.held = @ \ {e}]
     \/ Raises(d) /\ StopGoto("exit")

ShutdownSaves(r) ==
  LET saved == Saved(db, r, "interrupted", FALSE) IN
  /\ stopper.pc = "reconcile" /\ stopper.held = {} /\ stopper.run = r
  /\ OnlyStopper /\ mem' = Interrupted(r)
  /\ \/ Returns(saved) /\ StopGoto("next")
     \/ Raises(saved) /\ StopGoto("exit")

ShutdownExits == /\ ~hung
                 /\ \/ stopper.pc = "next" /\ LocalActive = {}
                    \/ stopper.pc = "exit"
                 /\ NewProcess /\ UNCHANGED <<db, faults, restarts>>

Shutdown == \/ ShutdownExits
            \/ \E r \in Runs : ShutdownCancelsTask(r) \/ ShutdownFinds(r) \/ ShutdownSaves(r)
            \/ \E r \in Runs, e \in Emails : ShutdownReconciles(r, e)

-----------------------------------------------------------------------------
Next == \/ Start
        \/ \E r \in Runs, w \in Workers : Work(r, w)
        \/ \E r \in Runs : Execute(r) \/ CancelRequests(r) \/ CancelSignals(r)
        \/ Recover
        \/ Crash
        \/ Shutdown

Spec == Init /\ [][Next]_vars

-----------------------------------------------------------------------------
(* The event loop runs every ready coroutine, the driver answers every     *)
(* operation, sleeps end and the monitor keeps probing, unless it hangs.   *)
Fairness ==
  /\ WF_vars(Start /\ starter.pc # "idle")
  /\ \A r \in Runs : WF_vars(Execute(r)) /\ WF_vars(CancelSignals(r))
  /\ \A r \in Runs, w \in Workers : WF_vars(Work(r, w))
  /\ WF_vars(Recover)
  /\ WF_vars(Shutdown /\ stopper.pc # "idle")

FairSpec == Spec /\ Fairness

-----------------------------------------------------------------------------
(* Every variable has its type.                                            *)
States == [status : Statuses \cup {"none"}, cancel : BOOLEAN,
           succeeded : Nat, failed : Nat]

TaskPCs == {"none", "gather", "complete", "release", "cancelled", "failing",
            "reconcile", "failed"}
Tasks == [pc : TaskPCs,
          waiting : BOOLEAN, resume : Statuses \cup {"none"}, held : SUBSET Emails]

WorkerPCs == {"exit", "take", "sleep", "account", "consume", "release", "fail",
              "record"}
WorkerStates == [pc : WorkerPCs,
                 job : Nat, waiting : BOOLEAN, resume : Statuses \cup {"none"}]

StarterPCs == {"idle", "check", "create", "query", "reserve", "short",
               "setReserved", "abort", "saveFailed", "save"}
Starters == [pc : StarterPCs,
             run : Runs \cup {None}, count : Nat, candidates : SUBSET Emails]

RecoveryPCs == {"idle", "flush", "scan", "pick", "reconcile", "indexes"}
Recoveries == [pc : RecoveryPCs,
               seen : SUBSET Runs, todo : SUBSET Runs, local : SUBSET Runs,
               stale : SUBSET Runs, run : Runs \cup {None}, held : SUBSET Emails]

StopperPCs == {"idle", "next", "find", "reconcile", "exit"}
Stoppers == [pc : StopperPCs,
             run : Runs \cup {None}, held : SUBSET Emails]

ConnectionType == /\ online \in BOOLEAN /\ wakes \in BOOLEAN /\ hung \in BOOLEAN
                  /\ serving \in BOOLEAN
                  /\ faults \in 0 .. MaxFaults /\ restarts \in 0 .. MaxRestarts

MemoryType == /\ mem \in [Runs -> States]
              /\ listed \in [Runs -> {"none", "own", "copy"}]
              /\ plan \in [Runs -> Seq(Emails)]
              /\ next \in [Runs -> Nat \ {0}]
              /\ event \in [Runs -> BOOLEAN]

CoroutineType == /\ task \in [Runs -> Tasks]
                 /\ worker \in [Runs -> [Workers -> WorkerStates]]
                 /\ starter \in Starters
                 /\ canceller \in Runs \cup {None}
                 /\ recovery \in Recoveries
                 /\ stopper \in Stoppers

TypeOK == db \in Databases /\ ConnectionType /\ MemoryType /\ CoroutineType

(* Safety.                                                                 *)

(* An email leaves the pool only when its account is stored: whatever      *)
(* fails, crashes or races, no address is lost ("成功邮箱从邮箱池物理删除").  *)
ConsumedHasAccount == \A e \in Emails : db.email[e] = "deleted" => e \in db.account

(* The process has nothing under way and the database is reachable.        *)
Quiescent == /\ online /\ starter.pc = "idle" /\ recovery.pc = "idle"
             /\ stopper.pc = "idle" /\ LocalActive = {}

(* Then no reservation and no active document is left behind, whichever    *)
(* calls of start, _execute, shutdown and recover failed on the way.       *)
NothingLeftBehind ==
  Quiescent => ReservedEmails(db) = {} /\ ActiveDocs(db) = {}

(* A completed run has counted every one of its emails, and each success   *)
(* it counted has its account.                                             *)
Successes(r) == {i \in 1 .. Len(plan[r]) : ~ShouldFail(i)}

CompletedIsAccounted ==
  \A r \in Runs : mem[r].status = "completed" =>
    /\ mem[r].succeeded = Cardinality(Successes(r))
    /\ mem[r].succeeded + mem[r].failed = Len(plan[r])
    /\ \A i \in Successes(r) : plan[r][i] \in db.account

(* What is promised about the pool in any circumstances.                   *)
Pool == INSTANCE PoolLedger WITH
  pool <- [e \in Emails |-> IF db.email[e] \in Runs THEN "reserved" ELSE db.email[e]],
  accounts <- db.account

(* Every step of the manager is a step of the pool ledger: nothing lost,   *)
(* nothing deleted comes back, no account disappears.                      *)
PoolSpec == Pool!Spec

Outcome == [r \in Runs |-> IF db.run[r].status \in Active THEN "active"
                           ELSE db.run[r].status]

Ledger == INSTANCE RunLedger WITH outcome <- Outcome

(* Until a database operation fails the runs collection is a ledger: one   *)
(* run at a time, and what is over stays over, across crashes, shutdowns   *)
(* and restarts.                                                           *)
LedgerSpec == Ledger!Init /\ [][faults' = 0 => [Ledger!Next]_Outcome]_vars

(* Liveness: an active run document reaches a terminal status, unless a    *)
(* coroutine that waits for the database hangs the process because the     *)
(* online event was set after the connection was lost (mongo_manager.py:   *)
(* 108): then nothing ends until the process is killed and started again.  *)
EveryRunEnds ==
  \A r \in Runs : db.run[r].status \in Active ~> (db.run[r].status \in Terminal \/ hung)
=============================================================================
