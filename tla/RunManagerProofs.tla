-------------------------- MODULE RunManagerProofs --------------------------
(***************************************************************************)
(* Proofs about RunManager, for every set of runs, addresses and workers   *)
(* and every bound: the types, that no address is lost, that every step is *)
(* a step of the pool ledger, that a completed run is accounted for, that  *)
(* nothing is left behind, and, until an operation fails, that the runs    *)
(* are a ledger, that one run at a time holds the lease and that a stored  *)
(* address leaves the pool.                                                *)
(***************************************************************************)
EXTENDS RunManager, FiniteSetTheorems, TLAPS

-----------------------------------------------------------------------------
(* What a server operation may do to the pool.                             *)

SamePool(d, c) == c.email = d.email /\ c.account = d.account

(* An address is lent, or given back; an account is stored; an address is  *)
(* deleted whose account is stored.                                        *)
Lends(d, c) == /\ c.account = d.account
               /\ \E e \in Emails, r \in Runs :
                    d.email[e] = "available" /\ c.email = [d.email EXCEPT ![e] = r]
GivesBack(d, c) == \E E \in SUBSET ReservedEmails(d) : c = Released(d, E)
Stores(d, c) == \E e \in Emails : c = Registered(d, e)
Removes(d, c) == /\ c.account = d.account
                 /\ \E e \in d.account : /\ d.email[e] \in Runs
                                         /\ c.email = [d.email EXCEPT ![e] = "deleted"]

PoolStep(d, c) == /\ c \in Databases
                  /\ \/ SamePool(d, c) \/ Lends(d, c) \/ GivesBack(d, c)
                     \/ Stores(d, c) \/ Removes(d, c)

(* An operation on the run document leaves the pool alone.                 *)
LEMMA RunOperations ==
  ASSUME NEW d \in Databases, NEW r \in Runs,
         NEW s \in Statuses \cup {"none"}, NEW b \in BOOLEAN
  PROVE  /\ PoolStep(d, d)
         /\ PoolStep(d, Created(d, r))
         /\ PoolStep(d, Saved(d, r, s, b))
         /\ PoolStep(d, CancelRequested(d, r))
<1>1. PoolStep(d, d)
  BY DEF PoolStep, SamePool
<1>2. PoolStep(d, Created(d, r))
  BY DEF PoolStep, SamePool, Created, Databases, Docs, Statuses, Active
<1>3. PoolStep(d, Saved(d, r, s, b))
  BY DEF PoolStep, SamePool, Saved, Databases, Docs
<1>4. PoolStep(d, CancelRequested(d, r))
  <2>1. [d.run EXCEPT ![r].cancel = TRUE] \in [Runs -> Docs]
    BY DEF Databases, Docs
  <2>2. CancelRequested(d, r) \in {d, [d EXCEPT !.run = [d.run EXCEPT ![r].cancel = TRUE]]}
    BY DEF CancelRequested, Databases
  <2>3. QED  BY <2>1, <2>2 DEF PoolStep, SamePool, Databases
<1>5. QED  BY <1>1, <1>2, <1>3, <1>4

(* The operations on the pool, as the manager applies them.                *)
LEMMA ReserveSteps ==
  ASSUME NEW d \in Databases, NEW e \in Emails, NEW r \in Runs
  PROVE  PoolStep(d, Reserved(d, e, r))
BY DEF PoolStep, SamePool, Lends, Reserved, Databases

LEMMA ReleaseSteps ==
  ASSUME NEW d \in Databases, NEW E \in SUBSET ReservedEmails(d)
  PROVE  PoolStep(d, Released(d, E))
<1>1. Released(d, E) \in Databases
  BY DEF Released, Databases
<1>2. QED  BY <1>1 DEF PoolStep, GivesBack

LEMMA RegisterSteps ==
  ASSUME NEW d \in Databases, NEW e \in Emails
  PROVE  PoolStep(d, Registered(d, e))
BY DEF PoolStep, Stores, Registered, Databases

LEMMA ConsumeSteps ==
  ASSUME NEW d \in Databases, NEW e \in Emails, NEW r \in Runs, e \in d.account
  PROVE  PoolStep(d, Consumed(d, e, r))
BY DEF PoolStep, SamePool, Removes, Consumed, Databases

LEMMA ReconcileSteps ==
  ASSUME NEW d \in Databases, NEW e \in Emails, NEW r \in Runs
  PROVE  PoolStep(d, Reconciled(d, e, r))
<1>1. d.email[e] = r => {e} \in SUBSET ReservedEmails(d)
  BY DEF ReservedEmails
<1>2. PoolStep(d, d)
  BY DEF PoolStep, SamePool
<1>3. QED  BY <1>1, <1>2, ReleaseSteps, ConsumeSteps DEF Reconciled

LEMMA HeldAreReserved ==
  ASSUME NEW d \in Databases, NEW r \in Runs
  PROVE  HeldBy(d, r) \in SUBSET ReservedEmails(d)
BY DEF HeldBy, ReservedEmails
-----------------------------------------------------------------------------
(* One database operation, as its caller sees it.                          *)

LEMMA OperationTypes ==
  ASSUME ConnectionType, NEW d, Returns(d) \/ Raises(d) \/ Quietly
  PROVE  ConnectionType'
<1>1. CASE Raises(d)
  <2>1. /\ online' \in BOOLEAN /\ wakes' \in BOOLEAN /\ hung' \in BOOLEAN
        /\ serving' \in BOOLEAN /\ restarts' = restarts
    BY <1>1 DEF Raises, Fault, GoesOffline, ConnectionType
  <2>2. faults' = faults \/ (faults < MaxFaults /\ faults' = faults + 1)
    BY <1>1 DEF Raises, Fault
  <2>3. faults' \in 0 .. MaxFaults
    BY <2>2, ManagerAssumption DEF ConnectionType
  <2>4. QED  BY <2>1, <2>3 DEF ConnectionType
<1>2. CASE Returns(d) \/ Quietly
  BY <1>2 DEF Returns, Quietly, ConnectionType, connection
<1>3. QED  BY <1>1, <1>2

LEMMA OperationSteps ==
  ASSUME db \in Databases, NEW d, PoolStep(db, d), Returns(d) \/ Raises(d) \/ Quietly
  PROVE  PoolStep(db, db')
<1>1. PoolStep(db, db)
  BY DEF PoolStep, SamePool
<1>2. db' = db \/ db' = d
  BY DEF Returns, Raises, Quietly, Fault
<1>3. QED  BY <1>1, <1>2

(* A coroutine that spins changes nothing but hung.                        *)
Frozen == /\ hung' = TRUE
          /\ UNCHANGED <<db, online, wakes, serving, faults, restarts, memory, task, worker,
                         starter, canceller, recovery, stopper>>

LEMMA SpinningFreezes ==
  ASSUME NEW r \in Runs, TaskSpins(r) \/ \E w \in Workers : WorkerSpins(r, w)
  PROVE  Frozen
BY DEF TaskSpins, WorkerSpins, Hangs, OnlyRun, OnlyTask, Frozen, memory

LEMMA OnlineNothingSpins ==
  ASSUME online, NEW r \in Runs
  PROVE  ~TaskSpins(r) /\ \A w \in Workers : ~WorkerSpins(r, w)
BY DEF TaskSpins, WorkerSpins, Spins

-----------------------------------------------------------------------------
(* The values a step gives the variables have their types.                 *)

StatusOrNone == Statuses \cup {"none"}

LEMMA StarterShapes ==
  ASSUME starter \in Starters
  PROVE  /\ NoStarter \in Starters
         /\ \A pc \in StarterPCs : [starter EXCEPT !.pc = pc] \in Starters
         /\ \A r \in Runs, n \in Nat :
              [NoStarter EXCEPT !.pc = "check", !.run = r, !.count = n] \in Starters
         /\ \A pc \in StarterPCs, E \in SUBSET Emails :
              /\ [starter EXCEPT !.pc = pc, !.candidates = E] \in Starters
              /\ [starter EXCEPT !.candidates = E] \in Starters
BY DEF Starters, NoStarter, StarterPCs

LEMMA StateShapes ==
  ASSUME mem \in [Runs -> States], NEW r \in Runs
  PROVE  /\ NoState \in States
         /\ \A s \in StatusOrNone :
              /\ [mem EXCEPT ![r].status = s] \in [Runs -> States]
              /\ [mem EXCEPT ![r] = [NoState EXCEPT !.status = s]] \in [Runs -> States]
         /\ \A b \in BOOLEAN : [mem EXCEPT ![r].cancel = b] \in [Runs -> States]
         /\ \A s \in StatusOrNone, b \in BOOLEAN :
              [mem EXCEPT ![r].status = s, ![r].cancel = b] \in [Runs -> States]
BY DEF States, NoState, StatusOrNone

(* record_result counts an outcome.                                        *)
LEMMA CountedShapes ==
  ASSUME mem \in [Runs -> States], NEW r \in Runs, NEW s \in StatusOrNone, NEW b \in BOOLEAN
  PROVE  [mem EXCEPT ![r].status = s,
                     ![r].succeeded = IF b THEN @ + 1 ELSE @,
                     ![r].failed = IF b THEN @ ELSE @ + 1] \in [Runs -> States]
<1> DEFINE up == IF b THEN mem[r].succeeded + 1 ELSE mem[r].succeeded
           down == IF b THEN mem[r].failed ELSE mem[r].failed + 1
<1>1. up \in Nat /\ down \in Nat
  <2>1. mem[r].succeeded \in Nat /\ mem[r].failed \in Nat
    BY DEF States
  <2>2. QED  BY <2>1
<1> HIDE DEF up, down
<1>2. [mem EXCEPT ![r].status = s, ![r].succeeded = up, ![r].failed = down] \in [Runs -> States]
  BY <1>1 DEF States, StatusOrNone
<1>3. QED  BY <1>2 DEF up, down

LEMMA WorkerShapes ==
  ASSUME NEW c \in WorkerStates
  PROVE  /\ NoWorker \in WorkerStates
         /\ \A pc \in WorkerPCs : /\ [NoWorker EXCEPT !.pc = pc] \in WorkerStates
                                  /\ [c EXCEPT !.pc = pc] \in WorkerStates
         /\ \A pc \in WorkerPCs, s \in StatusOrNone : Call(c, pc, s) \in WorkerStates
         /\ [c EXCEPT !.pc = RetryFrom(@), !.waiting = TRUE] \in WorkerStates
         /\ \A i \in Nat : [c EXCEPT !.pc = "sleep", !.job = i] \in WorkerStates
<1>1. NoWorker \in WorkerStates /\ \A pc \in WorkerPCs : [NoWorker EXCEPT !.pc = pc] \in WorkerStates
  BY DEF WorkerStates, WorkerPCs, NoWorker
<1>2. \A pc \in WorkerPCs, s \in StatusOrNone : Call(c, pc, s) \in WorkerStates
  BY DEF WorkerStates, WorkerPCs, Call, StatusOrNone
<1>3. \A pc \in WorkerPCs : [c EXCEPT !.pc = pc] \in WorkerStates
  BY DEF WorkerStates
<1>4. \A i \in Nat : [c EXCEPT !.pc = "sleep", !.job = i] \in WorkerStates
  BY DEF WorkerStates, WorkerPCs
<1>5. RetryFrom(c.pc) \in WorkerPCs
  BY DEF RetryFrom, WorkerStates, WorkerPCs
<1>6. [c EXCEPT !.pc = RetryFrom(@), !.waiting = TRUE] \in WorkerStates
  BY <1>5 DEF WorkerStates
<1>7. QED  BY <1>1, <1>2, <1>3, <1>4, <1>6

LEMMA WorkersShapes ==
  ASSUME worker \in [Runs -> [Workers -> WorkerStates]], NEW r \in Runs
  PROVE  /\ AllIdle \in [Runs -> [Workers -> WorkerStates]]
         /\ \A w \in Workers : worker[r][w] \in WorkerStates
         /\ \A c \in WorkerStates, w \in Workers :
              [worker EXCEPT ![r][w] = c] \in [Runs -> [Workers -> WorkerStates]]
         /\ \A c \in WorkerStates :
              [worker EXCEPT ![r] = [v \in Workers |-> c]] \in [Runs -> [Workers -> WorkerStates]]
<1>1. NoWorker \in WorkerStates
  BY DEF WorkerStates, WorkerPCs, NoWorker
<1>2. AllIdle \in [Runs -> [Workers -> WorkerStates]]
  BY <1>1 DEF AllIdle
<1>3. QED  BY <1>2

LEMMA TaskShapes ==
  ASSUME task \in [Runs -> Tasks], NEW r \in Runs
  PROVE  /\ NoTask \in Tasks /\ [task EXCEPT ![r] = NoTask] \in [Runs -> Tasks]
         /\ \A pc \in TaskPCs, s \in StatusOrNone :
              [task EXCEPT ![r] = Call(@, pc, s)] \in [Runs -> Tasks]
         /\ [task EXCEPT ![r].waiting = TRUE] \in [Runs -> Tasks]
         /\ \A pc \in TaskPCs : [task EXCEPT ![r].pc = pc] \in [Runs -> Tasks]
         /\ \A pc \in TaskPCs, E \in SUBSET Emails :
              [task EXCEPT ![r].pc = pc, ![r].held = E] \in [Runs -> Tasks]
         /\ \A e \in Emails : [task EXCEPT ![r].held = @ \ {e}] \in [Runs -> Tasks]
<1>1. NoTask \in Tasks /\ [task EXCEPT ![r] = NoTask] \in [Runs -> Tasks]
  BY DEF Tasks, NoTask, TaskPCs
<1>2. ASSUME NEW pc \in TaskPCs, NEW s \in StatusOrNone
      PROVE  [task EXCEPT ![r] = Call(@, pc, s)] \in [Runs -> Tasks]
  <2>1. Call(task[r], pc, s) \in Tasks
    BY DEF Tasks, Call, StatusOrNone
  <2>2. QED  BY <2>1
<1>3. [task EXCEPT ![r].waiting = TRUE] \in [Runs -> Tasks]
  BY DEF Tasks
<1>4. \A pc \in TaskPCs : [task EXCEPT ![r].pc = pc] \in [Runs -> Tasks]
  BY DEF Tasks
<1>5. \A pc \in TaskPCs, E \in SUBSET Emails :
        [task EXCEPT ![r].pc = pc, ![r].held = E] \in [Runs -> Tasks]
  BY DEF Tasks
<1>6. \A e \in Emails : [task EXCEPT ![r].held = @ \ {e}] \in [Runs -> Tasks]
  BY DEF Tasks
<1>7. QED  BY <1>1, <1>2, <1>3, <1>4, <1>5, <1>6

LEMMA RecoveryShapes ==
  ASSUME recovery \in Recoveries, NEW R \in SUBSET Runs, NEW pc \in RecoveryPCs
  PROVE  /\ NoRecovery \in Recoveries
         /\ [NoRecovery EXCEPT !.pc = pc] \in Recoveries
         /\ [NoRecovery EXCEPT !.pc = pc, !.seen = R, !.todo = R] \in Recoveries
         /\ [recovery EXCEPT !.pc = pc, !.local = R] \in Recoveries
         /\ [recovery EXCEPT !.pc = pc, !.stale = R] \in Recoveries
         /\ \A r \in Runs :
              /\ [recovery EXCEPT !.todo = @ \ {r}] \in Recoveries
              /\ [recovery EXCEPT !.pc = pc, !.run = None, !.stale = @ \ {r}] \in Recoveries
              /\ \A E \in SUBSET Emails :
                   [recovery EXCEPT !.pc = pc, !.run = r, !.held = E] \in Recoveries
         /\ \A e \in Emails : [recovery EXCEPT !.held = @ \ {e}] \in Recoveries
BY DEF Recoveries, NoRecovery, RecoveryPCs

LEMMA StopperShapes ==
  ASSUME stopper \in Stoppers, NEW pc \in StopperPCs
  PROVE  /\ NoStopper \in Stoppers
         /\ \A r \in Runs : [NoStopper EXCEPT !.run = r, !.pc = pc] \in Stoppers
         /\ [stopper EXCEPT !.pc = pc] \in Stoppers
         /\ \A E \in SUBSET Emails : [stopper EXCEPT !.pc = pc, !.held = E] \in Stoppers
         /\ \A e \in Emails : [stopper EXCEPT !.held = @ \ {e}] \in Stoppers
BY DEF Stoppers, NoStopper, StopperPCs

-----------------------------------------------------------------------------
(* The types are preserved, one lemma per coroutine.                       *)

ProcessType == ConnectionType /\ MemoryType /\ CoroutineType

(* A step of start() before its task exists.                               *)
LEMMA StarterOnly ==
  ASSUME ProcessType, ConnectionType', starter' \in Starters, mem' \in [Runs -> States],
         UNCHANGED <<listed, plan, next, event, task, worker, canceller, recovery, stopper>>
  PROVE  ProcessType'
BY DEF ProcessType, MemoryType, CoroutineType

LEMMA FrozenTypes ==
  ASSUME ProcessType, Frozen
  PROVE  ProcessType'
BY DEF Frozen, ProcessType, ConnectionType, MemoryType, CoroutineType, memory

LEMMA StartTypes ==
  ASSUME ProcessType, Start
  PROVE  ProcessType'
<1> USE DEF StartGoto, StartReturns
<1>0. /\ ConnectionType /\ starter \in Starters /\ mem \in [Runs -> States]
      /\ "check" \in StarterPCs /\ "create" \in StarterPCs /\ "reserve" \in StarterPCs
      /\ "query" \in StarterPCs
      /\ "abort" \in StarterPCs /\ "setReserved" \in StarterPCs /\ "short" \in StarterPCs
      /\ "save" \in StarterPCs /\ "saveFailed" \in StarterPCs
      /\ {"queued", "running", "failed"} \subseteq StatusOrNone
  BY DEF ProcessType, MemoryType, CoroutineType, StarterPCs, StatusOrNone, Statuses,
         Active, Terminal
<1>1. ASSUME NEW r \in Runs, NEW n \in 1 .. Cardinality(Emails), StartBegin(r, n)
      PROVE  ProcessType'
  <2>1. n \in Nat
    OBVIOUS
  <2>2. starter' \in Starters
    BY <1>0, <1>1, <2>1, StarterShapes DEF StartBegin
  <2>3. ConnectionType'
    BY <1>0, <1>1, OperationTypes DEF StartBegin
  <2>4. QED  BY <1>0, <1>1, <2>2, <2>3, StarterOnly DEF StartBegin, OnlyStarter, memory
<1>2. CASE StartCheckActive
  <2>1. starter' \in Starters
    BY <1>0, <1>2, StarterShapes DEF StartCheckActive
  <2>2. ConnectionType'
    BY <1>0, <1>2, OperationTypes DEF StartCheckActive
  <2>3. QED
    BY <1>0, <1>2, <2>1, <2>2, StarterOnly DEF StartCheckActive, OnlyStarter, memory
<1>3. ASSUME NEW r \in Runs, StartCreate(r)
      PROVE  ProcessType'
  <2>1. starter' \in Starters
    BY <1>0, <1>3, StarterShapes DEF StartCreate
  <2>2. ConnectionType'
    BY <1>0, <1>3, OperationTypes DEF StartCreate
  <2>3. mem' \in [Runs -> States]
    <3>1. [mem EXCEPT ![r] = [NoState EXCEPT !.status = "queued"]] \in [Runs -> States]
      BY <1>0, StateShapes
    <3>2. QED  BY <1>0, <1>3, <3>1 DEF StartCreate
  <2>4. listed' \in [Runs -> {"none", "own", "copy"}]
    BY <1>3 DEF StartCreate, ProcessType, MemoryType
  <2>5. QED
    BY <1>3, <2>1, <2>2, <2>3, <2>4 DEF StartCreate, ProcessType, MemoryType, CoroutineType
<1>4. CASE StartQueryEmails
  <2>1. Candidates(db) \in SUBSET Emails
    BY DEF Candidates
  <2>2. starter' \in Starters
    <3>1. [starter EXCEPT !.pc = "reserve", !.candidates = Candidates(db)] \in Starters
      BY <1>0, <2>1, StarterShapes
    <3>2. QED  BY <1>0, <1>4, <3>1, StarterShapes DEF StartQueryEmails
  <2>3. ConnectionType'
    BY <1>0, <1>4, OperationTypes DEF StartQueryEmails
  <2>4. QED
    BY <1>0, <1>4, <2>2, <2>3, StarterOnly DEF StartQueryEmails, OnlyStarter, memory
<1>5. ASSUME NEW r \in Runs, NEW e \in Emails, StartReserve(r, e)
      PROVE  ProcessType'
  <2>1. starter.candidates \ {e} \in SUBSET Emails
    BY <1>0 DEF Starters
  <2>2. starter' \in Starters
    BY <1>0, <1>5, <2>1, StarterShapes DEF StartReserve
  <2>3. ConnectionType'
    BY <1>0, <1>5, OperationTypes DEF StartReserve
  <2>4. plan' \in [Runs -> Seq(Emails)]
    <3>1. plan \in [Runs -> Seq(Emails)] /\ Append(plan[r], e) \in Seq(Emails)
      BY DEF ProcessType, MemoryType
    <3>2. QED  BY <1>5, <3>1 DEF StartReserve
  <2>5. QED
    BY <1>5, <2>2, <2>3, <2>4 DEF StartReserve, ProcessType, MemoryType, CoroutineType
<1>6. ASSUME NEW r \in Runs,
             StartReserveEnds(r) \/ StartInsufficient(r) \/ StartSetReserved(r)
                                 \/ StartSaveFailed(r)
      PROVE  ProcessType'
  <2> USE DEF StartReserveEnds, StartInsufficient, StartSetReserved, StartSaveFailed
  <2>1. starter' \in Starters
    BY <1>0, <1>6, StarterShapes
  <2>2. ConnectionType'
    BY <1>0, <1>6, OperationTypes
  <2>3. OnlyStarter
    BY <1>6
  <2>4. QED
    BY <1>0, <2>1, <2>2, <2>3, StarterOnly DEF OnlyStarter, memory
<1>7. ASSUME NEW r \in Runs, StartAbort(r)
      PROVE  ProcessType'
  <2>1. starter' \in Starters
    <3>1. starter' \in {NoStarter, [starter EXCEPT !.pc = "saveFailed"]}
      BY <1>7 DEF StartAbort
    <3>2. QED  BY <1>0, <3>1, StarterShapes
  <2>2. ConnectionType'
    BY <1>0, <1>7, OperationTypes DEF StartAbort
  <2>3. mem' \in [Runs -> States]
    <3>1. [mem EXCEPT ![r].status = "failed"] \in [Runs -> States]
      BY <1>0, StateShapes
    <3>2. mem' \in {mem, [mem EXCEPT ![r].status = "failed"]}
      BY <1>7 DEF StartAbort
    <3>3. QED  BY <1>0, <3>1, <3>2
  <2>4. QED  BY <1>7, <2>1, <2>2, <2>3, StarterOnly DEF StartAbort, OnlyStarterAndMem
<1>8. ASSUME NEW r \in Runs, StartTask(r)
      PROVE  ProcessType'
  <2>1. starter' \in Starters
    BY <1>0, <1>8, StarterShapes DEF StartTask
  <2>2. ConnectionType'
    BY <1>0, <1>8, OperationTypes DEF StartTask
  <2>3. mem' \in [Runs -> States]
    BY <1>0, <1>8, StateShapes DEF StartTask
  <2>4. task' \in [Runs -> Tasks]
    <3>1. task \in [Runs -> Tasks] /\ "gather" \in TaskPCs
      BY DEF ProcessType, CoroutineType, TaskPCs
    <3>2. [task EXCEPT ![r].pc = "gather"] \in [Runs -> Tasks]
      BY <3>1, TaskShapes
    <3>3. QED  BY <1>8, <3>1, <3>2 DEF StartTask
  <2>5. worker' \in [Runs -> [Workers -> WorkerStates]]
    <3>1. worker \in [Runs -> [Workers -> WorkerStates]]
      BY DEF ProcessType, CoroutineType
    <3>2. [NoWorker EXCEPT !.pc = "take"] \in WorkerStates
      BY DEF NoWorker, WorkerStates, WorkerPCs
    <3>3. [worker EXCEPT ![r] = [v \in Workers |-> [NoWorker EXCEPT !.pc = "take"]]]
            \in [Runs -> [Workers -> WorkerStates]]
      BY <3>1, <3>2, WorkersShapes
    <3>4. QED  BY <1>8, <3>1, <3>3 DEF StartTask
  <2>6. event' \in [Runs -> BOOLEAN]
    BY <1>8 DEF StartTask, ProcessType, MemoryType
  <2>7. QED
    BY <1>8, <2>1, <2>2, <2>3, <2>4, <2>5, <2>6
       DEF StartTask, ProcessType, MemoryType, CoroutineType
<1>9. QED
  BY <1>1, <1>2, <1>3, <1>4, <1>5, <1>6, <1>7, <1>8 DEF Start

-----------------------------------------------------------------------------
(* The workers and the task of a run.                                      *)

LEMMA ResumedTypes ==
  ASSUME ProcessType, NEW r \in Runs
  PROVE  /\ Resumed(task[r], r) \in StatusOrNone
         /\ \A w \in Workers : Resumed(worker[r][w], r) \in StatusOrNone
         /\ mem[r].status \in StatusOrNone
<1>1. mem[r].status \in StatusOrNone
  BY DEF ProcessType, MemoryType, States, StatusOrNone
<1>2. task[r].resume \in StatusOrNone
  BY DEF ProcessType, CoroutineType, Tasks, StatusOrNone
<1>3. \A w \in Workers : worker[r][w].resume \in StatusOrNone
  BY DEF ProcessType, CoroutineType, WorkerStates, StatusOrNone
<1>4. QED  BY <1>1, <1>2, <1>3 DEF Resumed

LEMMA RunOnly ==
  ASSUME ProcessType, ConnectionType', mem' \in [Runs -> States], task' \in [Runs -> Tasks],
         worker' \in [Runs -> [Workers -> WorkerStates]], OnlyRun
  PROVE  ProcessType'
BY DEF ProcessType, MemoryType, CoroutineType, OnlyRun

LEMMA AbortTypes ==
  ASSUME ProcessType, NEW r \in Runs, NEW pc \in TaskPCs, NEW s \in StatusOrNone,
         AbortWorkers(r, pc, s)
  PROVE  /\ mem' \in [Runs -> States] /\ task' \in [Runs -> Tasks]
         /\ worker' \in [Runs -> [Workers -> WorkerStates]]
<1>1. /\ mem \in [Runs -> States] /\ task \in [Runs -> Tasks]
      /\ worker \in [Runs -> [Workers -> WorkerStates]]
  BY DEF ProcessType, MemoryType, CoroutineType
<1>2. [mem EXCEPT ![r].status = s] \in [Runs -> States]
  BY <1>1, StateShapes
<1>3. [task EXCEPT ![r] = Call(@, pc, s)] \in [Runs -> Tasks]
  BY <1>1, TaskShapes
<1>4. NoWorker \in WorkerStates
  BY DEF NoWorker, WorkerStates, WorkerPCs
<1>5. [worker EXCEPT ![r] = [w \in Workers |-> NoWorker]] \in [Runs -> [Workers -> WorkerStates]]
  BY <1>1, <1>4, WorkersShapes
<1>6. QED  BY <1>2, <1>3, <1>5 DEF AbortWorkers, WithStatus

LEMMA WorkTypes ==
  ASSUME ProcessType, NEW r \in Runs, NEW w \in Workers, Work(r, w)
  PROVE  ProcessType'
<1>0. /\ ConnectionType /\ mem \in [Runs -> States] /\ task \in [Runs -> Tasks]
      /\ worker \in [Runs -> [Workers -> WorkerStates]] /\ worker[r][w] \in WorkerStates
      /\ next \in [Runs -> Nat \ {0}] /\ next[r] \in Nat
      /\ WorkerPCs = {"exit", "take", "sleep", "account", "consume", "release", "fail", "record"}
      /\ "waiting_for_database" \in StatusOrNone
      /\ "release" \in TaskPCs /\ "failing" \in TaskPCs
  BY DEF ProcessType, MemoryType, CoroutineType, WorkerPCs, TaskPCs, StatusOrNone, Statuses, Active
<1>1. mem[r].status \in StatusOrNone /\ Resumed(worker[r][w], r) \in StatusOrNone
  BY ResumedTypes
<1>2. ASSUME NEW c \in WorkerStates, WorkerBecomes(r, w, c)
      PROVE  worker' \in [Runs -> [Workers -> WorkerStates]]
  <2>1. [worker EXCEPT ![r][w] = c] \in [Runs -> [Workers -> WorkerStates]]
    BY <1>0, WorkersShapes
  <2>2. QED  BY <1>2, <2>1 DEF WorkerBecomes
<1>3. NoWorker \in WorkerStates /\ [NoWorker EXCEPT !.pc = "take"] \in WorkerStates
  BY <1>0, WorkerShapes
<1>4. ASSUME NEW s \in StatusOrNone, mem' = WithStatus(r, s)
      PROVE  mem' \in [Runs -> States]
  BY <1>0, <1>4, StateShapes DEF WithStatus
<1>5. CASE WorkerTakes(r, w)
  <2>1. [worker[r][w] EXCEPT !.pc = "sleep", !.job = next[r]] \in WorkerStates
    BY <1>0, WorkerShapes
  <2>2. worker' \in [Runs -> [Workers -> WorkerStates]]
    BY <1>2, <1>3, <1>5, <2>1 DEF WorkerTakes, WorkerCall
  <2>3. next' \in [Runs -> Nat \ {0}]
    <3>1. next[r] + 1 \in Nat \ {0}
      BY <1>0
    <3>2. QED  BY <1>0, <1>5, <3>1 DEF WorkerTakes
  <2>4. ConnectionType'
    BY <1>0, <1>5, OperationTypes DEF WorkerTakes
  <2>5. QED  BY <1>5, <2>2, <2>3, <2>4 DEF WorkerTakes, ProcessType, MemoryType, CoroutineType
<1>6. CASE WorkerWakes(r, w)
  <2>1. AfterWork(r, w) \in WorkerPCs
    BY <1>0 DEF AfterWork
  <2>2. Call(worker[r][w], AfterWork(r, w), mem[r].status) \in WorkerStates
    BY <1>0, <1>1, <2>1, WorkerShapes
  <2>3. worker' \in [Runs -> [Workers -> WorkerStates]]
    BY <1>2, <1>6, <2>2 DEF WorkerWakes, WorkerCall
  <2>4. ConnectionType'
    BY <1>0, <1>6, OperationTypes DEF WorkerWakes
  <2>5. QED  BY <1>0, <1>6, <2>3, <2>4, RunOnly DEF WorkerWakes
<1>7. CASE WorkerRegistersAccount(r, w) \/ WorkerRecords(r, w) \/ WorkerReleases(r, w)
  <2> USE DEF WorkerRegistersAccount, WorkerRecords, WorkerReleases, WorkerCall
  <2>1. [worker[r][w] EXCEPT !.pc = "consume"] \in WorkerStates
    BY <1>0, WorkerShapes
  <2>2. worker' \in [Runs -> [Workers -> WorkerStates]]
    BY <1>2, <1>3, <1>7, <2>1
  <2>3. mem' \in [Runs -> States]
    BY <1>1, <1>4, <1>7
  <2>4. ConnectionType'
    BY <1>0, <1>7, OperationTypes
  <2>5. QED  BY <1>0, <1>7, <2>2, <2>3, <2>4, RunOnly
<1>8. CASE WorkerConsumesEmail(r, w) \/ WorkerFailsEmail(r, w)
  <2>1. PICK b \in BOOLEAN : Counted(r, w, b)
    BY <1>8 DEF WorkerConsumesEmail, WorkerFailsEmail
  <2>2. Call(worker[r][w], "record", Resumed(worker[r][w], r)) \in WorkerStates
    BY <1>0, <1>1, WorkerShapes
  <2>3. worker' \in [Runs -> [Workers -> WorkerStates]]
    BY <1>2, <2>1, <2>2 DEF Counted, WorkerCall
  <2>4. mem' \in [Runs -> States]
    BY <1>0, <1>1, <2>1, CountedShapes DEF Counted, WorkerCall
  <2>5. ConnectionType'
    BY <1>0, <1>8, OperationTypes DEF WorkerConsumesEmail, WorkerFailsEmail
  <2>6. QED
    BY <1>0, <1>8, <2>3, <2>4, <2>5, RunOnly DEF WorkerConsumesEmail, WorkerFailsEmail
<1>9. CASE WorkerUnavailable(r, w)
  <2>1. ConnectionType' /\ OnlyRun
    BY <1>0, <1>9, OperationTypes DEF WorkerUnavailable
  <2>2. CASE event[r]
    <3>1. AbortWorkers(r, "release", Resumed(worker[r][w], r))
      BY <1>9, <2>2 DEF WorkerUnavailable, WorkerCall
    <3>2. QED  BY <1>0, <1>1, <2>1, <3>1, AbortTypes, RunOnly
  <2>3. CASE ~event[r]
    <3>1. [worker[r][w] EXCEPT !.pc = RetryFrom(@), !.waiting = TRUE] \in WorkerStates
      BY <1>0, WorkerShapes
    <3>2. worker' \in [Runs -> [Workers -> WorkerStates]]
      BY <1>2, <1>9, <2>3, <3>1 DEF WorkerUnavailable, WorkerCall
    <3>3. mem' \in [Runs -> States]
      BY <1>0, <1>4, <1>9, <2>3 DEF WorkerUnavailable
    <3>4. QED  BY <1>0, <1>9, <2>1, <2>3, <3>2, <3>3, RunOnly DEF WorkerUnavailable
  <2>4. QED  BY <2>2, <2>3
<1>10. CASE WorkerTimesOut(r, w)
  <2>1. ConnectionType' /\ OnlyRun /\ AbortWorkers(r, "failing", mem[r].status)
    BY <1>0, <1>10, OperationTypes DEF WorkerTimesOut
  <2>2. QED  BY <1>0, <1>1, <2>1, AbortTypes, RunOnly
<1>11. CASE WorkerSpins(r, w)
  BY <1>11, SpinningFreezes, FrozenTypes
<1>12. QED
  BY <1>5, <1>6, <1>7, <1>8, <1>9, <1>10, <1>11 DEF Work

LEMMA ExecuteTypes ==
  ASSUME ProcessType, NEW r \in Runs, Execute(r), db \in Databases
  PROVE  ProcessType'
<1>0. /\ ConnectionType /\ mem \in [Runs -> States] /\ task \in [Runs -> Tasks]
      /\ event \in [Runs -> BOOLEAN] /\ task[r].held \in SUBSET Emails
      /\ HeldBy(db, r) \in SUBSET Emails
      /\ TaskPCs = {"none", "gather", "complete", "release", "cancelled", "failing",
                    "reconcile", "failed"}
      /\ {"completed", "cancelled", "failed", "waiting_for_database"} \subseteq StatusOrNone
  BY DEF ProcessType, MemoryType, CoroutineType, Tasks, TaskPCs, HeldBy, StatusOrNone, Statuses,
         Active, Terminal
<1>1. mem[r].status \in StatusOrNone /\ Resumed(task[r], r) \in StatusOrNone
  BY ResumedTypes
<1>2. ASSUME NEW s \in StatusOrNone, mem' = WithStatus(r, s)
      PROVE  mem' \in [Runs -> States]
  BY <1>0, <1>2, StateShapes DEF WithStatus
<1>3. ASSUME TaskEnds(r)
      PROVE  task' \in [Runs -> Tasks] /\ event' \in [Runs -> BOOLEAN]
  <2>1. [task EXCEPT ![r] = NoTask] \in [Runs -> Tasks]
    BY <1>0, TaskShapes
  <2>2. QED  BY <1>0, <1>3, <2>1 DEF TaskEnds
<1>4. ASSUME NEW pc \in TaskPCs, NEW s \in StatusOrNone, TaskGoto(r, pc, s)
      PROVE  task' \in [Runs -> Tasks] /\ event' \in [Runs -> BOOLEAN]
  <2>1. [task EXCEPT ![r] = Call(@, pc, s)] \in [Runs -> Tasks]
    BY <1>0, TaskShapes
  <2>2. QED  BY <1>0, <1>4, <2>1 DEF TaskGoto
<1>5. ASSUME ConnectionType', mem' \in [Runs -> States], OnlyTask,
             task' \in [Runs -> Tasks] /\ event' \in [Runs -> BOOLEAN]
      PROVE  ProcessType'
  BY <1>5 DEF ProcessType, MemoryType, CoroutineType, OnlyTask
<1>6. CASE TaskGathered(r)
  <2>1. ConnectionType' /\ OnlyTask
    BY <1>0, <1>6, OperationTypes DEF TaskGathered
  <2>2. task' \in [Runs -> Tasks] /\ event' \in [Runs -> BOOLEAN]
    BY <1>0, <1>1, <1>4, <1>6 DEF TaskGathered
  <2>3. mem' \in [Runs -> States]
    BY <1>0, <1>2, <1>6 DEF TaskGathered
  <2>4. QED  BY <1>5, <2>1, <2>2, <2>3
<1>7. CASE TaskCompletes(r) \/ TaskCancelled(r)
  <2> USE DEF TaskCompletes, TaskCancelled
  <2>1. ConnectionType' /\ OnlyTask
    BY <1>0, <1>7, OperationTypes
  <2>2. task' \in [Runs -> Tasks] /\ event' \in [Runs -> BOOLEAN]
    BY <1>3, <1>7
  <2>3. mem' \in [Runs -> States]
    BY <1>1, <1>2, <1>7
  <2>4. QED  BY <1>5, <2>1, <2>2, <2>3
<1>8. CASE TaskReleases(r)
  <2>1. ConnectionType' /\ OnlyTask
    BY <1>0, <1>8, OperationTypes DEF TaskReleases
  <2>2. task' \in [Runs -> Tasks] /\ event' \in [Runs -> BOOLEAN]
    BY <1>0, <1>4, <1>8 DEF TaskReleases
  <2>3. mem' \in [Runs -> States]
    <3>1. [mem EXCEPT ![r].status = "cancelled", ![r].cancel = FALSE] \in [Runs -> States]
      BY <1>0, StateShapes
    <3>2. QED  BY <1>8, <3>1 DEF TaskReleases
  <2>4. QED  BY <1>5, <2>1, <2>2, <2>3
<1>9. CASE TaskUnavailable(r)
  <2>1. ConnectionType' /\ OnlyTask
    BY <1>0, <1>9, OperationTypes DEF TaskUnavailable
  <2>2. task' \in [Runs -> Tasks] /\ event' \in [Runs -> BOOLEAN]
    <3>1. [task EXCEPT ![r].waiting = TRUE] \in [Runs -> Tasks]
      BY <1>0, TaskShapes
    <3>2. QED  BY <1>0, <1>1, <1>4, <1>9, <3>1 DEF TaskUnavailable
  <2>3. mem' \in [Runs -> States]
    BY <1>0, <1>1, <1>2, <1>9 DEF TaskUnavailable
  <2>4. QED  BY <1>5, <2>1, <2>2, <2>3
<1>10. CASE TaskTimesOut(r)
  <2>1. ConnectionType' /\ OnlyTask /\ mem' = mem
    BY <1>0, <1>10, OperationTypes DEF TaskTimesOut
  <2>2. task' \in [Runs -> Tasks] /\ event' \in [Runs -> BOOLEAN]
    BY <1>0, <1>1, <1>4, <1>10 DEF TaskTimesOut
  <2>3. QED  BY <1>0, <1>5, <2>1, <2>2
<1>11. CASE TaskFails(r)
  <2>1. ConnectionType' /\ OnlyTask
    BY <1>0, <1>11, OperationTypes DEF TaskFails
  <2>2. task' \in [Runs -> Tasks] /\ event' \in [Runs -> BOOLEAN]
    <3>1. [task EXCEPT ![r].pc = "reconcile", ![r].held = HeldBy(db, r)] \in [Runs -> Tasks]
      BY <1>0, TaskShapes
    <3>2. QED  BY <1>0, <1>3, <1>11, <3>1 DEF TaskFails
  <2>3. mem' \in [Runs -> States]
    BY <1>0, <1>2, <1>11 DEF TaskFails
  <2>4. QED  BY <1>5, <2>1, <2>2, <2>3
<1>12. ASSUME NEW e \in Emails, TaskReconciles(r, e)
       PROVE  ProcessType'
  <2>1. ConnectionType' /\ OnlyTask /\ mem' = mem
    BY <1>0, <1>12, OperationTypes DEF TaskReconciles
  <2>2. task' \in [Runs -> Tasks] /\ event' \in [Runs -> BOOLEAN]
    <3>1. [task EXCEPT ![r].held = @ \ {e}] \in [Runs -> Tasks]
      BY <1>0, TaskShapes
    <3>2. QED  BY <1>0, <1>3, <1>12, <3>1 DEF TaskReconciles
  <2>3. QED  BY <1>0, <1>5, <2>1, <2>2
<1>13. CASE TaskReconciled(r)
  <2>1. ConnectionType' /\ OnlyTask
    BY <1>0, <1>13, OperationTypes DEF TaskReconciled
  <2>2. task' \in [Runs -> Tasks] /\ event' \in [Runs -> BOOLEAN]
    BY <1>0, <1>3, <1>4, <1>13 DEF TaskReconciled
  <2>3. mem' \in [Runs -> States]
    BY <1>0, <1>2, <1>13 DEF TaskReconciled
  <2>4. QED  BY <1>5, <2>1, <2>2, <2>3
<1>14. CASE TaskFailed(r)
  <2>1. ConnectionType' /\ OnlyTask /\ mem' = mem
    BY <1>0, <1>14, OperationTypes DEF TaskFailed
  <2>2. task' \in [Runs -> Tasks] /\ event' \in [Runs -> BOOLEAN]
    BY <1>3, <1>14 DEF TaskFailed
  <2>3. QED  BY <1>0, <1>5, <2>1, <2>2
<1>15. CASE TaskSpins(r)
  BY <1>15, SpinningFreezes, FrozenTypes
<1>16. QED
  BY <1>6, <1>7, <1>8, <1>9, <1>10, <1>11, <1>12, <1>13, <1>14, <1>15 DEF Execute

LEMMA CancelTypes ==
  ASSUME ProcessType, NEW r \in Runs, CancelRequests(r) \/ CancelSignals(r)
  PROVE  ProcessType'
<1>0. /\ ConnectionType /\ mem \in [Runs -> States]
      /\ event \in [Runs -> BOOLEAN] /\ canceller \in Runs \cup {None}
  BY DEF ProcessType, MemoryType, CoroutineType
<1>1. CASE CancelRequests(r)
  <2>1. ConnectionType'
    BY <1>0, <1>1, OperationTypes DEF CancelRequests
  <2>2. canceller' \in Runs \cup {None}
    BY <1>0, <1>1 DEF CancelRequests
  <2>3. QED
    BY <1>1, <2>1, <2>2 DEF CancelRequests, ProcessType, MemoryType, CoroutineType, memory
<1>2. CASE CancelSignals(r)
  <2>1. ConnectionType'
    BY <1>0, <1>2, OperationTypes DEF CancelSignals
  <2>2. [mem EXCEPT ![r].cancel = TRUE] \in [Runs -> States]
    BY <1>0, StateShapes
  <2>3. mem' \in [Runs -> States] /\ event' \in [Runs -> BOOLEAN] /\ canceller' = None
    BY <1>0, <1>2, <2>2 DEF CancelSignals
  <2>4. QED  BY <1>2, <2>1, <2>3 DEF CancelSignals, ProcessType, MemoryType, CoroutineType
<1>3. QED  BY <1>1, <1>2

-----------------------------------------------------------------------------
(* Recovery, and the end of the process.                                   *)

LEMMA RecoverTypes ==
  ASSUME ProcessType, Recover, db \in Databases
  PROVE  ProcessType'
<1>0. /\ ConnectionType /\ recovery \in Recoveries
      /\ RecoveryPCs = {"idle", "flush", "scan", "pick", "reconcile", "indexes"}
      /\ Listed \in SUBSET Runs /\ LocalActive \in SUBSET Runs
      /\ ActiveDocs(db) \ recovery.local \in SUBSET Runs
      /\ NoRecovery \in Recoveries
  BY DEF ProcessType, CoroutineType, RecoveryPCs, Listed, LocalActive, ActiveDocs, NoRecovery,
         Recoveries
<1>1. ASSUME ConnectionType', recovery' \in Recoveries, OnlyRecovery
      PROVE  ProcessType'
  BY <1>1 DEF ProcessType, MemoryType, CoroutineType, OnlyRecovery, memory
<1>2. CASE Probe
  <2>1. ConnectionType' /\ OnlyRecovery
    BY <1>0, <1>2 DEF Probe, ConnectionType
  <2>2. [NoRecovery EXCEPT !.pc = "flush", !.seen = Listed, !.todo = Listed] \in Recoveries
    BY <1>0, RecoveryShapes
  <2>3. QED  BY <1>1, <1>2, <2>1, <2>2 DEF Probe
<1>3. CASE ProbeFails
  <2>1. /\ online' = FALSE /\ wakes' = FALSE /\ hung' = hung
        /\ serving' \in BOOLEAN /\ restarts' = restarts /\ OnlyRecovery
    BY <1>3 DEF ProbeFails, GoesOffline
  <2>2. faults' \in 0 .. MaxFaults
    <3>1. faults \in 0 .. MaxFaults
      BY <1>0 DEF ConnectionType
    <3>2. QED  BY <1>3, <3>1, ManagerAssumption DEF ProbeFails
  <2>3. ConnectionType'
    BY <1>0, <2>1, <2>2 DEF ConnectionType
  <2>4. QED  BY <1>0, <1>1, <1>3, <2>1, <2>3 DEF ProbeFails
<1>4. ASSUME NEW r \in Runs, RecoverFlushes(r) \/ RecoverPicks(r)
      PROVE  ProcessType'
  <2>1. ConnectionType' /\ OnlyRecovery
    BY <1>0, <1>4, OperationTypes DEF RecoverFlushes, RecoverPicks
  <2>2. HeldBy(db, r) \in SUBSET Emails
    BY DEF HeldBy
  <2>3. /\ [recovery EXCEPT !.todo = @ \ {r}] \in Recoveries
        /\ [recovery EXCEPT !.pc = "reconcile", !.run = r, !.held = HeldBy(db, r)] \in Recoveries
    BY <1>0, <2>2, RecoveryShapes
  <2>4. QED  BY <1>1, <1>4, <2>1, <2>3 DEF RecoverFlushes, RecoverPicks
<1>5. CASE RecoverSnapshots \/ RecoverScans
  <2>1. ConnectionType' /\ OnlyRecovery
    BY <1>0, <1>5, OperationTypes DEF RecoverSnapshots, RecoverScans
  <2>2. /\ [recovery EXCEPT !.pc = "scan", !.local = LocalActive] \in Recoveries
        /\ [recovery EXCEPT !.pc = "pick", !.stale = ActiveDocs(db) \ recovery.local]
             \in Recoveries
    BY <1>0, RecoveryShapes
  <2>3. QED  BY <1>1, <1>5, <2>1, <2>2 DEF RecoverSnapshots, RecoverScans
<1>6. ASSUME NEW r \in Runs, NEW e \in Emails, RecoverReconciles(r, e)
      PROVE  ProcessType'
  <2>1. ConnectionType' /\ OnlyRecovery
    BY <1>0, <1>6, OperationTypes DEF RecoverReconciles
  <2>2. [recovery EXCEPT !.held = @ \ {e}] \in Recoveries
    BY <1>0, RecoveryShapes
  <2>3. QED  BY <1>1, <1>6, <2>1, <2>2 DEF RecoverReconciles
<1>7. ASSUME NEW r \in Runs, RecoverInterrupts(r)
      PROVE  ProcessType'
  <2>1. ConnectionType'
    BY <1>0, <1>7, OperationTypes DEF RecoverInterrupts
  <2>2. [recovery EXCEPT !.pc = "pick", !.run = None, !.stale = @ \ {r}] \in Recoveries
    BY <1>0, RecoveryShapes
  <2>3. listed' \in [Runs -> {"none", "own", "copy"}]
    BY <1>7 DEF RecoverInterrupts, ProcessType, MemoryType
  <2>4. QED
    BY <1>7, <2>1, <2>2, <2>3 DEF RecoverInterrupts, ProcessType, MemoryType, CoroutineType
<1>8. CASE RecoverReleasesOrphans
  <2>1. ConnectionType' /\ OnlyRecovery
    BY <1>0, <1>8, OperationTypes DEF RecoverReleasesOrphans
  <2>2. [NoRecovery EXCEPT !.pc = "indexes"] \in Recoveries
    BY <1>0, RecoveryShapes
  <2>3. QED  BY <1>1, <1>8, <2>1, <2>2 DEF RecoverReleasesOrphans
<1>11. CASE ProbeSucceeds
  <2>1. ConnectionType'
    <3>1. serving' \in BOOLEAN /\ wakes' = TRUE /\ UNCHANGED <<online, hung, faults, restarts>>
      BY <1>11 DEF ProbeSucceeds
    <3>2. QED  BY <1>0, <3>1 DEF ConnectionType
  <2>2. QED  BY <1>0, <1>1, <1>11, <2>1 DEF ProbeSucceeds
<1>9. CASE RecoverFails
  <2>1. ConnectionType'
    <3>1. /\ serving' \in BOOLEAN /\ online' = FALSE /\ wakes' = FALSE /\ hung' = hung
          /\ restarts' = restarts
      BY <1>0, <1>9 DEF RecoverFails, Fault, GoesOffline
    <3>2. faults' = faults \/ (faults < MaxFaults /\ faults' = faults + 1)
      BY <1>9 DEF RecoverFails, Fault
    <3>3. faults' \in 0 .. MaxFaults
      BY <1>0, <3>2, ManagerAssumption DEF ConnectionType
    <3>4. QED  BY <1>0, <3>1, <3>3 DEF ConnectionType
  <2>2. QED  BY <1>0, <1>1, <1>9, <2>1 DEF RecoverFails
<1>10. QED
  BY <1>2, <1>3, <1>4, <1>5, <1>6, <1>7, <1>8, <1>9, <1>11 DEF Recover

LEMMA NewProcessTypes ==
  ASSUME ProcessType, NewProcess, faults' = faults, restarts' \in 0 .. MaxRestarts
  PROVE  ProcessType'
<1>1. ConnectionType'
  BY DEF NewProcess, ProcessType, ConnectionType
<1>2. MemoryType'
  BY DEF NewProcess, MemoryType, NoState, States
<1>3. /\ NoTask \in Tasks /\ NoWorker \in WorkerStates /\ NoStarter \in Starters
      /\ NoRecovery \in Recoveries /\ NoStopper \in Stoppers
  BY DEF NoTask, Tasks, TaskPCs, NoWorker, WorkerStates, WorkerPCs, NoStarter, Starters,
         StarterPCs, NoRecovery, Recoveries, RecoveryPCs, NoStopper, Stoppers, StopperPCs
<1>4. CoroutineType'
  BY <1>3 DEF NewProcess, CoroutineType, AllIdle
<1>5. QED  BY <1>1, <1>2, <1>4 DEF ProcessType

LEMMA ShutdownTypes ==
  ASSUME ProcessType, Shutdown, db \in Databases
  PROVE  ProcessType'
<1>0. /\ ConnectionType /\ stopper \in Stoppers /\ mem \in [Runs -> States]
      /\ StopperPCs = {"idle", "next", "find", "reconcile", "exit"}
      /\ "interrupted" \in StatusOrNone
  BY DEF ProcessType, CoroutineType, MemoryType, StopperPCs, StatusOrNone, Statuses, Terminal
<1>1. ASSUME ConnectionType', stopper' \in Stoppers, mem' \in [Runs -> States], OnlyStopper
      PROVE  ProcessType'
  BY <1>1 DEF ProcessType, MemoryType, CoroutineType, OnlyStopper
<1>2. ASSUME NEW r \in Runs
      PROVE  Interrupted(r) \in [Runs -> States]
  BY <1>0, StateShapes DEF Interrupted
<1>3. ASSUME NEW pc \in StopperPCs, StopGoto(pc)
      PROVE  stopper' \in Stoppers
  BY <1>0, <1>3, StopperShapes DEF StopGoto
<1>4. ASSUME NEW r \in Runs, ShutdownCancelsTask(r)
      PROVE  ProcessType'
  <2>1. ConnectionType'
    <3>1. restarts' = restarts \/ (restarts < MaxRestarts /\ restarts' = restarts + 1)
      BY <1>4 DEF ShutdownCancelsTask
    <3>2. restarts' \in 0 .. MaxRestarts
      BY <1>0, <3>1, ManagerAssumption DEF ConnectionType
    <3>3. serving' \in BOOLEAN /\ UNCHANGED <<online, wakes, hung, faults>>
      BY <1>4 DEF ShutdownCancelsTask
    <3>4. QED  BY <1>0, <3>2, <3>3 DEF ConnectionType
  <2>2. stopper' \in Stoppers
    <3>1. \A pc \in StopperPCs : [NoStopper EXCEPT !.run = r, !.pc = pc] \in Stoppers
      BY <1>0, StopperShapes
    <3>2. QED  BY <1>0, <1>4, <3>1 DEF ShutdownCancelsTask
  <2>3. task' \in [Runs -> Tasks] /\ worker' \in [Runs -> [Workers -> WorkerStates]]
    <3>1. task \in [Runs -> Tasks] /\ worker \in [Runs -> [Workers -> WorkerStates]]
      BY DEF ProcessType, CoroutineType
    <3>2. NoWorker \in WorkerStates
      BY DEF NoWorker, WorkerStates, WorkerPCs
    <3>3. /\ [task EXCEPT ![r] = NoTask] \in [Runs -> Tasks]
          /\ [worker EXCEPT ![r] = [w \in Workers |-> NoWorker]]
               \in [Runs -> [Workers -> WorkerStates]]
      BY <3>1, <3>2, TaskShapes, WorkersShapes
    <3>4. QED  BY <1>4, <3>3 DEF ShutdownCancelsTask
  <2>4. event' \in [Runs -> BOOLEAN]
    BY <1>4 DEF ShutdownCancelsTask, ProcessType, MemoryType
  <2>5. QED
    BY <1>4, <2>1, <2>2, <2>3, <2>4
       DEF ShutdownCancelsTask, ProcessType, MemoryType, CoroutineType
<1>5. ASSUME NEW r \in Runs, ShutdownFinds(r)
      PROVE  ProcessType'
  <2>1. ConnectionType' /\ OnlyStopper
    BY <1>0, <1>5, OperationTypes DEF ShutdownFinds
  <2>2. HeldBy(db, r) \in SUBSET Emails
    BY DEF HeldBy
  <2>3. [stopper EXCEPT !.pc = "reconcile", !.held = HeldBy(db, r)] \in Stoppers
    BY <1>0, <2>2, StopperShapes
  <2>4. stopper' \in Stoppers
    BY <1>0, <1>3, <1>5, <2>3 DEF ShutdownFinds
  <2>5. mem' \in [Runs -> States]
    BY <1>0, <1>2, <1>5 DEF ShutdownFinds
  <2>6. QED  BY <1>1, <2>1, <2>4, <2>5
<1>6. ASSUME NEW r \in Runs, NEW e \in Emails, ShutdownReconciles(r, e)
      PROVE  ProcessType'
  <2>1. ConnectionType' /\ OnlyStopper /\ mem' = mem
    BY <1>0, <1>6, OperationTypes DEF ShutdownReconciles
  <2>2. [stopper EXCEPT !.held = @ \ {e}] \in Stoppers
    BY <1>0, StopperShapes
  <2>3. stopper' \in Stoppers
    BY <1>0, <1>3, <1>6, <2>2 DEF ShutdownReconciles
  <2>4. QED  BY <1>0, <1>1, <2>1, <2>3
<1>7. ASSUME NEW r \in Runs, ShutdownSaves(r)
      PROVE  ProcessType'
  <2>1. ConnectionType' /\ OnlyStopper
    BY <1>0, <1>7, OperationTypes DEF ShutdownSaves
  <2>2. stopper' \in Stoppers
    BY <1>0, <1>3, <1>7 DEF ShutdownSaves
  <2>3. mem' \in [Runs -> States]
    BY <1>2, <1>7 DEF ShutdownSaves
  <2>4. QED  BY <1>1, <2>1, <2>2, <2>3
<1>8. CASE ShutdownExits
  BY <1>0, <1>8, NewProcessTypes DEF ShutdownExits, ConnectionType
<1>9. QED  BY <1>4, <1>5, <1>6, <1>7, <1>8 DEF Shutdown

-----------------------------------------------------------------------------
(* The strengthening: a worker's job is an address of its run, and the     *)
(* account is stored before the address is consumed.                       *)
JobsReserved ==
  \A r \in Runs, w \in Workers :
    /\ worker[r][w].pc \notin {"exit", "take"} => worker[r][w].job \in 1 .. Len(plan[r])
    /\ worker[r][w].pc = "consume" => plan[r][worker[r][w].job] \in db.account

IInv == TypeOK /\ JobsReserved /\ ConsumedHasAccount

LEMMA JobTypes ==
  ASSUME TypeOK, JobsReserved, NEW r \in Runs, NEW w \in Workers,
         worker[r][w].pc \notin {"exit", "take"}
  PROVE  Job(r, w) \in Emails
<1>1. plan[r] \in Seq(Emails) /\ worker[r][w].job \in 1 .. Len(plan[r])
  BY DEF TypeOK, MemoryType, JobsReserved
<1>2. QED  BY <1>1 DEF Job

-----------------------------------------------------------------------------
(* Every step is a step of the pool, one lemma per coroutine.              *)

LEMMA StartSteps ==
  ASSUME TypeOK, Start
  PROVE  PoolStep(db, db')
<1>0. db \in Databases /\ mem \in [Runs -> States]
  BY DEF TypeOK, MemoryType
<1>1. PoolStep(db, db)
  BY DEF PoolStep, SamePool, TypeOK
<1>2. ASSUME NEW r \in Runs
      PROVE  /\ PoolStep(db, Created(db, r))
             /\ PoolStep(db, Saved(db, r, "running", mem[r].cancel))
             /\ PoolStep(db, Saved(db, r, "failed", mem[r].cancel))
  <2>1. mem[r].cancel \in BOOLEAN /\ {"running", "failed"} \subseteq Statuses
    BY <1>0 DEF States, Statuses, Active, Terminal
  <2>2. QED  BY <1>0, <2>1, RunOperations
<1>3. ASSUME NEW r \in Runs
      PROVE  PoolStep(db, Released(db, HeldBy(db, r)))
  BY <1>0, HeldAreReserved, ReleaseSteps
<1>4. ASSUME NEW r \in Runs, NEW n \in 1 .. Cardinality(Emails), StartBegin(r, n)
      PROVE  PoolStep(db, db')
  BY <1>1, <1>4 DEF StartBegin, Quietly
<1>5. CASE StartCheckActive \/ StartQueryEmails
  BY <1>0, <1>1, <1>5, OperationSteps DEF StartCheckActive, StartQueryEmails
<1>6. ASSUME NEW r \in Runs, StartCreate(r)
      PROVE  PoolStep(db, db')
  BY <1>0, <1>1, <1>2, <1>6, OperationSteps DEF StartCreate
<1>7. ASSUME NEW r \in Runs, NEW e \in Emails, StartReserve(r, e)
      PROVE  PoolStep(db, db')
  <2>1. PoolStep(db, Reserved(db, e, r))
    BY <1>0, ReserveSteps
  <2>2. QED  BY <1>0, <1>7, <2>1, OperationSteps DEF StartReserve
<1>8. ASSUME NEW r \in Runs, StartReserveEnds(r) \/ StartSetReserved(r)
      PROVE  PoolStep(db, db')
  BY <1>0, <1>1, <1>8, OperationSteps DEF StartReserveEnds, StartSetReserved
<1>9. ASSUME NEW r \in Runs, StartInsufficient(r) \/ StartAbort(r)
      PROVE  PoolStep(db, db')
  BY <1>0, <1>1, <1>3, <1>9, OperationSteps DEF StartInsufficient, StartAbort
<1>10. ASSUME NEW r \in Runs, StartSaveFailed(r) \/ StartTask(r)
       PROVE  PoolStep(db, db')
  BY <1>0, <1>2, <1>10, OperationSteps DEF StartSaveFailed, StartTask
<1>11. QED
  BY <1>4, <1>5, <1>6, <1>7, <1>8, <1>9, <1>10 DEF Start

LEMMA WorkSteps ==
  ASSUME TypeOK, JobsReserved, NEW r \in Runs, NEW w \in Workers, Work(r, w)
  PROVE  PoolStep(db, db')
<1>0. db \in Databases /\ mem[r].cancel \in BOOLEAN /\ ProcessType
  BY DEF TypeOK, MemoryType, States, ProcessType
<1>1. PoolStep(db, db)
  BY <1>0 DEF PoolStep, SamePool
<1>2. PoolStep(db, WorkerEffect(r, w))
  <2>1. CASE worker[r][w].pc = "account"
    <3>1. PoolStep(db, Registered(db, Job(r, w)))
      BY <1>0, <2>1, JobTypes, RegisterSteps
    <3>2. QED  BY <2>1, <3>1 DEF WorkerEffect, WorkerCall
  <2>2. CASE worker[r][w].pc = "consume"
    <3>1. Job(r, w) \in Emails /\ Job(r, w) \in db.account
      BY <2>2, JobTypes DEF JobsReserved, Job
    <3>2. PoolStep(db, Consumed(db, Job(r, w), r))
      BY <1>0, <3>1, ConsumeSteps
    <3>3. QED  BY <2>2, <3>2 DEF WorkerEffect, WorkerCall
  <2>3. CASE worker[r][w].pc \in {"release", "fail"}
    <3>1. {Job(r, w)} \cap HeldBy(db, r) \in SUBSET ReservedEmails(db)
      BY <1>0, HeldAreReserved
    <3>2. PoolStep(db, Released(db, {Job(r, w)} \cap HeldBy(db, r)))
      BY <1>0, <3>1, ReleaseSteps
    <3>3. QED  BY <2>3, <3>2 DEF WorkerEffect, WorkerCall
  <2>4. CASE worker[r][w].pc = "record"
    <3>1. Resumed(worker[r][w], r) \in Statuses \cup {"none"}
      BY <1>0, ResumedTypes DEF StatusOrNone
    <3>2. PoolStep(db, Saved(db, r, Resumed(worker[r][w], r), mem[r].cancel))
      BY <1>0, <3>1, RunOperations
    <3>3. QED  BY <2>4, <3>2 DEF WorkerEffect, WorkerCall
  <2>5. CASE worker[r][w].pc \notin {"account", "consume", "release", "fail", "record"}
    BY <1>1, <2>5 DEF WorkerEffect, WorkerCall
  <2>6. QED  BY <2>1, <2>2, <2>3, <2>4, <2>5
<1>3. CASE WorkerTakes(r, w) \/ WorkerWakes(r, w) \/ WorkerTimesOut(r, w)
  BY <1>1, <1>3 DEF WorkerTakes, WorkerWakes, WorkerTimesOut, Quietly
<1>4. CASE \/ WorkerRegistersAccount(r, w) \/ WorkerConsumesEmail(r, w) \/ WorkerFailsEmail(r, w)
           \/ WorkerRecords(r, w) \/ WorkerReleases(r, w)
  BY <1>0, <1>2, <1>4, OperationSteps
     DEF WorkerRegistersAccount, WorkerConsumesEmail, WorkerFailsEmail, WorkerRecords,
         WorkerReleases
<1>5. CASE WorkerUnavailable(r, w)
  BY <1>0, <1>2, <1>5, OperationSteps DEF WorkerUnavailable
<1>6. CASE WorkerSpins(r, w)
  BY <1>1, <1>6, SpinningFreezes DEF Frozen
<1>7. QED  BY <1>3, <1>4, <1>5, <1>6 DEF Work

LEMMA ExecuteSteps ==
  ASSUME TypeOK, NEW r \in Runs, Execute(r)
  PROVE  PoolStep(db, db')
<1>0. db \in Databases /\ mem[r].cancel \in BOOLEAN /\ ProcessType
  BY DEF TypeOK, MemoryType, States, ProcessType
<1>1. PoolStep(db, db)
  BY <1>0 DEF PoolStep, SamePool
<1>2. Resumed(task[r], r) \in Statuses \cup {"none"} /\ "failed" \in Statuses
  BY <1>0, ResumedTypes DEF StatusOrNone, Statuses, Terminal
<1>3. /\ PoolStep(db, Saved(db, r, Resumed(task[r], r), mem[r].cancel))
      /\ PoolStep(db, Saved(db, r, "failed", mem[r].cancel))
  BY <1>0, <1>2, RunOperations
<1>4. PoolStep(db, Released(db, HeldBy(db, r)))
  BY <1>0, HeldAreReserved, ReleaseSteps
<1>5. PoolStep(db, TaskEffect(r))
  BY <1>1, <1>3, <1>4 DEF TaskEffect
<1>6. CASE \/ TaskGathered(r) \/ TaskTimesOut(r) \/ TaskReconciled(r)
  BY <1>1, <1>6 DEF TaskGathered, TaskTimesOut, TaskReconciled, Quietly
<1>7. CASE TaskCompletes(r) \/ TaskCancelled(r) \/ TaskFailed(r)
  BY <1>0, <1>3, <1>7, OperationSteps DEF TaskCompletes, TaskCancelled, TaskFailed
<1>8. CASE TaskReleases(r)
  BY <1>0, <1>4, <1>8, OperationSteps DEF TaskReleases
<1>9. CASE TaskUnavailable(r)
  BY <1>0, <1>5, <1>9, OperationSteps DEF TaskUnavailable
<1>10. CASE TaskFails(r)
  BY <1>0, <1>1, <1>10, OperationSteps DEF TaskFails
<1>11. ASSUME NEW e \in Emails, TaskReconciles(r, e)
       PROVE  PoolStep(db, db')
  <2>1. PoolStep(db, Reconciled(db, e, r))
    BY <1>0, ReconcileSteps
  <2>2. QED  BY <1>0, <1>11, <2>1, OperationSteps DEF TaskReconciles
<1>12. CASE TaskSpins(r)
  BY <1>1, <1>12, SpinningFreezes DEF Frozen
<1>13. QED  BY <1>6, <1>7, <1>8, <1>9, <1>10, <1>11, <1>12 DEF Execute

LEMMA CancelSteps ==
  ASSUME TypeOK, NEW r \in Runs, CancelRequests(r) \/ CancelSignals(r)
  PROVE  PoolStep(db, db')
<1>1. db \in Databases /\ PoolStep(db, db)
  BY DEF TypeOK, PoolStep, SamePool
<1>2. PoolStep(db, CancelRequested(db, r))
  BY <1>1, RunOperations, "none" \in Statuses \cup {"none"}, TRUE \in BOOLEAN
<1>3. CASE CancelRequests(r)
  BY <1>1, <1>2, <1>3, OperationSteps DEF CancelRequests
<1>4. CASE CancelSignals(r)
  BY <1>1, <1>4 DEF CancelSignals, Quietly
<1>5. QED  BY <1>3, <1>4

LEMMA RecoverSteps ==
  ASSUME TypeOK, Recover
  PROVE  PoolStep(db, db')
<1>0. db \in Databases /\ mem \in [Runs -> States] /\ recovery \in Recoveries
  BY DEF TypeOK, MemoryType, CoroutineType
<1>1. PoolStep(db, db)
  BY <1>0 DEF PoolStep, SamePool
<1>2. ASSUME NEW r \in Runs
      PROVE  PoolStep(db, Saved(db, r, "interrupted", FALSE))
  BY <1>0, RunOperations, "interrupted" \in Statuses DEF Statuses, Terminal
<1>3. CASE Probe \/ ProbeFails \/ RecoverSnapshots \/ RecoverScans \/ ProbeSucceeds
  BY <1>1, <1>3 DEF Probe, ProbeFails, RecoverSnapshots, RecoverScans, ProbeSucceeds, Quietly,
                    Returns
<1>4. ASSUME NEW r \in Runs, RecoverFlushes(r)
      PROVE  PoolStep(db, db')
  <2>1. CASE ListedStatus(r) \in Terminal
    <3>1. (listed[r] = "own" /\ mem[r].cancel) \in BOOLEAN
      OBVIOUS
    <3>2. PoolStep(db, Saved(db, r, ListedStatus(r), listed[r] = "own" /\ mem[r].cancel))
      BY <1>0, <2>1, <3>1, RunOperations DEF Statuses
    <3>3. QED  BY <1>4, <2>1, <3>2 DEF RecoverFlushes, Returns
  <2>2. CASE ListedStatus(r) \notin Terminal
    BY <1>1, <1>4, <2>2 DEF RecoverFlushes, Quietly
  <2>3. QED  BY <2>1, <2>2
<1>5. ASSUME NEW r \in Runs, RecoverPicks(r) \/ RecoverInterrupts(r)
      PROVE  PoolStep(db, db')
  BY <1>1, <1>2, <1>5 DEF RecoverPicks, RecoverInterrupts, Returns
<1>6. ASSUME NEW r \in Runs, NEW e \in Emails, RecoverReconciles(r, e)
      PROVE  PoolStep(db, db')
  BY <1>0, <1>6, ReconcileSteps DEF RecoverReconciles, Returns
<1>7. CASE RecoverReleasesOrphans
  <2>1. {e \in ReservedEmails(db) : db.email[e] \notin recovery.local}
          \in SUBSET ReservedEmails(db)
    OBVIOUS
  <2>2. QED  BY <1>0, <1>7, <2>1, ReleaseSteps DEF RecoverReleasesOrphans, Returns
<1>8. CASE RecoverFails
  <2>1. db' = db \/ \E r \in Runs : db' = Saved(db, r, "interrupted", FALSE)
    BY <1>8 DEF RecoverFails, LostSaves, Fault
  <2>2. QED  BY <1>1, <1>2, <2>1
<1>9. QED  BY <1>3, <1>4, <1>5, <1>6, <1>7, <1>8 DEF Recover

LEMMA ShutdownSteps ==
  ASSUME TypeOK, Shutdown
  PROVE  PoolStep(db, db')
<1>0. db \in Databases /\ PoolStep(db, db)
  BY DEF TypeOK, PoolStep, SamePool
<1>1. ASSUME NEW r \in Runs, ShutdownCancelsTask(r) \/ ShutdownFinds(r)
      PROVE  PoolStep(db, db')
  BY <1>0, <1>1, OperationSteps DEF ShutdownCancelsTask, ShutdownFinds
<1>2. ASSUME NEW r \in Runs, NEW e \in Emails, ShutdownReconciles(r, e)
      PROVE  PoolStep(db, db')
  <2>1. PoolStep(db, Reconciled(db, e, r))
    BY <1>0, ReconcileSteps
  <2>2. QED  BY <1>0, <1>2, <2>1, OperationSteps DEF ShutdownReconciles
<1>3. ASSUME NEW r \in Runs, ShutdownSaves(r)
      PROVE  PoolStep(db, db')
  <2>1. PoolStep(db, Saved(db, r, "interrupted", FALSE))
    BY <1>0, RunOperations, "interrupted" \in Statuses DEF Statuses, Terminal
  <2>2. QED  BY <1>0, <1>3, <2>1, OperationSteps DEF ShutdownSaves
<1>4. CASE ShutdownExits
  BY <1>0, <1>4 DEF ShutdownExits
<1>5. QED  BY <1>1, <1>2, <1>3, <1>4 DEF Shutdown

LEMMA Steps ==
  ASSUME TypeOK, JobsReserved, [Next]_vars
  PROVE  PoolStep(db, db')
<1>1. CASE Next
  <2>1. CASE Crash
    BY <2>1 DEF Crash, TypeOK, PoolStep, SamePool
  <2>2. QED
    BY <1>1, <2>1, StartSteps, WorkSteps, ExecuteSteps, CancelSteps, RecoverSteps, ShutdownSteps
       DEF Next
<1>2. CASE UNCHANGED vars
  BY <1>2 DEF vars, TypeOK, PoolStep, SamePool
<1>3. QED  BY <1>1, <1>2

LEMMA Types ==
  ASSUME TypeOK, JobsReserved, [Next]_vars
  PROVE  TypeOK'
<1>0. ProcessType /\ db \in Databases
  BY DEF TypeOK, ProcessType
<1>1. ProcessType'
  <2>1. CASE Crash
    <3>1. restarts' \in 0 .. MaxRestarts
      BY <2>1, ManagerAssumption DEF Crash, TypeOK, ConnectionType
    <3>2. QED  BY <1>0, <2>1, <3>1, NewProcessTypes DEF Crash
  <2>2. CASE UNCHANGED vars
    BY <1>0, <2>2 DEF vars, connection, memory, ProcessType, ConnectionType, MemoryType,
                      CoroutineType
  <2>3. QED
    BY <1>0, <2>1, <2>2, StartTypes, WorkTypes, ExecuteTypes, CancelTypes, RecoverTypes,
       ShutdownTypes DEF Next
<1>2. db' \in Databases
  BY Steps DEF PoolStep
<1>3. QED  BY <1>1, <1>2 DEF TypeOK, ProcessType

-----------------------------------------------------------------------------
(* The strengthening is preserved.                                         *)

LEMMA AccountsGrow ==
  ASSUME NEW d \in Databases, NEW c, PoolStep(d, c)
  PROVE  d.account \subseteq c.account
BY DEF PoolStep, SamePool, Lends, GivesBack, Released, Stores, Registered, Removes, Databases

(* No step but a worker's own gives a worker a job.                        *)
LEMMA JobsKept ==
  ASSUME TypeOK, JobsReserved, db.account \subseteq db'.account, plan' = plan,
         \A r \in Runs, w \in Workers :
           \/ worker'[r][w] = worker[r][w]
           \/ worker'[r][w].pc \in {"exit", "take"}
           \/ /\ worker'[r][w].job \in 1 .. Len(plan[r])
              /\ worker'[r][w].pc = "consume" => plan[r][worker'[r][w].job] \in db'.account
  PROVE  JobsReserved'
BY DEF JobsReserved

LEMMA JobsNext ==
  ASSUME TypeOK, JobsReserved, [Next]_vars
  PROVE  JobsReserved'
<1>0. /\ db.account \subseteq db'.account
      /\ worker \in [Runs -> [Workers -> WorkerStates]]
      /\ plan \in [Runs -> Seq(Emails)]
  BY Steps, AccountsGrow DEF TypeOK, MemoryType, CoroutineType
<1>1. ASSUME NEW r \in Runs, NEW e \in Emails, StartReserve(r, e)
      PROVE  JobsReserved'
  <2>1. worker' = worker /\ (plan' = plan \/ plan' = [plan EXCEPT ![r] = Append(@, e)])
    BY <1>1 DEF StartReserve
  <2>2. ASSUME NEW q \in Runs, NEW i \in 1 .. Len(plan[q])
        PROVE  i \in 1 .. Len(plan'[q]) /\ plan'[q][i] = plan[q][i]
    <3>1. plan[q] \in Seq(Emails)
      BY <1>0
    <3>2. plan'[q] = plan[q] \/ plan'[q] = Append(plan[q], e)
      BY <1>0, <2>1
    <3>3. QED  BY <3>1, <3>2
  <2>3. QED  BY <1>0, <2>1, <2>2 DEF JobsReserved
<1>2. CASE Start /\ ~\E r \in Runs, e \in Emails : StartReserve(r, e)
  <2>1. plan' = plan
    BY <1>2 DEF Start, StartBegin, StartCheckActive, StartQueryEmails, StartCreate,
                StartReserveEnds, StartInsufficient, StartSetReserved, StartAbort,
                StartSaveFailed, StartTask, OnlyStarter, OnlyStarterAndMem, memory
  <2>2. \/ worker' = worker
        \/ \E r \in Runs :
             worker' = [worker EXCEPT ![r] = [w \in Workers |-> [NoWorker EXCEPT !.pc = "take"]]]
    BY <1>2 DEF Start, StartBegin, StartCheckActive, StartQueryEmails, StartCreate,
                StartReserveEnds, StartInsufficient, StartSetReserved, StartAbort,
                StartSaveFailed, StartTask, OnlyStarter, OnlyStarterAndMem
  <2>3. \A r \in Runs, w \in Workers :
          worker'[r][w] = worker[r][w] \/ worker'[r][w].pc = "take"
    <3>1. CASE worker' = worker
      BY <3>1
    <3>2. ASSUME NEW r \in Runs,
                 worker' = [worker EXCEPT ![r] = [w \in Workers |-> [NoWorker EXCEPT !.pc = "take"]]]
          PROVE  \A q \in Runs, w \in Workers :
                   worker'[q][w] = worker[q][w] \/ worker'[q][w].pc = "take"
      <4>1. ASSUME NEW q \in Runs, NEW w \in Workers, q = r
            PROVE  worker'[q][w].pc = "take"
        <5>1. worker'[q] = [v \in Workers |-> [NoWorker EXCEPT !.pc = "take"]]
          BY <1>0, <3>2, <4>1
        <5>2. QED  BY <5>1 DEF NoWorker
      <4>2. ASSUME NEW q \in Runs, q # r
            PROVE  worker'[q] = worker[q]
        BY <1>0, <3>2, <4>2
      <4>3. QED  BY <4>1, <4>2
    <3>3. QED  BY <2>2, <3>1, <3>2
  <2>4. QED  BY <1>0, <2>1, <2>3, JobsKept
<1>3. ASSUME NEW r \in Runs, NEW w \in Workers, Work(r, w)
      PROVE  JobsReserved'
  <2>0. plan' = plan /\ worker[r][w] \in WorkerStates
    BY <1>0, <1>3 DEF Work, WorkerTakes, WorkerWakes, WorkerRegistersAccount, WorkerConsumesEmail,
                WorkerFailsEmail, WorkerRecords, WorkerReleases, WorkerUnavailable,
                WorkerSpins, WorkerTimesOut, OnlyRun
  <2>1. ASSUME NEW c, WorkerBecomes(r, w, c),
               \/ c.pc \in {"exit", "take"}
               \/ /\ c.job \in 1 .. Len(plan[r])
                  /\ c.pc = "consume" => plan[r][c.job] \in db'.account
        PROVE  JobsReserved'
    BY <1>0, <2>0, <2>1, JobsKept DEF WorkerBecomes
  <2>2. ASSUME NEW pc, NEW s, AbortWorkers(r, pc, s)
        PROVE  JobsReserved'
    BY <1>0, <2>0, <2>2, JobsKept DEF AbortWorkers, NoWorker
  <2>3. worker[r][w].pc \notin {"exit", "take"} => worker[r][w].job \in 1 .. Len(plan[r])
    BY DEF JobsReserved
  <2>4. CASE WorkerTakes(r, w)
    <3>1. next[r] \in Nat \ {0} /\ Len(plan[r]) \in Nat
      BY <1>0 DEF TypeOK, MemoryType
    <3>2. CASE event[r] \/ next[r] > Len(plan[r])
      BY <2>1, <2>4, <3>2 DEF WorkerTakes, NoWorker
    <3>3. CASE ~event[r] /\ ~(next[r] > Len(plan[r]))
      <4> DEFINE c == [worker[r][w] EXCEPT !.pc = "sleep", !.job = next[r]]
      <4>1. next[r] \in 1 .. Len(plan[r])
        BY <3>1, <3>3
      <4>2. c.pc = "sleep" /\ c.job = next[r]
        BY <2>0 DEF WorkerStates
      <4>3. WorkerBecomes(r, w, c)
        BY <2>4, <3>3 DEF WorkerTakes, WorkerCall
      <4> HIDE DEF c
      <4>4. QED  BY <2>1, <4>1, <4>2, <4>3
    <3>4. QED  BY <3>2, <3>3
  <2>5. CASE WorkerWakes(r, w)
    <3> DEFINE c == Call(worker[r][w], AfterWork(r, w), mem[r].status)
    <3>1. c.pc # "consume" /\ c.job = worker[r][w].job
      BY <2>0 DEF Call, AfterWork, WorkerStates
    <3>2. WorkerBecomes(r, w, c) /\ worker[r][w].pc = "sleep"
      BY <2>5 DEF WorkerWakes, WorkerCall
    <3> HIDE DEF c
    <3>3. QED  BY <2>1, <2>3, <3>1, <3>2
  <2>6. CASE WorkerRegistersAccount(r, w)
    <3> DEFINE c == [worker[r][w] EXCEPT !.pc = "consume"]
    <3>1. c.pc = "consume" /\ c.job = worker[r][w].job
      BY <2>0 DEF WorkerStates
    <3>2. WorkerBecomes(r, w, c) /\ worker[r][w].pc = "account"
      BY <2>6 DEF WorkerRegistersAccount, WorkerCall
    <3>3. db' = Registered(db, Job(r, w))
      BY <2>6, <3>2 DEF WorkerRegistersAccount, WorkerEffect, WorkerCall, Returns
    <3>4. plan[r][worker[r][w].job] \in db'.account
      BY <3>3 DEF Registered, Job, TypeOK, Databases
    <3> HIDE DEF c
    <3>5. QED  BY <2>1, <2>3, <3>1, <3>2, <3>4
  <2>7. CASE WorkerConsumesEmail(r, w) \/ WorkerFailsEmail(r, w)
    <3> DEFINE c == Call(worker[r][w], "record", Resumed(worker[r][w], r))
    <3>1. c.pc # "consume" /\ c.job = worker[r][w].job
      BY <2>0 DEF Call, WorkerStates
    <3>2. WorkerBecomes(r, w, c) /\ worker[r][w].pc \in {"consume", "fail"}
      BY <2>7 DEF WorkerConsumesEmail, WorkerFailsEmail, Counted, WorkerCall
    <3> HIDE DEF c
    <3>3. QED  BY <2>1, <2>3, <3>1, <3>2
  <2>8. CASE WorkerRecords(r, w) \/ WorkerReleases(r, w)
    BY <2>1, <2>8 DEF WorkerRecords, WorkerReleases, NoWorker
  <2>9. CASE WorkerUnavailable(r, w)
    <3>1. CASE event[r]
      BY <2>2, <2>9, <3>1 DEF WorkerUnavailable
    <3>2. CASE ~event[r]
      <4> DEFINE c == [worker[r][w] EXCEPT !.pc = RetryFrom(@), !.waiting = TRUE]
      <4>1. c.pc # "consume" /\ c.job = worker[r][w].job
        BY <2>0 DEF RetryFrom, WorkerStates
      <4>2. WorkerBecomes(r, w, c) /\ worker[r][w].pc \notin {"exit", "take"}
        BY <2>9, <3>2 DEF WorkerUnavailable, WorkerCall
      <4> HIDE DEF c
      <4>3. QED  BY <2>1, <2>3, <4>1, <4>2
    <3>3. QED  BY <3>1, <3>2
  <2>10. CASE WorkerTimesOut(r, w)
    BY <2>2, <2>10 DEF WorkerTimesOut
  <2>12. CASE WorkerSpins(r, w)
    BY <1>0, <2>0, <2>12, SpinningFreezes, JobsKept DEF Frozen
  <2>11. QED
    BY <1>3, <2>4, <2>5, <2>6, <2>7, <2>8, <2>9, <2>10, <2>12 DEF Work
<1>4. ASSUME NEW r \in Runs, Execute(r)
      PROVE  JobsReserved'
  <2>1. plan' = plan /\ worker' = worker
    BY <1>4 DEF Execute, TaskGathered, TaskCompletes, TaskReleases, TaskCancelled,
                TaskUnavailable, TaskSpins, TaskTimesOut, TaskFails, TaskReconciled, TaskFailed,
                TaskReconciles, OnlyTask
  <2>2. QED  BY <1>0, <2>1, JobsKept
<1>5. ASSUME NEW r \in Runs, CancelRequests(r) \/ CancelSignals(r)
      PROVE  JobsReserved'
  <2>1. plan' = plan /\ worker' = worker
    BY <1>5 DEF CancelRequests, CancelSignals, memory
  <2>2. QED  BY <1>0, <2>1, JobsKept
<1>6. CASE Recover
  <2>1. plan' = plan /\ worker' = worker
    BY <1>6 DEF Recover, Probe, ProbeFails, RecoverSnapshots, RecoverScans,
                RecoverReleasesOrphans, ProbeSucceeds, RecoverFails, RecoverFlushes, RecoverPicks,
                RecoverInterrupts, RecoverReconciles, OnlyRecovery, memory
  <2>2. QED  BY <1>0, <2>1, JobsKept
<1>7. CASE Crash \/ ShutdownExits
  BY <1>7 DEF Crash, ShutdownExits, NewProcess, AllIdle, NoWorker, JobsReserved
<1>8. CASE Shutdown /\ ~ShutdownExits
  <2>1. /\ plan' = plan
        /\ \/ worker' = worker
           \/ \E r \in Runs : worker' = [worker EXCEPT ![r] = [w \in Workers |-> NoWorker]]
    BY <1>8 DEF Shutdown, ShutdownCancelsTask, ShutdownFinds, ShutdownSaves,
                ShutdownReconciles, OnlyStopper
  <2>2. \A r \in Runs, w \in Workers :
          worker'[r][w] = worker[r][w] \/ worker'[r][w].pc = "exit"
    <3>1. CASE worker' = worker
      BY <3>1
    <3>2. ASSUME NEW r \in Runs, worker' = [worker EXCEPT ![r] = [w \in Workers |-> NoWorker]]
          PROVE  \A q \in Runs, w \in Workers :
                   worker'[q][w] = worker[q][w] \/ worker'[q][w].pc = "exit"
      <4>1. ASSUME NEW q \in Runs, NEW w \in Workers, q = r
            PROVE  worker'[q][w].pc = "exit"
        <5>1. worker'[q] = [v \in Workers |-> NoWorker]
          BY <1>0, <3>2, <4>1
        <5>2. QED  BY <5>1 DEF NoWorker
      <4>2. ASSUME NEW q \in Runs, q # r
            PROVE  worker'[q] = worker[q]
        BY <1>0, <3>2, <4>2
      <4>3. QED  BY <4>1, <4>2
    <3>3. QED  BY <2>1, <3>1, <3>2
  <2>3. QED  BY <1>0, <2>1, <2>2, JobsKept
<1>9. CASE UNCHANGED vars
  BY <1>0, <1>9, JobsKept DEF vars, memory
<1>10. QED
  BY <1>1, <1>2, <1>3, <1>4, <1>5, <1>6, <1>7, <1>8, <1>9 DEF Next

LEMMA ConsumedNext ==
  ASSUME NEW d \in Databases, NEW c, PoolStep(d, c),
         \A e \in Emails : d.email[e] = "deleted" => e \in d.account
  PROVE  \A e \in Emails : c.email[e] = "deleted" => e \in c.account
<1>1. CASE SamePool(d, c)
  BY <1>1 DEF SamePool
<1>2. CASE Lends(d, c)
  BY <1>2, NamesDistinct DEF Lends, Databases
<1>3. CASE GivesBack(d, c)
  BY <1>3 DEF GivesBack, Released, Databases
<1>4. CASE Stores(d, c)
  BY <1>4 DEF Stores, Registered, Databases
<1>5. CASE Removes(d, c)
  BY <1>5 DEF Removes, Databases
<1>6. QED  BY <1>1, <1>2, <1>3, <1>4, <1>5 DEF PoolStep

-----------------------------------------------------------------------------
(* The results.                                                            *)

LEMMA InductiveInvariant == Spec => []IInv
<1>1. Init => IInv
  <2> SUFFICES ASSUME Init PROVE IInv
    OBVIOUS
  <2>1. db \in Databases /\ ConsumedHasAccount /\ JobsReserved
    BY DEF Init, EmptyDatabase, NoDoc, Databases, Docs, ConsumedHasAccount, JobsReserved,
           AllIdle, NoWorker
  <2>2. ConnectionType
    <3>1. faults \in 0 .. MaxFaults /\ restarts \in 0 .. MaxRestarts
      BY ManagerAssumption DEF Init
    <3>2. online \in BOOLEAN /\ wakes \in BOOLEAN /\ hung \in BOOLEAN /\ serving \in BOOLEAN
      BY DEF Init
    <3>3. QED  BY <3>1, <3>2 DEF ConnectionType
  <2>3. MemoryType
    BY DEF Init, MemoryType, NoState, States
  <2>4. CoroutineType
    BY DEF Init, CoroutineType, AllIdle, NoTask, Tasks, TaskPCs, NoWorker, WorkerStates,
           WorkerPCs, NoStarter, Starters, StarterPCs, NoRecovery, Recoveries, RecoveryPCs,
           NoStopper, Stoppers, StopperPCs
  <2>5. QED  BY <2>1, <2>2, <2>3, <2>4 DEF IInv, TypeOK
<1>2. IInv /\ [Next]_vars => IInv'
  <2> SUFFICES ASSUME IInv, [Next]_vars PROVE IInv'
    OBVIOUS
  <2>1. TypeOK' /\ JobsReserved'
    BY Types, JobsNext DEF IInv
  <2>2. ConsumedHasAccount'
    BY Steps, ConsumedNext DEF IInv, TypeOK, ConsumedHasAccount
  <2>3. QED  BY <2>1, <2>2 DEF IInv
<1>3. QED  BY <1>1, <1>2, PTL DEF Spec

(* Every variable keeps its type, for all sets of runs, addresses and      *)
(* workers and all bounds.                                                 *)
THEOREM TypeCorrectness == Spec => []TypeOK
<1>1. IInv => TypeOK
  BY DEF IInv
<1>2. QED  BY <1>1, InductiveInvariant, PTL

(* No address is lost: whatever calls fail, are repeated or raced, and     *)
(* wherever the process dies, an address leaves the pool only after its    *)
(* account is stored.                                                      *)
THEOREM NoAddressIsLost == Spec => []ConsumedHasAccount
<1>1. IInv => ConsumedHasAccount
  BY DEF IInv
<1>2. QED  BY <1>1, InductiveInvariant, PTL

(* The manager implements the pool ledger: an address is lent only when    *)
(* available, given back only when lent, deleted only when lent and        *)
(* registered, and never comes back; no account disappears.                *)
THEOREM ManagerImplementsPoolLedger == Spec => PoolSpec
<1>1. Init => Pool!Init
  BY NamesDistinct DEF Init, EmptyDatabase, Pool!Init
<1>2. TypeOK /\ PoolStep(db, db') =>
        [Pool!Next]_<<[e \in Emails |-> IF db.email[e] \in Runs THEN "reserved"
                                        ELSE db.email[e]], db.account>>
  <2> SUFFICES ASSUME TypeOK, PoolStep(db, db')
               PROVE  [Pool!Next]_<<[e \in Emails |-> IF db.email[e] \in Runs THEN "reserved"
                                                      ELSE db.email[e]], db.account>>
    OBVIOUS
  <2>0. db \in Databases
    BY DEF TypeOK
  <2>1. CASE SamePool(db, db')
    BY <2>1 DEF SamePool
  <2>2. CASE Lends(db, db')
    BY <2>0, <2>2, NamesDistinct DEF Lends, Databases, Pool!Next, Pool!Lend
  <2>3. CASE GivesBack(db, db')
    BY <2>0, <2>3, NamesDistinct DEF GivesBack, Released, ReservedEmails, Databases,
                                     Pool!Next, Pool!GiveBack
  <2>4. CASE Stores(db, db')
    BY <2>0, <2>4 DEF Stores, Registered, Databases, Pool!Next, Pool!Store
  <2>5. CASE Removes(db, db')
    <3>1. PICK e \in Emails : /\ db.email[e] \in Runs /\ e \in db.account
                               /\ db'.account = db.account
                               /\ db'.email = [db.email EXCEPT ![e] = "deleted"]
      BY <2>0, <2>5 DEF Removes, Databases
    <3>2. /\ db'.account = db.account
          /\ \A a \in Emails : db'.email[a] = IF a = e THEN "deleted" ELSE db.email[a]
      BY <2>0, <3>1 DEF Databases
    <3>3. [a \in Emails |-> IF db'.email[a] \in Runs THEN "reserved" ELSE db'.email[a]]
            = [[a \in Emails |-> IF db.email[a] \in Runs THEN "reserved" ELSE db.email[a]]
                 EXCEPT ![e] = "deleted"]
      BY <3>2, NamesDistinct
    <3>4. QED  BY <3>1, <3>2, <3>3 DEF Pool!Next, Pool!Remove
  <2>6. QED  BY <2>1, <2>2, <2>3, <2>4, <2>5 DEF PoolStep
<1>3. IInv => TypeOK /\ JobsReserved
  BY DEF IInv
<1>4. QED
  BY <1>1, <1>2, <1>3, Steps, InductiveInvariant, PTL DEF Spec, PoolSpec, Pool!Spec

-----------------------------------------------------------------------------
(* The second layer: what the coroutines of a run know of each other.      *)

(* The workers with an address in their hands, and the addresses of the    *)
(* plan, by index, that the workers W have finished when the queue is at n.*)
Handling == {"sleep", "account", "consume", "fail", "release"}
Calling == {"account", "consume", "release", "fail", "record"}
Handles(W, i) == \E w \in Workers : W[w].pc \in Handling /\ W[w].job = i
Finished(W, n) == {i \in 1 .. n - 1 : ~Handles(W, i)}

(* Nobody works on an address that is not yet taken, nor two on one.       *)
InOrder(W, n) ==
  /\ \A w \in Workers : W[w].pc \in Handling => W[w].job \in 1 .. n - 1
  /\ \A w, v \in Workers :
       w # v /\ W[w].pc \in Handling /\ W[v].pc \in Handling => W[w].job # W[v].job
  /\ \A w \in Workers : /\ W[w].pc \in {"account", "consume"} => ~ShouldFail(W[w].job)
                        /\ W[w].pc = "fail" => ShouldFail(W[w].job)

(* A run of which no task has been.                                        *)
Unstarted(r) == /\ task[r] = NoTask /\ next[r] = 1
                /\ mem[r].succeeded = 0 /\ mem[r].failed = 0
                /\ mem[r].status # "completed"

Unwritten(r) == db.run[r].status = "none" =>
                  Unstarted(r) /\ plan[r] = <<>> /\ HeldBy(db, r) = {}

(* Only while the task gathers are there workers.                          *)
Exited(r) == task[r].pc # "gather" => \A w \in Workers : worker[r][w].pc = "exit"

Gathering(r) ==
  /\ mem[r].status \in Active /\ task[r].resume = "none" /\ ~task[r].waiting
  /\ next[r] \in 1 .. Len(plan[r]) + 1
  /\ \A w \in Workers : worker[r][w].pc \in Calling => worker[r][w].resume \in Active
  /\ InOrder(worker[r], next[r])

(* What is reserved is not finished.                                       *)
Unfinished(r) == \A e \in HeldBy(db, r) : \E i \in 1 .. Len(plan[r]) :
                   plan[r][i] = e /\ i \notin Finished(worker[r], next[r])

(* What is finished is counted, and stored if it succeeded; without the    *)
(* cancel event a worker leaves only when the queue is empty.              *)
Tallied(r, done) ==
  /\ mem[r].succeeded = Cardinality({i \in done : ~ShouldFail(i)})
  /\ mem[r].failed = Cardinality({i \in done : ShouldFail(i)})
  /\ \A i \in done : ShouldFail(i) \/ plan[r][i] \in db.account
Counting(r) ==
  /\ \A w \in Workers : /\ worker[r][w].pc # "release"
                        /\ worker[r][w].pc = "exit" => next[r] = Len(plan[r]) + 1
  /\ Tallied(r, Finished(worker[r], next[r]))

Working(r) == task[r].pc = "gather" =>
                Gathering(r) /\ Unfinished(r) /\ (event[r] \/ Counting(r))

(* Once gathered, the run holds nothing it will not give back.             *)
Settles(r, pc, status) ==
  task[r].pc = pc => /\ HeldBy(db, r) = {} /\ task[r].resume = status
                     /\ task[r].waiting \/ mem[r].status = status
Ending(r) ==
  /\ Settles(r, "complete", "completed") /\ Settles(r, "cancelled", "cancelled")
  /\ task[r].pc = "reconcile" => HeldBy(db, r) \subseteq task[r].held
  /\ task[r].pc = "failed" => HeldBy(db, r) = {}

Completing(r) == mem[r].status = "completed" \/ task[r].resume = "completed" =>
                   Tallied(r, 1 .. Len(plan[r]))

RunInv(r) == Unwritten(r) /\ Exited(r) /\ Working(r) /\ Ending(r) /\ Completing(r)

(* start() works on one run, alone; shutdown() too.                        *)
Starting == {"query", "reserve", "short", "setReserved", "abort", "saveFailed", "save"}
Planned(r) == \A e \in HeldBy(db, r) : \E i \in 1 .. Len(plan[r]) : plan[r][i] = e
StartsOne ==
  starter.pc # "idle" =>
    LET r == starter.run IN
    /\ r \in Runs /\ Unstarted(r)
    /\ starter.pc \in {"check", "create"} <=> db.run[r].status = "none"
    /\ starter.pc = "query" => HeldBy(db, r) = {}
    /\ starter.pc \in {"reserve", "setReserved", "save"} => Planned(r)
    /\ starter.pc = "saveFailed" => HeldBy(db, r) = {}
StopsAlone ==
  stopper.pc # "idle" => /\ ~serving /\ starter.pc = "idle"
                         /\ stopper.run \in Runs /\ task[stopper.run].pc = "none"

(* Nothing is left without someone who looks after it.                     *)
Leaves(r) == db.run[r].status \in Active \/ HeldBy(db, r) # {}
ToBeRecovered(r) ==
  \/ recovery.pc = "flush"
  \/ recovery.pc = "scan" /\ r \notin recovery.local
  \/ /\ recovery.pc \in {"pick", "reconcile"} /\ r \notin recovery.local
     /\ db.run[r].status \in Active => r \in recovery.stale
Tended ==
  online /\ stopper.pc = "idle" =>
    \A r \in Runs : Leaves(r) => \/ starter.run = r /\ starter.pc \in Starting
                                 \/ task[r].pc # "none"
                                 \/ ToBeRecovered(r)

Parts == (\A r \in Runs : RunInv(r)) /\ StartsOne /\ StopsAlone /\ Tended

-----------------------------------------------------------------------------
(* What an operation leaves as it is: nothing new is reserved, no account  *)
(* and no document goes, and none appears.                                 *)
Shrinks(d, c) == /\ \A r \in Runs : HeldBy(c, r) \subseteq HeldBy(d, r)
                 /\ d.account \subseteq c.account
SameDocs(d, c) == \A r \in Runs : c.run[r].status = "none" <=> d.run[r].status = "none"
Keeps(d, c) == Shrinks(d, c) /\ SameDocs(d, c)

LEMMA SavedKeeps ==
  ASSUME NEW d \in Databases, NEW r \in Runs, NEW s \in Statuses, NEW b
  PROVE  Keeps(d, Saved(d, r, s, b))
<1>1. "none" \notin Statuses
  BY DEF Statuses, Active, Terminal
<1>2. SameDocs(d, Saved(d, r, s, b))
  BY <1>1 DEF SameDocs, Saved, Databases
<1>3. Shrinks(d, Saved(d, r, s, b))
  BY DEF Shrinks, Saved, HeldBy, Databases
<1>4. QED  BY <1>2, <1>3 DEF Keeps

LEMMA FlaggedKeeps ==
  ASSUME NEW d \in Databases, NEW r \in Runs
  PROVE  Keeps(d, CancelRequested(d, r))
<1>1. CASE d.run[r].status \in Active
  <2> DEFINE c == CancelRequested(d, r)
  <2>1. c = [d EXCEPT !.run = [d.run EXCEPT ![r].cancel = TRUE]]
    BY <1>1 DEF CancelRequested, Databases
  <2>2. /\ c.email = d.email /\ c.account = d.account
        /\ c.run = [d.run EXCEPT ![r].cancel = TRUE]
    BY <2>1 DEF Databases
  <2>3. \A q \in Runs : c.run[q].status = d.run[q].status
    BY <2>2 DEF Databases, Docs
  <2> HIDE DEF c
  <2>4. Keeps(d, c)
    BY <2>2, <2>3 DEF Keeps, Shrinks, SameDocs, HeldBy
  <2>5. QED  BY <2>4 DEF c
<1>2. CASE d.run[r].status \notin Active
  BY <1>2 DEF CancelRequested, Keeps, Shrinks, SameDocs
<1>3. QED  BY <1>1, <1>2

LEMMA PoolKeeps ==
  ASSUME NEW d \in Databases, NEW e \in Emails, NEW r \in Runs
  PROVE  /\ Keeps(d, d)
         /\ \A E : Keeps(d, Released(d, E))
         /\ Keeps(d, Registered(d, e))
         /\ Keeps(d, Consumed(d, e, r))
         /\ Keeps(d, Reconciled(d, e, r))
         /\ HeldBy(Consumed(d, e, r), r) = HeldBy(d, r) \ {e}
         /\ HeldBy(Reconciled(d, e, r), r) = HeldBy(d, r) \ {e}
<1>1. Keeps(d, d)
  BY DEF Keeps, Shrinks, SameDocs
<1>2. ASSUME NEW E PROVE Keeps(d, Released(d, E))
  BY NamesDistinct DEF Keeps, Shrinks, SameDocs, Released, HeldBy, Databases
<1>3. Keeps(d, Registered(d, e))
  BY DEF Keeps, Shrinks, SameDocs, Registered, HeldBy, Databases
<1>4. Keeps(d, Consumed(d, e, r)) /\ HeldBy(Consumed(d, e, r), r) = HeldBy(d, r) \ {e}
  BY NamesDistinct DEF Keeps, Shrinks, SameDocs, Consumed, HeldBy, Databases
<1>5. HeldBy(Released(d, {e}), r) = HeldBy(d, r) \ {e}
  BY NamesDistinct DEF Released, HeldBy, Databases
<1>6. d.email[e] # r => HeldBy(d, r) = HeldBy(d, r) \ {e}
  BY DEF HeldBy
<1>7. QED  BY <1>1, <1>2, <1>3, <1>4, <1>5, <1>6 DEF Reconciled

LEMMA ReleasedAll ==
  ASSUME NEW d \in Databases, NEW E, NEW r \in Runs
  PROVE  HeldBy(Released(d, E), r) = HeldBy(d, r) \ E
BY NamesDistinct DEF Released, HeldBy, Databases

LEMMA OperationKeeps ==
  ASSUME db \in Databases, NEW d, Keeps(db, d), Returns(d) \/ Raises(d) \/ Quietly
  PROVE  Keeps(db, db')
<1>1. Keeps(db, db)
  BY DEF Keeps, Shrinks, SameDocs
<1>2. db' = db \/ db' = d
  BY DEF Returns, Raises, Quietly, Fault
<1>3. QED  BY <1>1, <1>2

-----------------------------------------------------------------------------
(* The queue of a run's workers W, at n.                                   *)

WorkerTable == [Workers -> WorkerStates]

(* A worker that keeps its address, or that still has none.                *)
LEMMA SameHands ==
  ASSUME NEW W \in WorkerTable, NEW n \in Nat, NEW w \in Workers, NEW c \in WorkerStates,
         InOrder(W, n), c.pc \in Handling <=> W[w].pc \in Handling,
         c.pc \in Handling => c.job = W[w].job,
         c.pc \in {"account", "consume"} => ~ShouldFail(c.job),
         c.pc = "fail" => ShouldFail(c.job)
  PROVE  /\ InOrder([W EXCEPT ![w] = c], n)
         /\ Finished([W EXCEPT ![w] = c], n) = Finished(W, n)
<1> DEFINE V == [W EXCEPT ![w] = c]
<1>1. \A v \in Workers : V[v] = IF v = w THEN c ELSE W[v]
  BY DEF WorkerTable
<1> HIDE DEF V
<1>2. \A i : Handles(V, i) <=> Handles(W, i)
  BY <1>1 DEF Handles
<1>3. Finished(V, n) = Finished(W, n)
  BY <1>2 DEF Finished
<1>4. InOrder(V, n)
  BY <1>1 DEF InOrder
<1>5. QED  BY <1>3, <1>4 DEF V

(* A worker takes the next address: as many are finished as before.        *)
LEMMA TakesNext ==
  ASSUME NEW W \in WorkerTable, NEW n \in Nat \ {0}, NEW w \in Workers, NEW c \in WorkerStates,
         InOrder(W, n), W[w].pc \notin Handling, c.pc = "sleep", c.job = n
  PROVE  /\ InOrder([W EXCEPT ![w] = c], n + 1)
         /\ Finished([W EXCEPT ![w] = c], n + 1) = Finished(W, n)
<1> DEFINE V == [W EXCEPT ![w] = c]
<1>1. \A v \in Workers : V[v] = IF v = w THEN c ELSE W[v]
  BY DEF WorkerTable
<1> HIDE DEF V
<1>2. n \in 1 .. n /\ (n + 1) - 1 = n /\ 1 .. n - 1 \subseteq 1 .. n /\ n \notin 1 .. n - 1
  OBVIOUS
<1>3. InOrder(V, n + 1)
  <2>1. \A v \in Workers : V[v].pc \in Handling => V[v].job \in 1 .. n
    BY <1>1, <1>2 DEF InOrder
  <2>2. \A v \in Workers : v # w /\ V[v].pc \in Handling => V[v].job # n
    BY <1>1, <1>2 DEF InOrder
  <2>3. \A v, u \in Workers :
          v # u /\ V[v].pc \in Handling /\ V[u].pc \in Handling => V[v].job # V[u].job
    BY <1>1, <2>2 DEF InOrder
  <2>4. \A v \in Workers : /\ V[v].pc \in {"account", "consume"} => ~ShouldFail(V[v].job)
                           /\ V[v].pc = "fail" => ShouldFail(V[v].job)
    BY <1>1 DEF InOrder
  <2>5. QED  BY <1>2, <2>1, <2>3, <2>4 DEF InOrder
<1>4. \A i : Handles(V, i) <=> i = n \/ Handles(W, i)
  BY <1>1 DEF Handles, Handling
<1>5. \A i : i \in 1 .. n <=> i = n \/ i \in 1 .. n - 1
  OBVIOUS
<1>6. Finished(V, n + 1) = Finished(W, n)
  BY <1>2, <1>4, <1>5 DEF Finished
<1>7. QED  BY <1>3, <1>6 DEF V

(* A worker is through with its address.                                   *)
LEMMA PutsDown ==
  ASSUME NEW W \in WorkerTable, NEW n \in Nat, NEW w \in Workers, NEW c \in WorkerStates,
         InOrder(W, n), W[w].pc \in Handling, c.pc \notin Handling
  PROVE  /\ InOrder([W EXCEPT ![w] = c], n)
         /\ W[w].job \notin Finished(W, n)
         /\ Finished([W EXCEPT ![w] = c], n) = Finished(W, n) \cup {W[w].job}
<1> DEFINE V == [W EXCEPT ![w] = c]
<1>1. \A v \in Workers : V[v] = IF v = w THEN c ELSE W[v]
  BY DEF WorkerTable
<1> HIDE DEF V
<1>2. InOrder(V, n)
  <2>1. c.pc \notin {"account", "consume", "fail"}
    BY DEF Handling
  <2>2. QED  BY <1>1, <2>1 DEF InOrder
<1>3. \A i : Handles(W, i) <=> i = W[w].job \/ Handles(V, i)
  BY <1>1 DEF Handles
<1>4. ~Handles(V, W[w].job)
  BY <1>1 DEF Handles, InOrder
<1>5. W[w].job \in 1 .. n - 1
  BY DEF InOrder
<1>6. QED  BY <1>2, <1>3, <1>4, <1>5 DEF Finished, V

LEMMA FinishedIsFinite ==
  ASSUME NEW W, NEW n \in Nat
  PROVE  IsFiniteSet(Finished(W, n)) /\ Finished(W, n) \subseteq 1 .. n - 1
<1>1. IsFiniteSet(1 .. n - 1)
  <2>1. n - 1 \in Int
    OBVIOUS
  <2>2. QED  BY <2>1, FS_Interval
<1>2. Finished(W, n) \subseteq 1 .. n - 1
  BY DEF Finished
<1>3. QED  BY <1>1, <1>2, FS_Subset

(* One more is counted.                                                    *)
LEMMA CountsOne ==
  ASSUME NEW D, IsFiniteSet(D), NEW i, i \notin D
  PROVE  /\ Cardinality({j \in D \cup {i} : ShouldFail(j)})
              = IF ShouldFail(i) THEN Cardinality({j \in D : ShouldFail(j)}) + 1
                ELSE Cardinality({j \in D : ShouldFail(j)})
         /\ Cardinality({j \in D \cup {i} : ~ShouldFail(j)})
              = IF ShouldFail(i) THEN Cardinality({j \in D : ~ShouldFail(j)})
                ELSE Cardinality({j \in D : ~ShouldFail(j)}) + 1
<1> DEFINE F(E) == {j \in E : ShouldFail(j)}
           S(E) == {j \in E : ~ShouldFail(j)}
<1>1. IsFiniteSet(F(D)) /\ IsFiniteSet(S(D)) /\ i \notin F(D) /\ i \notin S(D)
  BY FS_Subset
<1>2. /\ F(D \cup {i}) = IF ShouldFail(i) THEN F(D) \cup {i} ELSE F(D)
      /\ S(D \cup {i}) = IF ShouldFail(i) THEN S(D) ELSE S(D) \cup {i}
  OBVIOUS
<1>3. /\ Cardinality(F(D) \cup {i}) = Cardinality(F(D)) + 1
      /\ Cardinality(S(D) \cup {i}) = Cardinality(S(D)) + 1
  BY <1>1, FS_AddElement
<1>4. QED  BY <1>2, <1>3

(* The two tallies of a whole plan add up to its length.                   *)
LEMMA CountsAll ==
  ASSUME NEW n \in Nat, NEW F, NEW S, F \cup S = 1 .. n, F \cap S = {}
  PROVE  Cardinality(S) + Cardinality(F) = n
<1>1. IsFiniteSet(1 .. n) /\ Cardinality(1 .. n) = n
  <2>1. Cardinality(1 .. n) = IF 1 > n THEN 0 ELSE n - 1 + 1
    BY FS_Interval
  <2>2. IsFiniteSet(1 .. n)
    BY FS_Interval
  <2>3. QED  BY <2>1, <2>2
<1>2. IsFiniteSet(F) /\ IsFiniteSet(S)
  <2>1. F \subseteq 1 .. n /\ S \subseteq 1 .. n
    OBVIOUS
  <2>2. QED  BY <1>1, <2>1, FS_Subset
<1>3. Cardinality(F \cup S) = Cardinality(F) + Cardinality(S) - Cardinality(F \cap S)
  BY <1>2, FS_Union
<1>4. Cardinality(F) \in Nat /\ Cardinality(S) \in Nat /\ Cardinality(F \cap S) = 0
  BY <1>2, FS_CardinalityType, FS_EmptySet
<1> DEFINE f == Cardinality(F)
           s == Cardinality(S)
<1>5. f \in Nat /\ s \in Nat /\ n = f + s - 0
  BY <1>1, <1>3, <1>4
<1> HIDE DEF f, s
<1>6. s + f = n
  BY <1>5
<1>7. QED  BY <1>6 DEF f, s

-----------------------------------------------------------------------------
(* A run whose coroutines a step leaves alone.                             *)

LEMMA TalliedStays ==
  ASSUME NEW r \in Runs, NEW D, Tallied(r, D), db.account \subseteq db'.account,
         plan'[r] = plan[r], mem'[r].succeeded = mem[r].succeeded, mem'[r].failed = mem[r].failed
  PROVE  Tallied(r, D)'
BY DEF Tallied

LEMMA RunStays ==
  ASSUME NEW r \in Runs, RunInv(r), HeldBy(db', r) \subseteq HeldBy(db, r),
         db.account \subseteq db'.account,
         db'.run[r].status = "none" => db.run[r].status = "none",
         task'[r] = task[r], worker'[r] = worker[r], plan'[r] = plan[r], next'[r] = next[r],
         mem'[r].succeeded = mem[r].succeeded, mem'[r].failed = mem[r].failed,
         task[r].pc = "gather" /\ event[r] => event'[r],
         mem'[r].status = mem[r].status \/ (task[r].pc = "none" /\ mem'[r].status # "completed")
  PROVE  RunInv(r)'
<1>0. HeldBy(db', r) \subseteq HeldBy(db, r) /\ db.account \subseteq db'.account
  OBVIOUS
<1>1. Unwritten(r)'
  BY <1>0 DEF RunInv, Unwritten, Unstarted
<1>2. Exited(r)'
  BY DEF RunInv, Exited
<1>3. Working(r)'
  <2> SUFFICES ASSUME task'[r].pc = "gather" PROVE Gathering(r)' /\ Unfinished(r)' /\ (event[r] \/ Counting(r))'
    BY DEF Working
  <2>1. Gathering(r) /\ Unfinished(r) /\ (event[r] \/ Counting(r)) /\ mem'[r].status = mem[r].status
    BY DEF RunInv, Working
  <2>2. Gathering(r)'
    BY <2>1 DEF Gathering
  <2>3. Unfinished(r)'
    BY <1>0, <2>1 DEF Unfinished
  <2>4. Counting(r) => Counting(r)'
    BY <1>0, TalliedStays DEF Counting
  <2>5. QED  BY <2>1, <2>2, <2>3, <2>4
<1>4. Ending(r)'
  BY <1>0 DEF RunInv, Ending, Settles
<1>5. Completing(r)'
  <2>1. mem'[r].status = "completed" \/ task'[r].resume = "completed" =>
          Tallied(r, 1 .. Len(plan[r]))
    BY DEF RunInv, Completing
  <2>2. Tallied(r, 1 .. Len(plan[r])) => Tallied(r, 1 .. Len(plan[r]))'
    BY <1>0, TalliedStays
  <2>3. QED  BY <2>1, <2>2 DEF Completing
<1>6. QED  BY <1>1, <1>2, <1>3, <1>4, <1>5 DEF RunInv

LEMMA RunFrame ==
  ASSUME NEW r \in Runs, RunInv(r), Shrinks(db, db'),
         db'.run[r].status = "none" => db.run[r].status = "none",
         task'[r] = task[r], worker'[r] = worker[r], plan'[r] = plan[r], next'[r] = next[r],
         mem'[r].succeeded = mem[r].succeeded, mem'[r].failed = mem[r].failed,
         task[r].pc = "gather" /\ event[r] => event'[r],
         mem'[r].status = mem[r].status \/ (task[r].pc = "none" /\ mem'[r].status # "completed")
  PROVE  RunInv(r)'
<1>1. HeldBy(db', r) \subseteq HeldBy(db, r) /\ db.account \subseteq db'.account
  BY DEF Shrinks
<1>2. QED  BY <1>1, RunStays

LEMMA FrozenRun ==
  ASSUME Frozen, NEW r \in Runs, RunInv(r)
  PROVE  RunInv(r)'
<1>1. Shrinks(db, db')
  BY DEF Frozen, Shrinks
<1>2. QED  BY <1>1, RunFrame DEF Frozen, memory

(* start() sees its run unchanged.                                         *)
LEMMA StarterFrame ==
  ASSUME StartsOne, starter' = starter, Keeps(db, db'), plan' = plan,
         \A q \in Runs : starter.pc # "idle" /\ q = starter.run => Unstarted(q)'
  PROVE  StartsOne'
BY DEF StartsOne, Keeps, Shrinks, SameDocs, Planned

LEMMA UnstartedStays ==
  ASSUME NEW r \in Runs, Unstarted(r), task'[r] = task[r], next'[r] = next[r],
         mem'[r].succeeded = mem[r].succeeded, mem'[r].failed = mem[r].failed,
         mem'[r].status = mem[r].status \/ mem'[r].status # "completed"
  PROVE  Unstarted(r)'
BY DEF Unstarted

-----------------------------------------------------------------------------
(* A worker's step.                                                        *)

LEMMA AtWork ==
  ASSUME TypeOK, NEW r \in Runs, RunInv(r), NEW w \in Workers, worker[r][w].pc # "exit"
  PROVE  /\ task[r].pc = "gather" /\ Gathering(r) /\ Unfinished(r)
         /\ event[r] \/ Counting(r)
         /\ db.run[r].status # "none"
         /\ worker[r][w].pc \in Calling => Resumed(worker[r][w], r) \in Active
<1>1. task[r].pc = "gather"
  BY DEF RunInv, Exited
<1>2. Gathering(r) /\ Unfinished(r) /\ (event[r] \/ Counting(r))
  BY <1>1 DEF RunInv, Working
<1>3. db.run[r].status # "none"
  BY <1>1 DEF RunInv, Unwritten, Unstarted, NoTask
<1>4. worker[r][w].pc \in Calling => Resumed(worker[r][w], r) \in Active
  BY <1>2 DEF Resumed, Gathering
<1>5. QED  BY <1>1, <1>2, <1>3, <1>4

(* What the operation of a worker does to the database.                    *)
LEMMA WorkerOperation ==
  ASSUME IInv, NEW r \in Runs, RunInv(r), NEW w \in Workers, worker[r][w].pc \in Calling
  PROVE  /\ Keeps(db, WorkerEffect(r, w))
         /\ worker[r][w].pc \in {"consume", "fail", "release"} =>
              HeldBy(WorkerEffect(r, w), r) = HeldBy(db, r) \ {Job(r, w)}
         /\ \A q \in Runs : db.run[q].status \in Active =>
              WorkerEffect(r, w).run[q].status \in Active
         /\ \A q \in Runs \ {r} : WorkerEffect(r, w).run[q] = db.run[q]
<1>0. TypeOK /\ JobsReserved /\ db \in Databases
  BY DEF IInv, TypeOK
<1>1. Job(r, w) \in Emails
  BY <1>0, JobTypes DEF Calling
<1>2. worker[r][w].pc \in Calling /\ Resumed(worker[r][w], r) \in Active
  BY <1>0, AtWork DEF Calling
<1>3. CASE worker[r][w].pc = "account"
  <2>1. WorkerEffect(r, w) = Registered(db, Job(r, w))
    BY <1>3 DEF WorkerEffect, WorkerCall
  <2>2. WorkerEffect(r, w).run = db.run
    BY <1>0, <2>1 DEF Registered, Databases
  <2>3. QED  BY <1>0, <1>1, <1>3, <2>1, <2>2, PoolKeeps
<1>4. CASE worker[r][w].pc = "consume"
  <2>1. WorkerEffect(r, w) = Consumed(db, Job(r, w), r)
    BY <1>4 DEF WorkerEffect, WorkerCall
  <2>2. WorkerEffect(r, w).run = db.run
    BY <1>0, <2>1 DEF Consumed, Databases
  <2>3. QED  BY <1>0, <1>1, <2>1, <2>2, PoolKeeps
<1>5. CASE worker[r][w].pc \in {"release", "fail"}
  <2>1. WorkerEffect(r, w) = Released(db, {Job(r, w)} \cap HeldBy(db, r))
    BY <1>5 DEF WorkerEffect, WorkerCall
  <2>2. WorkerEffect(r, w).run = db.run
    BY <1>0, <2>1 DEF Released, Databases
  <2>3. HeldBy(WorkerEffect(r, w), r) = HeldBy(db, r) \ {Job(r, w)}
    BY <1>0, <2>1, ReleasedAll
  <2>4. Keeps(db, WorkerEffect(r, w))
    BY <1>0, <1>1, <2>1, PoolKeeps
  <2>5. QED  BY <2>2, <2>3, <2>4
<1>6. CASE worker[r][w].pc = "record"
  <2> DEFINE s == Resumed(worker[r][w], r)
  <2>1. WorkerEffect(r, w) = Saved(db, r, s, mem[r].cancel)
    BY <1>6 DEF WorkerEffect, WorkerCall
  <2>2. s \in Statuses /\ s \in Active
    BY <1>2 DEF Statuses
  <2> HIDE DEF s
  <2>3. Keeps(db, WorkerEffect(r, w))
    BY <1>0, <2>1, <2>2, SavedKeeps
  <2>4. /\ \A q \in Runs : db.run[q].status \in Active =>
             Saved(db, r, s, mem[r].cancel).run[q].status \in Active
        /\ \A q \in Runs \ {r} : Saved(db, r, s, mem[r].cancel).run[q] = db.run[q]
    BY <1>0, <2>2 DEF Saved, Databases, Docs
  <2>5. QED  BY <1>6, <2>1, <2>3, <2>4
<1>7. QED  BY <1>2, <1>3, <1>4, <1>5, <1>6 DEF Calling

(* A run that still gathers after the step.                                *)
LEMMA GathersOn ==
  ASSUME NEW r \in Runs, task'[r] = task[r], task[r].pc = "gather", RunInv(r),
         db'.run[r].status # "none", mem'[r].status \in Active,
         Gathering(r)', Unfinished(r)', event'[r] \/ Counting(r)'
  PROVE  RunInv(r)'
<1>1. Unwritten(r)' /\ Exited(r)' /\ Working(r)' /\ Ending(r)'
  BY DEF Unwritten, Exited, Working, Ending, Settles
<1>2. task[r].resume = "none"
  BY DEF RunInv, Working, Gathering
<1>3. Completing(r)'
  BY <1>2 DEF Completing, Active
<1>4. QED  BY <1>1, <1>3 DEF RunInv

(* It keeps its address, or stays without one.                             *)
LEMMA KeepsHands ==
  ASSUME TypeOK, NEW r \in Runs, RunInv(r), NEW w \in Workers, NEW c \in WorkerStates,
         worker[r][w].pc # "exit", Keeps(db, db'),
         worker' = [worker EXCEPT ![r][w] = c],
         task' = task, plan' = plan, next' = next, event' = event,
         mem'[r].status \in Active, mem'[r].succeeded = mem[r].succeeded,
         mem'[r].failed = mem[r].failed,
         c.pc \in Handling <=> worker[r][w].pc \in Handling,
         c.pc \in Handling => c.job = worker[r][w].job,
         c.pc \in Calling => c.resume \in Active,
         c.pc \in {"account", "consume"} => ~ShouldFail(c.job),
         c.pc = "fail" => ShouldFail(c.job),
         c.pc = "release" => event[r],
         c.pc = "exit" => event[r] \/ next[r] = Len(plan[r]) + 1
  PROVE  RunInv(r)'
<1>0. /\ worker[r] \in WorkerTable /\ next[r] \in Nat /\ worker'[r] = [worker[r] EXCEPT ![w] = c]
      /\ \A v \in Workers : worker'[r][v] = IF v = w THEN c ELSE worker[r][v]
  BY DEF TypeOK, CoroutineType, MemoryType, WorkerTable
<1>1. /\ task[r].pc = "gather" /\ Gathering(r) /\ Unfinished(r)
      /\ event[r] \/ Counting(r)
      /\ db.run[r].status # "none"
  BY AtWork
<1>2. HeldBy(db', r) \subseteq HeldBy(db, r) /\ db.account \subseteq db'.account
      /\ db'.run[r].status # "none"
  BY <1>1 DEF Keeps, Shrinks, SameDocs
<1>3. /\ InOrder(worker'[r], next[r])
      /\ Finished(worker'[r], next[r]) = Finished(worker[r], next[r])
  BY <1>0, <1>1, SameHands DEF Gathering
<1>4. Gathering(r)'
  BY <1>0, <1>1, <1>3 DEF Gathering
<1>5. Unfinished(r)'
  BY <1>1, <1>2, <1>3 DEF Unfinished
<1>6. event'[r] \/ Counting(r)'
  <2> SUFFICES ASSUME ~event[r] PROVE Counting(r)'
    OBVIOUS
  <2>1. Tallied(r, Finished(worker[r], next[r]))
    BY <1>1 DEF Counting
  <2>2. Tallied(r, Finished(worker[r], next[r]))'
    BY <1>2, <1>3, <2>1 DEF Tallied
  <2>3. QED  BY <1>0, <1>1, <2>2 DEF Counting
<1>7. QED  BY <1>1, <1>2, <1>4, <1>5, <1>6, GathersOn

(* It takes the next address.                                              *)
LEMMA TakesOne ==
  ASSUME TypeOK, NEW r \in Runs, RunInv(r), NEW w \in Workers, NEW c \in WorkerStates,
         worker[r][w].pc = "take", Keeps(db, db'),
         worker' = [worker EXCEPT ![r][w] = c],
         task' = task, plan' = plan, next' = [next EXCEPT ![r] = @ + 1], event' = event,
         mem' = mem, next[r] <= Len(plan[r]), c.pc = "sleep", c.job = next[r]
  PROVE  RunInv(r)'
<1>0. /\ worker[r] \in WorkerTable /\ next[r] \in Nat \ {0}
      /\ worker'[r] = [worker[r] EXCEPT ![w] = c] /\ next'[r] = next[r] + 1
      /\ \A v \in Workers : worker'[r][v] = IF v = w THEN c ELSE worker[r][v]
      /\ plan[r] \in Seq(Emails)
  BY DEF TypeOK, CoroutineType, MemoryType, WorkerTable
<1>1. /\ task[r].pc = "gather" /\ Gathering(r) /\ Unfinished(r)
      /\ event[r] \/ Counting(r)
      /\ db.run[r].status # "none"
  BY AtWork
<1>2. HeldBy(db', r) \subseteq HeldBy(db, r) /\ db.account \subseteq db'.account
      /\ db'.run[r].status # "none"
  BY <1>1 DEF Keeps, Shrinks, SameDocs
<1>3. /\ InOrder(worker'[r], next'[r])
      /\ Finished(worker'[r], next'[r]) = Finished(worker[r], next[r])
  <2>1. InOrder(worker[r], next[r]) /\ worker[r][w].pc \notin Handling
    BY <1>1 DEF Gathering, Handling
  <2>2. QED  BY <1>0, <2>1, TakesNext
<1>4. next'[r] \in 1 .. Len(plan[r]) + 1
  <2>1. Len(plan[r]) \in Nat
    BY <1>0
  <2>2. QED  BY <1>0, <2>1
<1>5. Gathering(r)'
  BY <1>0, <1>1, <1>3, <1>4 DEF Gathering, Calling
<1>6. Unfinished(r)'
  BY <1>1, <1>2, <1>3 DEF Unfinished
<1>7. event'[r] \/ Counting(r)'
  <2> SUFFICES ASSUME ~event[r] PROVE Counting(r)'
    OBVIOUS
  <2>1. Tallied(r, Finished(worker[r], next[r]))
    BY <1>1 DEF Counting
  <2>2. Tallied(r, Finished(worker[r], next[r]))'
    BY <1>2, <1>3, <2>1 DEF Tallied
  <2>3. \A v \in Workers : worker[r][v].pc # "exit"
    <3>1. Len(plan[r]) \in Nat
      BY <1>0
    <3>2. next[r] # Len(plan[r]) + 1
      BY <1>0, <3>1
    <3>3. QED  BY <1>1, <3>2 DEF Counting
  <2>4. QED  BY <1>0, <1>1, <2>2, <2>3 DEF Counting
<1>8. mem'[r].status \in Active
  BY <1>1 DEF Gathering
<1>9. QED  BY <1>1, <1>2, <1>5, <1>6, <1>7, <1>8, GathersOn

(* It is through with its address: given back, or counted.                 *)
LEMMA EndsOne ==
  ASSUME TypeOK, JobsReserved, NEW r \in Runs, RunInv(r), NEW w \in Workers,
         NEW c \in WorkerStates, worker[r][w].pc \in Handling, Keeps(db, db'),
         HeldBy(db', r) = HeldBy(db, r) \ {Job(r, w)},
         worker' = [worker EXCEPT ![r][w] = c],
         task' = task, plan' = plan, next' = next, event' = event, mem'[r].status \in Active,
         c.pc \notin Handling, c.pc \in Calling => c.resume \in Active,
         \/ event[r]
         \/ /\ c.pc = "record"
            /\ mem'[r].succeeded = IF ShouldFail(worker[r][w].job) THEN mem[r].succeeded
                                   ELSE mem[r].succeeded + 1
            /\ mem'[r].failed = IF ShouldFail(worker[r][w].job) THEN mem[r].failed + 1
                                ELSE mem[r].failed
            /\ ShouldFail(worker[r][w].job) \/ Job(r, w) \in db.account
  PROVE  RunInv(r)'
<1>0. /\ worker[r] \in WorkerTable /\ next[r] \in Nat /\ worker'[r] = [worker[r] EXCEPT ![w] = c]
      /\ \A v \in Workers : worker'[r][v] = IF v = w THEN c ELSE worker[r][v]
  BY DEF TypeOK, CoroutineType, MemoryType, WorkerTable
<1> DEFINE i == worker[r][w].job
           D == Finished(worker[r], next[r])
<1>1. /\ task[r].pc = "gather" /\ Gathering(r) /\ Unfinished(r)
      /\ event[r] \/ Counting(r)
      /\ db.run[r].status # "none"
  BY AtWork DEF Handling
<1>2. db.account \subseteq db'.account /\ db'.run[r].status # "none"
  BY <1>1 DEF Keeps, Shrinks, SameDocs
<1>3. /\ InOrder(worker'[r], next[r]) /\ i \notin D
      /\ Finished(worker'[r], next[r]) = D \cup {i}
  BY <1>0, <1>1, PutsDown DEF Gathering
<1>4. Gathering(r)'
  BY <1>0, <1>1, <1>3 DEF Gathering
<1>5. Unfinished(r)'
  <2>1. plan[r][i] = Job(r, w)
    BY DEF Job
  <2> HIDE DEF i, D
  <2> SUFFICES ASSUME NEW e \in HeldBy(db', r)
               PROVE  \E j \in 1 .. Len(plan[r]) : plan[r][j] = e /\ j \notin D \cup {i}
    BY <1>3 DEF Unfinished
  <2>2. e \in HeldBy(db, r) /\ e # Job(r, w)
    OBVIOUS
  <2>3. PICK j \in 1 .. Len(plan[r]) : plan[r][j] = e /\ j \notin D
    BY <1>1, <2>2 DEF Unfinished, D
  <2>4. QED  BY <2>1, <2>2, <2>3
<1>6. event'[r] \/ Counting(r)'
  <2> SUFFICES ASSUME ~event[r] PROVE Counting(r)'
    OBVIOUS
  <2>1. IsFiniteSet(D) /\ Tallied(r, D)
    BY <1>0, <1>1, FinishedIsFinite DEF Counting
  <2> HIDE DEF D
  <2>2. /\ Cardinality({j \in D \cup {i} : ShouldFail(j)}) = mem'[r].failed
        /\ Cardinality({j \in D \cup {i} : ~ShouldFail(j)}) = mem'[r].succeeded
    <3>1. /\ Cardinality({j \in D : ShouldFail(j)}) = mem[r].failed
          /\ Cardinality({j \in D : ~ShouldFail(j)}) = mem[r].succeeded
      BY <2>1 DEF Tallied
    <3>2. /\ mem'[r].succeeded = IF ShouldFail(i) THEN mem[r].succeeded ELSE mem[r].succeeded + 1
          /\ mem'[r].failed = IF ShouldFail(i) THEN mem[r].failed + 1 ELSE mem[r].failed
      OBVIOUS
    <3> HIDE DEF i
    <3>3. CASE ShouldFail(i)
      BY <1>3, <2>1, <3>1, <3>2, <3>3, CountsOne
    <3>4. CASE ~ShouldFail(i)
      BY <1>3, <2>1, <3>1, <3>2, <3>4, CountsOne
    <3>5. QED  BY <3>3, <3>4
  <2>3. \A j \in D \cup {i} : ShouldFail(j) \/ plan'[r][j] \in db'.account
    BY <1>2, <2>1 DEF Tallied, Job
  <2>4. Tallied(r, Finished(worker[r], next[r]))'
    BY <1>3, <2>2, <2>3 DEF Tallied
  <2>5. QED  BY <1>0, <1>1, <2>4 DEF Counting
<1>7. QED  BY <1>1, <1>2, <1>4, <1>5, <1>6, GathersOn

(* gather cancels the workers.                                             *)
LEMMA Aborted ==
  ASSUME TypeOK, NEW r \in Runs, db'.run[r].status # "none",
         NEW pc \in {"release", "failing"}, NEW s \in Active, AbortWorkers(r, pc, s)
  PROVE  RunInv(r)'
<1>1. /\ worker'[r] = [w \in Workers |-> NoWorker]
      /\ task'[r].pc = pc /\ task'[r].resume = s /\ mem'[r].status = s
  BY DEF AbortWorkers, WithStatus, Call, TypeOK, CoroutineType, MemoryType, Tasks, States
<1>2. Unwritten(r)' /\ Exited(r)' /\ Working(r)' /\ Ending(r)'
  BY <1>1 DEF Unwritten, Exited, NoWorker, Working, Ending, Settles
<1>3. Completing(r)'
  BY <1>1 DEF Completing, Active
<1>4. QED  BY <1>2, <1>3 DEF RunInv

(* Every step of a worker, on its own run.                                 *)
LEMMA WorkKeeps ==
  ASSUME IInv, NEW r \in Runs, RunInv(r), NEW w \in Workers, Work(r, w)
  PROVE  /\ Keeps(db, db') /\ task[r].pc = "gather"
         /\ \A q \in Runs : db.run[q].status \in Active => db'.run[q].status \in Active
         /\ \A q \in Runs \ {r} : db'.run[q] = db.run[q]
<1>0. TypeOK /\ db \in Databases /\ Keeps(db, db)
  BY DEF IInv, TypeOK, Keeps, Shrinks, SameDocs
<1>1. worker[r][w].pc # "exit"
  BY DEF Work, WorkerTakes, WorkerWakes, WorkerRegistersAccount, WorkerConsumesEmail,
         WorkerFailsEmail, WorkerRecords, WorkerReleases, WorkerUnavailable, WorkerSpins, WorkerTimesOut,
         WorkerCall
<1>2. task[r].pc = "gather"
  BY <1>0, <1>1, AtWork
<1>3. CASE db' = db
  BY <1>0, <1>2, <1>3
<1>4. CASE db' # db
  <2>1. db' = WorkerEffect(r, w) /\ worker[r][w].pc \in Calling
    BY <1>4 DEF Work, WorkerTakes, WorkerWakes, WorkerRegistersAccount, WorkerConsumesEmail,
         WorkerFailsEmail, WorkerRecords, WorkerReleases, WorkerUnavailable, WorkerSpins, WorkerTimesOut,
         WorkerCall, Quietly, Returns, Raises, Fault, Hangs, Calling
  <2>2. QED  BY <1>2, <2>1, WorkerOperation
<1>5. QED  BY <1>3, <1>4

LEMMA WorkItself ==
  ASSUME IInv, NEW r \in Runs, RunInv(r), NEW w \in Workers, Work(r, w)
  PROVE  RunInv(r)'
<1>0. /\ TypeOK /\ JobsReserved /\ worker[r][w] \in WorkerStates
      /\ mem \in [Runs -> States] /\ next \in [Runs -> Nat \ {0}]
      /\ plan[r] \in Seq(Emails)
  BY DEF IInv, TypeOK, CoroutineType, MemoryType
<1> DEFINE c == worker[r][w]
<1>1. Keeps(db, db') /\ task[r].pc = "gather"
  BY WorkKeeps
<1>2. /\ Gathering(r) /\ (event[r] \/ Counting(r))
      /\ mem[r].status \in Active /\ db.run[r].status # "none"
      /\ InOrder(worker[r], next[r])
  <2>1. Gathering(r) /\ (event[r] \/ Counting(r))
    BY <1>1 DEF RunInv, Working
  <2>2. db.run[r].status # "none"
    BY <1>1 DEF RunInv, Unwritten, Unstarted, NoTask
  <2>3. QED  BY <2>1, <2>2 DEF Gathering
<1>3. c.pc \in Calling => Resumed(c, r) \in Active
  BY <1>2 DEF Resumed, Gathering
<1>4. CASE WorkerTakes(r, w)
  <2>1. c.pc = "take" /\ task' = task /\ plan' = plan /\ event' = event /\ mem' = mem
    BY <1>4 DEF WorkerTakes, WorkerCall
  <2>2. CASE event[r] \/ next[r] > Len(plan[r])
    <3>1. event[r] \/ next[r] = Len(plan[r]) + 1
      <4>1. Len(plan[r]) \in Nat /\ next[r] \in 1 .. Len(plan[r]) + 1
        BY <1>0, <1>2 DEF Gathering
      <4>2. QED  BY <2>2, <4>1
    <3>2. worker' = [worker EXCEPT ![r][w] = NoWorker] /\ next' = next
      BY <1>4, <2>2 DEF WorkerTakes, WorkerBecomes
    <3>3. NoWorker \in WorkerStates /\ NoWorker.pc = "exit"
      BY <1>0, WorkerShapes DEF NoWorker
    <3> HIDE DEF c
    <3>4. c.pc \notin Handling /\ NoWorker.pc \notin Handling /\ NoWorker.pc \notin Calling
      BY <2>1, <3>3 DEF Handling, Calling
    <3>5. QED
      BY <1>0, <1>1, <1>2, <2>1, <3>1, <3>2, <3>3, <3>4, KeepsHands DEF c
  <2>3. CASE ~(event[r] \/ next[r] > Len(plan[r]))
    <3> DEFINE b == [c EXCEPT !.pc = "sleep", !.job = next[r]]
    <3>1. b \in WorkerStates /\ b.pc = "sleep" /\ b.job = next[r]
      BY <1>0, WorkerShapes DEF WorkerStates
    <3>2. worker' = [worker EXCEPT ![r][w] = b] /\ next' = [next EXCEPT ![r] = @ + 1]
      BY <1>4, <2>3 DEF WorkerTakes, WorkerBecomes, WorkerCall
    <3>3. next[r] <= Len(plan[r])
      <4>1. Len(plan[r]) \in Nat /\ next[r] \in Nat
        BY <1>0
      <4>2. QED  BY <2>3, <4>1
    <3> HIDE DEF b
    <3>4. QED  BY <1>0, <1>1, <2>1, <3>1, <3>2, <3>3, TakesOne
  <2>4. QED  BY <2>2, <2>3
<1>5. CASE WorkerWakes(r, w)
  <2> DEFINE b == Call(c, AfterWork(r, w), mem[r].status)
  <2>1. /\ c.pc = "sleep" /\ worker' = [worker EXCEPT ![r][w] = b]
        /\ task' = task /\ plan' = plan /\ next' = next /\ event' = event /\ mem' = mem
    BY <1>5 DEF WorkerWakes, WorkerBecomes, WorkerCall, OnlyRun
  <2>2. /\ b.pc = AfterWork(r, w) /\ b.job = c.job /\ b.resume \in Active
        /\ AfterWork(r, w) \in {"release", "fail", "account"}
        /\ AfterWork(r, w) = "release" => event[r]
        /\ AfterWork(r, w) = "fail" => ShouldFail(c.job)
        /\ AfterWork(r, w) = "account" => ~ShouldFail(c.job)
    BY <1>0, <1>2 DEF AfterWork, WorkerCall, Call, WorkerStates, TypeOK, MemoryType
  <2>3. b \in WorkerStates
    <3>1. AfterWork(r, w) \in WorkerPCs /\ mem[r].status \in StatusOrNone
      BY <1>0, <2>2 DEF WorkerPCs, States, StatusOrNone
    <3>2. QED  BY <1>0, <3>1, WorkerShapes
  <2> HIDE DEF b
  <2>4. /\ b.pc \in Handling /\ c.pc \in Handling /\ b.pc # "exit" /\ b.pc # "consume"
        /\ c.pc # "exit"
    BY <2>1, <2>2 DEF Handling
  <2>5. QED
    BY <1>0, <1>1, <1>2, <2>1, <2>2, <2>3, <2>4, KeepsHands
<1>6. CASE WorkerRegistersAccount(r, w)
  <2> DEFINE b == [c EXCEPT !.pc = "consume"]
  <2>1. /\ c.pc = "account" /\ worker' = [worker EXCEPT ![r][w] = b]
        /\ task' = task /\ plan' = plan /\ next' = next /\ event' = event
        /\ mem' = [mem EXCEPT ![r].status = Resumed(c, r)]
    BY <1>6 DEF WorkerRegistersAccount, WorkerBecomes, WorkerCall, OnlyRun, WithStatus
  <2>2. /\ mem'[r].status \in Active /\ mem'[r].succeeded = mem[r].succeeded
        /\ mem'[r].failed = mem[r].failed
    BY <1>0, <1>3, <2>1 DEF States, Calling
  <2>3. b \in WorkerStates /\ b.pc = "consume" /\ b.job = c.job /\ b.resume = c.resume
    BY <1>0 DEF WorkerStates, WorkerPCs
  <2>4. ~ShouldFail(c.job) /\ c.resume \in Active
    BY <1>2, <2>1 DEF InOrder, Gathering, Calling
  <2> HIDE DEF b
  <2>5. b.pc \in Handling /\ c.pc \in Handling /\ b.pc \notin {"exit", "fail", "release"}
    BY <2>1, <2>3 DEF Handling
  <2>6. QED
    BY <1>0, <1>1, <2>1, <2>2, <2>3, <2>4, <2>5, KeepsHands
<1>7. CASE WorkerConsumesEmail(r, w) \/ WorkerFailsEmail(r, w)
  <2> DEFINE b == Call(c, "record", Resumed(c, r))
             up == c.pc = "consume"
  <2>1. /\ c.pc \in {"consume", "fail"} /\ worker' = [worker EXCEPT ![r][w] = b]
        /\ task' = task /\ plan' = plan /\ next' = next /\ event' = event
        /\ db' = WorkerEffect(r, w)
        /\ mem' = [mem EXCEPT ![r].status = Resumed(c, r),
                              ![r].succeeded = IF up THEN @ + 1 ELSE @,
                              ![r].failed = IF up THEN @ ELSE @ + 1]
    BY <1>7 DEF WorkerConsumesEmail, WorkerFailsEmail, Counted, WorkerBecomes, WorkerCall,
                OnlyRun, Returns
  <2>2. /\ mem'[r].status \in Active
        /\ mem'[r].succeeded = IF up THEN mem[r].succeeded + 1 ELSE mem[r].succeeded
        /\ mem'[r].failed = IF up THEN mem[r].failed ELSE mem[r].failed + 1
    <3> HIDE DEF up
    <3>1. Resumed(c, r) \in Active
      BY <1>3, <2>1 DEF Calling
    <3>2. QED  BY <1>0, <2>1, <3>1 DEF States
  <2>3. b \in WorkerStates /\ b.pc = "record" /\ b.resume \in Active
    <3>1. Resumed(c, r) \in Active
      BY <1>3, <2>1 DEF Calling
    <3>2. "record" \in WorkerPCs /\ Resumed(c, r) \in StatusOrNone
      BY <3>1 DEF WorkerPCs, StatusOrNone, Statuses
    <3>3. b.pc = "record" /\ b.resume = Resumed(c, r)
      BY <1>0 DEF Call, WorkerStates
    <3>4. QED  BY <1>0, <3>1, <3>2, <3>3, WorkerShapes
  <2>4. /\ up <=> ~ShouldFail(c.job)
        /\ up => Job(r, w) \in db.account
    BY <1>0, <1>2, <2>1 DEF InOrder, JobsReserved, Job
  <2>5. HeldBy(db', r) = HeldBy(db, r) \ {Job(r, w)}
    BY <2>1, WorkerOperation DEF Calling
  <2> HIDE DEF b, up
  <2>6. b.pc \notin Handling /\ c.pc \in Handling
    BY <2>1, <2>3 DEF Handling
  <2>7. QED
    BY <1>0, <1>1, <2>1, <2>2, <2>3, <2>4, <2>5, <2>6, EndsOne
<1>8. CASE WorkerRecords(r, w)
  <2> DEFINE b == [NoWorker EXCEPT !.pc = "take"]
  <2>1. /\ c.pc = "record" /\ worker' = [worker EXCEPT ![r][w] = b]
        /\ task' = task /\ plan' = plan /\ next' = next /\ event' = event
        /\ mem' = [mem EXCEPT ![r].status = Resumed(c, r)]
    BY <1>8 DEF WorkerRecords, WorkerBecomes, WorkerCall, OnlyRun, WithStatus
  <2>2. /\ mem'[r].status \in Active /\ mem'[r].succeeded = mem[r].succeeded
        /\ mem'[r].failed = mem[r].failed
    BY <1>0, <1>3, <2>1 DEF States, Calling
  <2>3. b \in WorkerStates /\ b.pc = "take"
    BY DEF WorkerStates, WorkerPCs, NoWorker
  <2> HIDE DEF b
  <2>4. b.pc \notin Handling /\ c.pc \notin Handling /\ b.pc \notin Calling
    BY <2>1, <2>3 DEF Handling, Calling
  <2>5. QED
    BY <1>0, <1>1, <2>1, <2>2, <2>3, <2>4, KeepsHands
<1>9. CASE WorkerReleases(r, w)
  <2>1. /\ c.pc = "release" /\ worker' = [worker EXCEPT ![r][w] = NoWorker]
        /\ task' = task /\ plan' = plan /\ next' = next /\ event' = event
        /\ db' = WorkerEffect(r, w)
        /\ mem' = [mem EXCEPT ![r].status = Resumed(c, r)]
    BY <1>9 DEF WorkerReleases, WorkerBecomes, WorkerCall, OnlyRun, WithStatus, Returns
  <2>2. mem'[r].status \in Active
    BY <1>0, <1>3, <2>1 DEF States, Calling
  <2>3. event[r]
    BY <1>2, <2>1 DEF Counting
  <2>4. NoWorker \in WorkerStates /\ NoWorker.pc \notin Handling /\ NoWorker.pc \notin Calling
    BY <1>0, WorkerShapes DEF NoWorker, Handling, Calling
  <2>5. HeldBy(db', r) = HeldBy(db, r) \ {Job(r, w)} /\ c.pc \in Handling
    BY <2>1, WorkerOperation DEF Calling, Handling
  <2>6. QED
    BY <1>0, <1>1, <2>1, <2>2, <2>3, <2>4, <2>5, EndsOne
<1>10. CASE WorkerUnavailable(r, w)
  <2>1. c.pc \in Calling /\ plan' = plan /\ next' = next /\ event' = event
    BY <1>10 DEF WorkerUnavailable, WorkerCall, OnlyRun, Calling
  <2>2. CASE event[r]
    <3>1. AbortWorkers(r, "release", Resumed(c, r)) /\ Resumed(c, r) \in Active
      BY <1>3, <1>10, <2>1, <2>2 DEF WorkerUnavailable, WorkerCall
    <3>2. db'.run[r].status # "none"
      BY <1>1, <1>2 DEF Keeps, SameDocs
    <3>3. QED  BY <1>0, <3>1, <3>2, Aborted
  <2>3. CASE ~event[r]
    <3> DEFINE b == [c EXCEPT !.pc = RetryFrom(@), !.waiting = TRUE]
    <3>1. /\ worker' = [worker EXCEPT ![r][w] = b] /\ task' = task
          /\ mem' = [mem EXCEPT ![r].status = "waiting_for_database"]
      BY <1>10, <2>3 DEF WorkerUnavailable, WorkerBecomes, WorkerCall, WithStatus
    <3>2. /\ mem'[r].status \in Active /\ mem'[r].succeeded = mem[r].succeeded
          /\ mem'[r].failed = mem[r].failed
      BY <1>0, <3>1 DEF States, Active
    <3>3. b \in WorkerStates /\ b.pc = RetryFrom(c.pc) /\ b.job = c.job /\ b.resume = c.resume
      <4>1. b.pc = RetryFrom(c.pc) /\ b.job = c.job /\ b.resume = c.resume
        BY <1>0 DEF WorkerStates
      <4>2. QED  BY <1>0, <4>1, WorkerShapes
    <3>4. c.resume \in Active
      BY <1>2, <2>1 DEF Gathering
    <3>5. /\ c.pc \in {"account", "consume"} => ~ShouldFail(c.job)
          /\ c.pc = "fail" => ShouldFail(c.job)
          /\ c.pc # "release"
      BY <1>2, <2>3 DEF InOrder, Counting
    <3> HIDE DEF b
    <3>6. /\ b.pc \in Handling <=> c.pc \in Handling
          /\ b.pc \in {"account", "consume"} => c.pc \in {"account", "consume"}
          /\ b.pc = "fail" => c.pc = "fail"
          /\ b.pc # "release" /\ b.pc # "exit" /\ c.pc # "exit"
      BY <2>1, <3>3, <3>5 DEF RetryFrom, Handling, Calling
    <3>7. QED
      BY <1>0, <1>1, <2>1, <3>1, <3>2, <3>3, <3>4, <3>5, <3>6, KeepsHands
  <2>4. QED  BY <2>2, <2>3
<1>11. CASE WorkerTimesOut(r, w)
  <2>1. AbortWorkers(r, "failing", mem[r].status)
    BY <1>11 DEF WorkerTimesOut
  <2>2. db'.run[r].status # "none"
    BY <1>1, <1>2 DEF Keeps, SameDocs
  <2>3. QED  BY <1>0, <1>2, <2>1, <2>2, Aborted
<1>12. CASE WorkerSpins(r, w)
  BY <1>12, SpinningFreezes, FrozenRun
<1>13. QED
  BY <1>4, <1>5, <1>6, <1>7, <1>8, <1>9, <1>10, <1>11, <1>12 DEF Work

LEMMA OperationConnection ==
  ASSUME NEW d, Returns(d) \/ Raises(d) \/ Quietly \/ Hangs
  PROVE  /\ serving' = serving /\ restarts' = restarts
         /\ online' => online
         /\ faults' = faults \/ faults' = faults + 1
BY DEF Returns, Raises, Quietly, Hangs, Fault, GoesOffline, connection

(* Who is tended stays so until nothing is left of the run.                *)
LEMMA TendedFrame ==
  ASSUME Tended, recovery' = recovery, starter' = starter, stopper' = stopper, online' => online,
         Shrinks(db, db'),
         \A q \in Runs : db'.run[q].status \in Active =>
           db.run[q].status \in Active \/ task'[q].pc # "none",
         \A q \in Runs : task[q].pc # "none" => task'[q].pc # "none" \/ ~Leaves(q)'
  PROVE  Tended'
<1> SUFFICES ASSUME online', stopper'.pc = "idle", NEW q \in Runs, Leaves(q)', task'[q].pc = "none"
             PROVE  (starter.run = q /\ starter.pc \in Starting) \/ ToBeRecovered(q)'
  BY DEF Tended
<1>1. db'.run[q].status \in Active => db.run[q].status \in Active
  OBVIOUS
<1>2. Leaves(q)
  BY <1>1 DEF Leaves, Shrinks
<1>3. task[q].pc = "none"
  OBVIOUS
<1>4. (starter.run = q /\ starter.pc \in Starting) \/ ToBeRecovered(q)
  BY <1>2, <1>3 DEF Tended
<1>5. ToBeRecovered(q) => ToBeRecovered(q)'
  BY <1>1 DEF ToBeRecovered
<1>6. QED  BY <1>4, <1>5

LEMMA WorkParts ==
  ASSUME IInv, Parts, NEW r \in Runs, NEW w \in Workers, Work(r, w)
  PROVE  Parts'
<1>0. /\ TypeOK /\ RunInv(r) /\ StartsOne /\ StopsAlone /\ Tended
      /\ mem \in [Runs -> States] /\ next \in [Runs -> Nat \ {0}] /\ task \in [Runs -> Tasks]
      /\ worker \in [Runs -> [Workers -> WorkerStates]]
  BY DEF IInv, Parts, TypeOK, MemoryType, CoroutineType
<1>1. /\ Keeps(db, db') /\ task[r].pc = "gather"
      /\ \A q \in Runs : db.run[q].status \in Active => db'.run[q].status \in Active
      /\ \A q \in Runs \ {r} : db'.run[q] = db.run[q]
  BY <1>0, WorkKeeps
<1>2. /\ starter' = starter /\ stopper' = stopper /\ recovery' = recovery /\ plan' = plan
      /\ event' = event /\ serving' = serving /\ (online' => online)
  <2>1. \E d : Returns(d) \/ Raises(d) \/ Quietly \/ Hangs
    BY DEF Work, WorkerTakes, WorkerWakes, WorkerRegistersAccount, WorkerConsumesEmail,
           WorkerFailsEmail, WorkerRecords, WorkerReleases, WorkerUnavailable, WorkerSpins, WorkerTimesOut
  <2>2. /\ starter' = starter /\ stopper' = stopper /\ recovery' = recovery /\ plan' = plan
        /\ event' = event
    BY DEF Work, WorkerTakes, WorkerWakes, WorkerRegistersAccount, WorkerConsumesEmail,
           WorkerFailsEmail, WorkerRecords, WorkerReleases, WorkerUnavailable, WorkerSpins, WorkerTimesOut,
           OnlyRun
  <2>3. QED  BY <2>1, <2>2, OperationConnection
<1>3. /\ next' = next \/ next' = [next EXCEPT ![r] = @ + 1]
      /\ task' = task \/ \E pc \in {"release", "failing"} : \E s :
                           task' = [task EXCEPT ![r] = Call(@, pc, s)]
  BY DEF Work, WorkerTakes, WorkerWakes, WorkerRegistersAccount, WorkerConsumesEmail,
         WorkerFailsEmail, WorkerRecords, WorkerReleases, WorkerUnavailable, WorkerSpins, WorkerTimesOut,
         OnlyRun, AbortWorkers
<1>4. ASSUME NEW q \in Runs, q # r
      PROVE  /\ task'[q] = task[q] /\ next'[q] = next[q]
             /\ worker'[q] = worker[q] /\ mem'[q] = mem[q]
  <2>1. task'[q] = task[q] /\ next'[q] = next[q]
    BY <1>0, <1>3, <1>4
  <2>2. mem'[q] = mem[q] /\ worker'[q] = worker[q]
    BY <1>0, <1>4 DEF Work, WorkerTakes, WorkerWakes, WorkerRegistersAccount,
         WorkerConsumesEmail, WorkerFailsEmail, WorkerRecords, WorkerReleases,
         WorkerUnavailable, WorkerSpins, WorkerTimesOut, OnlyRun, AbortWorkers, WithStatus, WorkerBecomes,
         Counted
  <2>3. QED  BY <2>1, <2>2
<1>5. task'[r].pc # "none"
  <2>1. ASSUME NEW pc \in {"release", "failing"}, NEW s,
               task' = [task EXCEPT ![r] = Call(@, pc, s)]
        PROVE  task'[r].pc = pc
    <3>1. task'[r] = Call(task[r], pc, s) /\ task[r] \in Tasks
      BY <1>0, <2>1
    <3>2. QED  BY <3>1 DEF Call, Tasks
  <2>2. QED  BY <1>1, <1>3, <2>1
<1>6. \A q \in Runs : RunInv(q)'
  <2>1. RunInv(r)'
    BY <1>0, WorkItself
  <2>2. ASSUME NEW q \in Runs, q # r PROVE RunInv(q)'
    <3>1. RunInv(q) /\ Shrinks(db, db') /\ (db'.run[q].status = "none" => db.run[q].status = "none")
      BY <1>1 DEF Parts, Keeps, SameDocs
    <3>2. QED  BY <1>2, <1>4, <2>2, <3>1, RunFrame
  <2>3. QED  BY <2>1, <2>2
<1>7. StartsOne'
  <2>1. ASSUME NEW q \in Runs, starter.pc # "idle", q = starter.run PROVE Unstarted(q)'
    <3>1. Unstarted(q)
      BY <1>0, <2>1 DEF StartsOne
    <3>2. q # r
      BY <1>1, <3>1 DEF Unstarted, NoTask
    <3>3. QED  BY <1>4, <3>1, <3>2, UnstartedStays
  <2>2. QED  BY <1>0, <1>1, <1>2, <2>1, StarterFrame
<1>8. StopsAlone'
  <2>1. stopper.pc # "idle" => stopper.run # r
    BY <1>0, <1>1 DEF StopsAlone
  <2>2. QED  BY <1>0, <1>2, <1>4, <2>1 DEF StopsAlone
<1>9. Tended'
  <2>1. \A q \in Runs : task[q].pc # "none" => task'[q].pc # "none"
    BY <1>4, <1>5
  <2>2. \A q \in Runs : db'.run[q].status \in Active =>
          db.run[q].status \in Active \/ task'[q].pc # "none"
    BY <1>1, <1>5
  <2>3. QED  BY <1>0, <1>1, <1>2, <2>1, <2>2, TendedFrame DEF Keeps
<1>10. QED  BY <1>6, <1>7, <1>8, <1>9 DEF Parts

-----------------------------------------------------------------------------
(* A step of _execute after the workers.                                   *)

LEMMA TaskMoves ==
  ASSUME NEW r \in Runs, RunInv(r), Keeps(db, db'), db.run[r].status # "none",
         worker'[r] = worker[r], plan'[r] = plan[r],
         mem'[r].succeeded = mem[r].succeeded, mem'[r].failed = mem[r].failed,
         \A w \in Workers : worker[r][w].pc = "exit",
         task'[r].pc # "gather", Ending(r)',
         mem'[r].status = "completed" \/ task'[r].resume = "completed" =>
           Tallied(r, 1 .. Len(plan[r]))
  PROVE  RunInv(r)'
<1>0. db.account \subseteq db'.account /\ db'.run[r].status # "none"
  BY DEF Keeps, Shrinks, SameDocs
<1>1. Unwritten(r)' /\ Exited(r)' /\ Working(r)'
  BY <1>0 DEF Unwritten, Exited, Working
<1>2. Completing(r)'
  <2>1. Tallied(r, 1 .. Len(plan[r])) => Tallied(r, 1 .. Len(plan[r]))'
    BY <1>0, TalliedStays
  <2>2. QED  BY <2>1 DEF Completing
<1>3. QED  BY <1>1, <1>2 DEF RunInv

(* A gathered run: everything is finished, or the cancel event is set.     *)
LEMMA AllGathered ==
  ASSUME TypeOK, NEW r \in Runs, RunInv(r), task[r].pc = "gather",
         \A w \in Workers : worker[r][w].pc = "exit", ~event[r]
  PROVE  HeldBy(db, r) = {} /\ Tallied(r, 1 .. Len(plan[r]))
<1>1. Counting(r) /\ Unfinished(r)
  BY DEF RunInv, Working
<1>2. next[r] = Len(plan[r]) + 1
  BY <1>1, ManagerAssumption DEF Counting
<1>3. Len(plan[r]) \in Nat
  BY DEF TypeOK, MemoryType
<1>4. \A i : ~Handles(worker[r], i)
  BY DEF Handles, Handling
<1>5. Finished(worker[r], next[r]) = 1 .. Len(plan[r])
  BY <1>2, <1>3, <1>4 DEF Finished
<1>6. QED  BY <1>1, <1>5 DEF Counting, Unfinished

LEMMA TaskAtWork ==
  ASSUME TypeOK, NEW r \in Runs, RunInv(r), task[r].pc # "none"
  PROVE  db.run[r].status # "none"
BY DEF RunInv, Unwritten, Unstarted, NoTask

(* The save at the end of the run is terminal.                             *)
LEMMA TaskSaves ==
  ASSUME NEW r \in Runs, RunInv(r), online, task[r].pc \in {"complete", "cancelled"}
  PROVE  /\ Resumed(task[r], r) = IF task[r].pc = "complete" THEN "completed" ELSE "cancelled"
         /\ HeldBy(db, r) = {}
BY DEF RunInv, Ending, Settles, Resumed

LEMMA RaisesOffline ==
  ASSUME NEW d, Raises(d)
  PROVE  ~online' /\ (db' = db \/ (online /\ db' = d))
BY DEF Raises, Fault, GoesOffline

(* What remains of the run when its task ends, and of the other runs.      *)
TaskEffects(r) ==
  /\ Keeps(db, db')
  /\ RunInv(r)'
  /\ \A q \in Runs : db'.run[q].status \in Active => db.run[q].status \in Active
  /\ task'[r].pc = "none" => ~online' \/ ~Leaves(r)'

LEMMA GoesTo ==
  ASSUME TypeOK, NEW r \in Runs, NEW pc, NEW s, TaskGoto(r, pc, s)
  PROVE  /\ task'[r].pc = pc /\ task'[r].resume = s /\ ~task'[r].waiting
         /\ \A q \in Runs \ {r} : task'[q] = task[q]
         /\ event' = event
<1>1. task[r] \in Tasks /\ task'[r] = Call(task[r], pc, s)
  BY DEF TypeOK, CoroutineType, TaskGoto
<1>2. QED  BY <1>1 DEF TaskGoto, Call, Tasks, TypeOK, CoroutineType

LEMMA EndsThere ==
  ASSUME TypeOK, NEW r \in Runs, TaskEnds(r)
  PROVE  /\ task'[r] = NoTask
         /\ \A q \in Runs \ {r} : task'[q] = task[q] /\ event'[q] = event[q]
BY DEF TypeOK, CoroutineType, MemoryType, TaskEnds

LEMMA SetsStatus ==
  ASSUME TypeOK, NEW r \in Runs, NEW s, mem' = WithStatus(r, s)
  PROVE  /\ mem'[r].status = s /\ mem'[r].succeeded = mem[r].succeeded
         /\ mem'[r].failed = mem[r].failed
         /\ \A q \in Runs \ {r} : mem'[q] = mem[q]
BY DEF TypeOK, MemoryType, WithStatus, States

LEMMA SetsStatusAndFlag ==
  ASSUME TypeOK, NEW r \in Runs, NEW s, NEW b,
         mem' = [mem EXCEPT ![r].status = s, ![r].cancel = b]
  PROVE  /\ mem'[r].status = s /\ mem'[r].succeeded = mem[r].succeeded
         /\ mem'[r].failed = mem[r].failed
         /\ \A q \in Runs \ {r} : mem'[q] = mem[q]
BY DEF TypeOK, MemoryType, States

LEMMA TaskGathers ==
  ASSUME TypeOK, NEW r \in Runs, RunInv(r), TaskGathered(r)
  PROVE  TaskEffects(r)
<1>0. /\ task[r].pc = "gather" /\ \A w \in Workers : worker[r][w].pc = "exit"
      /\ worker' = worker /\ plan' = plan /\ db' = db
  BY DEF TaskGathered, WorkerCall, Quietly, OnlyTask
<1>1. Keeps(db, db') /\ db.run[r].status # "none" /\ Gathering(r)
  BY <1>0, TaskAtWork DEF Keeps, Shrinks, SameDocs, RunInv, Working
<1>2. CASE event[r]
  <2>1. task'[r].pc = "release" /\ task'[r].resume = mem[r].status /\ mem' = mem
    BY <1>2, GoesTo DEF TaskGathered
  <2>2. Ending(r)'
    BY <2>1 DEF Ending, Settles
  <2>3. mem[r].status # "completed"
    BY <1>1 DEF Gathering, Active
  <2>4. RunInv(r)'
    BY <1>0, <1>1, <2>1, <2>2, <2>3, TaskMoves
  <2>5. QED  BY <1>0, <1>1, <2>1, <2>4 DEF TaskEffects
<1>3. CASE ~event[r]
  <2>1. /\ task'[r].pc = "complete" /\ task'[r].resume = "completed"
        /\ mem'[r].status = "completed" /\ mem'[r].succeeded = mem[r].succeeded
        /\ mem'[r].failed = mem[r].failed
    <3>1. TaskGoto(r, "complete", "completed") /\ mem' = WithStatus(r, "completed")
      BY <1>3 DEF TaskGathered
    <3>2. QED  BY <3>1, GoesTo, SetsStatus
  <2>2. HeldBy(db, r) = {} /\ Tallied(r, 1 .. Len(plan[r]))
    BY <1>0, <1>3, AllGathered
  <2>3. Ending(r)'
    BY <1>0, <2>1, <2>2 DEF Ending, Settles
  <2>4. RunInv(r)'
    BY <1>0, <1>1, <2>1, <2>2, <2>3, TaskMoves
  <2>5. QED  BY <1>0, <1>1, <2>1, <2>4 DEF TaskEffects
<1>4. QED  BY <1>2, <1>3

LEMMA SavedStatus ==
  ASSUME NEW d \in Databases, NEW r \in Runs, NEW s \in Terminal, NEW b
  PROVE  /\ Keeps(d, Saved(d, r, s, b))
         /\ HeldBy(Saved(d, r, s, b), r) = HeldBy(d, r)
         /\ Saved(d, r, s, b).run[r].status \notin Active
         /\ \A q \in Runs : Saved(d, r, s, b).run[q].status \in Active =>
                              d.run[q].status \in Active
<1>1. s \in Statuses /\ s \notin Active /\ "none" \notin Active
  BY DEF Statuses, Active, Terminal
<1>2. Keeps(d, Saved(d, r, s, b))
  BY <1>1, SavedKeeps
<1>3. QED  BY <1>1, <1>2 DEF Saved, Databases, Docs, HeldBy

(* The two saves that end a run, and the last of the failure path.         *)
LEMMA TaskSavesAll ==
  ASSUME TypeOK, NEW r \in Runs, RunInv(r), TaskCompletes(r) \/ TaskCancelled(r) \/ TaskFailed(r)
  PROVE  TaskEffects(r)
<1>0. /\ worker' = worker /\ plan' = plan /\ db \in Databases
      /\ task[r].pc \in {"complete", "cancelled", "failed"} /\ mem[r].cancel \in BOOLEAN
  BY DEF TaskCompletes, TaskCancelled, TaskFailed, OnlyTask, TypeOK, MemoryType, States
<1>1. db.run[r].status # "none" /\ \A w \in Workers : worker[r][w].pc = "exit"
  BY <1>0, TaskAtWork DEF RunInv, Exited
<1>2. task'[r] = NoTask
  BY EndsThere DEF TaskCompletes, TaskCancelled, TaskFailed
<1>3. HeldBy(db, r) = {}
  BY <1>0 DEF RunInv, Ending, Settles
<1>4. PICK s \in Terminal, b \in BOOLEAN :
        /\ \/ mem' = mem
           \/ mem' = WithStatus(r, s) /\ (s = "completed" => task[r].resume = "completed")
        /\ Returns(Saved(db, r, s, b)) \/ Raises(Saved(db, r, s, b))
  <2>1. CASE TaskCompletes(r) \/ TaskCancelled(r)
    <3>1. /\ Returns(Saved(db, r, Resumed(task[r], r), mem[r].cancel))
          /\ mem' = WithStatus(r, Resumed(task[r], r))
          /\ task[r].pc \in {"complete", "cancelled"} /\ online
      BY <2>1 DEF TaskCompletes, TaskCancelled, Returns
    <3>2. /\ Resumed(task[r], r) = IF task[r].pc = "complete" THEN "completed" ELSE "cancelled"
          /\ task[r].pc = "complete" => task[r].resume = "completed"
      BY <3>1, TaskSaves DEF RunInv, Ending, Settles
    <3>3. QED  BY <1>0, <3>1, <3>2 DEF Terminal
  <2>2. CASE TaskFailed(r)
    BY <1>0, <2>2 DEF TaskFailed, Terminal
  <2>3. QED  BY <2>1, <2>2
<1>5. /\ Keeps(db, db') /\ HeldBy(db', r) = {}
      /\ \A q \in Runs : db'.run[q].status \in Active => db.run[q].status \in Active
      /\ ~online' \/ ~Leaves(r)'
  <2>1. CASE Returns(Saved(db, r, s, b))
    <3>1. db' = Saved(db, r, s, b)
      BY <2>1 DEF Returns
    <3>2. QED  BY <1>0, <1>3, <3>1, SavedStatus DEF Leaves
  <2>2. CASE Raises(Saved(db, r, s, b))
    <3>1. ~online' /\ (db' = db \/ db' = Saved(db, r, s, b))
      BY <2>2, RaisesOffline
    <3>2. Keeps(db, db)
      BY DEF Keeps, Shrinks, SameDocs
    <3>3. QED  BY <1>0, <1>3, <3>1, <3>2, SavedStatus
  <2>3. QED  BY <1>4, <2>1, <2>2
<1>6. RunInv(r)'
  <2>1. /\ mem'[r].succeeded = mem[r].succeeded /\ mem'[r].failed = mem[r].failed
        /\ mem'[r].status = mem[r].status \/
             (mem'[r].status = s /\ (s = "completed" => task[r].resume = "completed"))
    BY <1>4, SetsStatus
  <2>2. mem'[r].status = "completed" => Tallied(r, 1 .. Len(plan[r]))
    BY <2>1 DEF RunInv, Completing
  <2>3. Ending(r)' /\ task'[r].pc # "gather" /\ task'[r].resume # "completed"
    BY <1>2 DEF Ending, Settles, NoTask
  <2>4. QED  BY <1>0, <1>1, <1>5, <2>1, <2>2, <2>3, TaskMoves
<1>7. QED  BY <1>5, <1>6 DEF TaskEffects

LEMMA TaskGivesBack ==
  ASSUME TypeOK, NEW r \in Runs, RunInv(r), TaskReleases(r)
  PROVE  TaskEffects(r)
<1>0. /\ task[r].pc = "release" /\ worker' = worker /\ plan' = plan /\ db \in Databases
      /\ db' = Released(db, HeldBy(db, r))
      /\ mem' = [mem EXCEPT ![r].status = "cancelled", ![r].cancel = FALSE]
      /\ TaskGoto(r, "cancelled", "cancelled")
  BY DEF TaskReleases, OnlyTask, Returns, TypeOK
<1>1. db.run[r].status # "none" /\ \A w \in Workers : worker[r][w].pc = "exit"
  BY <1>0, TaskAtWork DEF RunInv, Exited
<1>2. /\ Keeps(db, db') /\ HeldBy(db', r) = {} /\ db'.run = db.run
  <2>1. HeldBy(db', r) = HeldBy(db, r) \ HeldBy(db, r)
    BY <1>0, ReleasedAll
  <2>2. db'.run = db.run
    BY <1>0 DEF Released, Databases
  <2>3. Keeps(db, db')
    BY <1>0 , NamesDistinct DEF Keeps, Shrinks, SameDocs, Released, HeldBy, Databases
  <2>4. QED  BY <2>1, <2>2, <2>3
<1>3. /\ task'[r].pc = "cancelled" /\ task'[r].resume = "cancelled"
  BY <1>0, GoesTo
<1>4. /\ mem'[r].status = "cancelled" /\ mem'[r].succeeded = mem[r].succeeded
      /\ mem'[r].failed = mem[r].failed
  BY <1>0, SetsStatusAndFlag
<1>5. Ending(r)'
  BY <1>2, <1>3, <1>4 DEF Ending, Settles
<1>6. RunInv(r)'
  BY <1>0, <1>1, <1>2, <1>3, <1>4, <1>5, TaskMoves
<1>7. QED  BY <1>2, <1>3, <1>6 DEF TaskEffects

(* The call waits, or the event that came late cancels the run.            *)
LEMMA TaskWaits ==
  ASSUME TypeOK, NEW r \in Runs, RunInv(r), TaskUnavailable(r)
  PROVE  TaskEffects(r)
<1>0. /\ task[r].pc \in {"complete", "release", "cancelled"}
      /\ worker' = worker /\ plan' = plan /\ db \in Databases
      /\ Raises(TaskEffect(r)) /\ task \in [Runs -> Tasks]
  BY DEF TaskUnavailable, OnlyTask, TypeOK, CoroutineType
<1>1. db.run[r].status # "none" /\ \A w \in Workers : worker[r][w].pc = "exit"
  BY <1>0, TaskAtWork DEF RunInv, Exited
<1>2. /\ Keeps(db, db')
      /\ \A q \in Runs : db'.run[q].status \in Active => db.run[q].status \in Active
  <2>1. Keeps(db, db)
    BY DEF Keeps, Shrinks, SameDocs
  <2>2. CASE db' = db
    BY <2>1, <2>2
  <2>3. CASE db' # db
    <3>1. online /\ db' = TaskEffect(r)
      BY <1>0, <2>3, RaisesOffline
    <3>2. CASE task[r].pc = "release"
      <4>1. db' = Released(db, HeldBy(db, r))
        BY <3>1, <3>2 DEF TaskEffect
      <4>2. QED
        BY <1>0, <4>1, NamesDistinct DEF Keeps, Shrinks, SameDocs, Released, HeldBy, Databases
    <3>3. CASE task[r].pc \in {"complete", "cancelled"}
      <4> DEFINE s == Resumed(task[r], r)
      <4>1. db' = Saved(db, r, s, mem[r].cancel)
        BY <3>1, <3>3 DEF TaskEffect
      <4>2. s \in Terminal
        BY <3>1, <3>3, TaskSaves DEF Terminal
      <4> HIDE DEF s
      <4>3. QED  BY <1>0, <4>1, <4>2, SavedStatus
    <3>4. QED  BY <1>0, <3>2, <3>3
  <2>4. QED  BY <2>2, <2>3
<1>3. HeldBy(db', r) \subseteq HeldBy(db, r)
  BY <1>2 DEF Keeps, Shrinks
<1>4. task[r].pc = "complete" => task[r].resume = "completed"
  BY DEF RunInv, Ending, Settles
<1>5. CASE task[r].pc = "complete" /\ event[r]
  <2>1. /\ TaskGoto(r, "release", Resumed(task[r], r))
        /\ mem' = WithStatus(r, Resumed(task[r], r))
    BY <1>5 DEF TaskUnavailable
  <2>2. task'[r].pc = "release"
    BY <2>1, GoesTo
  <2>3. /\ mem'[r].succeeded = mem[r].succeeded /\ mem'[r].failed = mem[r].failed
    BY <2>1, SetsStatus
  <2>4. Tallied(r, 1 .. Len(plan[r]))
    BY <1>4, <1>5 DEF RunInv, Completing
  <2>5. Ending(r)'
    BY <2>2 DEF Ending, Settles
  <2>6. RunInv(r)'
    BY <1>0, <1>1, <1>2, <2>2, <2>3, <2>4, <2>5, TaskMoves
  <2>7. QED  BY <1>2, <2>2, <2>6 DEF TaskEffects
<1>6. CASE ~(task[r].pc = "complete" /\ event[r])
  <2>1. /\ mem' = WithStatus(r, "waiting_for_database")
        /\ task' = [task EXCEPT ![r].waiting = TRUE]
    BY <1>6 DEF TaskUnavailable
  <2>2. /\ task'[r].pc = task[r].pc /\ task'[r].resume = task[r].resume /\ task'[r].waiting
    BY <1>0, <2>1 DEF Tasks
  <2>3. /\ mem'[r].status = "waiting_for_database"
        /\ mem'[r].succeeded = mem[r].succeeded /\ mem'[r].failed = mem[r].failed
    BY <2>1, SetsStatus
  <2>4. Ending(r)'
    BY <1>0, <1>3, <2>2 DEF RunInv, Ending, Settles
  <2>5. task'[r].resume = "completed" => Tallied(r, 1 .. Len(plan[r]))
    BY <2>2 DEF RunInv, Completing
  <2>6. RunInv(r)'
    BY <1>0, <1>1, <1>2, <2>2, <2>3, <2>4, <2>5, TaskMoves
  <2>7. QED  BY <1>0, <1>2, <2>2, <2>6 DEF TaskEffects
<1>7. QED  BY <1>5, <1>6

(* The failure path, up to the save.                                       *)
LEMMA TaskFailing ==
  ASSUME TypeOK, NEW r \in Runs, RunInv(r),
         TaskTimesOut(r) \/ TaskFails(r) \/ TaskReconciled(r)
  PROVE  TaskEffects(r)
<1>0. /\ task[r].pc \in {"complete", "release", "cancelled", "failing", "reconcile"}
      /\ worker' = worker /\ plan' = plan /\ task \in [Runs -> Tasks]
  BY DEF TaskTimesOut, TaskFails, TaskReconciled, OnlyTask, TypeOK, CoroutineType
<1>1. db.run[r].status # "none" /\ \A w \in Workers : worker[r][w].pc = "exit"
  BY <1>0, TaskAtWork DEF RunInv, Exited
<1>2. db' = db /\ Keeps(db, db')
  <2>1. db' = db
    BY DEF TaskTimesOut, TaskFails, TaskReconciled, Quietly, Returns, Raises, Fault
  <2>2. QED  BY <2>1 DEF Keeps, Shrinks, SameDocs
<1>3. mem[r].status = "completed" \/ task[r].resume = "completed" =>
        Tallied(r, 1 .. Len(plan[r]))
  BY DEF RunInv, Completing
<1>4. CASE TaskTimesOut(r)
  <2>1. TaskGoto(r, "failing", mem[r].status) /\ mem' = mem
    BY <1>4 DEF TaskTimesOut
  <2>2. task'[r].pc = "failing" /\ task'[r].resume = mem[r].status
    BY <2>1, GoesTo
  <2>3. Ending(r)'
    BY <2>2 DEF Ending, Settles
  <2>4. RunInv(r)'
    BY <1>0, <1>1, <1>2, <1>3, <2>1, <2>2, <2>3, TaskMoves
  <2>5. QED  BY <1>2, <2>2, <2>4 DEF TaskEffects
<1>5. ASSUME TaskEnds(r), ~online', mem' = mem \/ mem' = WithStatus(r, "failed")
      PROVE  TaskEffects(r)
  <2>1. task'[r] = NoTask
    BY <1>5, EndsThere
  <2>2. /\ mem'[r].succeeded = mem[r].succeeded /\ mem'[r].failed = mem[r].failed
        /\ mem'[r].status = mem[r].status \/ mem'[r].status = "failed"
    BY <1>5, SetsStatus
  <2>3. Ending(r)' /\ task'[r].pc # "gather" /\ task'[r].resume # "completed"
    BY <2>1 DEF Ending, Settles, NoTask
  <2>4. RunInv(r)'
    BY <1>0, <1>1, <1>2, <1>3, <2>2, <2>3, TaskMoves
  <2>5. QED  BY <1>2, <1>5, <2>4 DEF TaskEffects
<1>6. CASE TaskFails(r)
  <2>1. \/ ~online' /\ TaskEnds(r) /\ (mem' = mem \/ mem' = WithStatus(r, "failed"))
        \/ /\ task' = [task EXCEPT ![r].pc = "reconcile", ![r].held = HeldBy(db, r)]
           /\ mem' = mem
    BY <1>6, RaisesOffline DEF TaskFails, Quietly, connection
  <2>2. CASE /\ task' = [task EXCEPT ![r].pc = "reconcile", ![r].held = HeldBy(db, r)]
             /\ mem' = mem
    <3>1. /\ task'[r].pc = "reconcile" /\ task'[r].held = HeldBy(db, r)
          /\ task'[r].resume = task[r].resume
      BY <1>0, <2>2 DEF Tasks
    <3>2. Ending(r)'
      BY <1>2, <3>1 DEF Ending, Settles
    <3>3. RunInv(r)'
      BY <1>0, <1>1, <1>2, <1>3, <2>2, <3>1, <3>2, TaskMoves
    <3>4. QED  BY <1>2, <3>1, <3>3 DEF TaskEffects
  <2>3. QED  BY <1>5, <2>1, <2>2
<1>7. CASE TaskReconciled(r)
  <2>1. /\ task[r].pc = "reconcile" /\ task[r].held = {} /\ mem' = WithStatus(r, "failed")
        /\ online' = online
        /\ IF online THEN TaskGoto(r, "failed", "failed") ELSE TaskEnds(r)
    BY <1>7 DEF TaskReconciled, Quietly, connection
  <2>2. CASE online
    <3>1. task'[r].pc = "failed" /\ task'[r].resume = "failed"
      BY <2>1, <2>2, GoesTo
    <3>2. /\ mem'[r].status = "failed" /\ mem'[r].succeeded = mem[r].succeeded
          /\ mem'[r].failed = mem[r].failed
      BY <2>1, SetsStatus
    <3>3. HeldBy(db', r) = {}
      BY <1>2, <2>1 DEF RunInv, Ending
    <3>4. Ending(r)'
      BY <3>1, <3>3 DEF Ending, Settles
    <3>5. RunInv(r)'
      BY <1>0, <1>1, <1>2, <3>1, <3>2, <3>4, TaskMoves
    <3>6. QED  BY <1>2, <3>1, <3>5 DEF TaskEffects
  <2>3. QED  BY <1>5, <2>1, <2>2
<1>8. QED  BY <1>4, <1>6, <1>7

LEMMA TaskReconciling ==
  ASSUME TypeOK, NEW r \in Runs, NEW e \in Emails, RunInv(r), TaskReconciles(r, e)
  PROVE  TaskEffects(r)
<1>0. /\ task[r].pc = "reconcile" /\ e \in task[r].held /\ db \in Databases
      /\ worker' = worker /\ plan' = plan /\ mem' = mem /\ task \in [Runs -> Tasks]
  BY DEF TaskReconciles, OnlyTask, TypeOK, CoroutineType
<1>1. db.run[r].status # "none" /\ \A w \in Workers : worker[r][w].pc = "exit"
  BY <1>0, TaskAtWork DEF RunInv, Exited
<1>2. /\ Keeps(db, Reconciled(db, e, r)) /\ Keeps(db, db)
      /\ HeldBy(Reconciled(db, e, r), r) = HeldBy(db, r) \ {e}
      /\ Reconciled(db, e, r).run = db.run
  <2>1. Reconciled(db, e, r).run = db.run
    BY <1>0 DEF Reconciled, Consumed, Released, Databases
  <2>2. QED  BY <1>0, <2>1, PoolKeeps
<1>3. mem[r].status = "completed" \/ task[r].resume = "completed" =>
        Tallied(r, 1 .. Len(plan[r]))
  BY DEF RunInv, Completing
<1>4. HeldBy(db, r) \subseteq task[r].held
  BY <1>0 DEF RunInv, Ending
<1>5. CASE Returns(Reconciled(db, e, r))
  <2>1. db' = Reconciled(db, e, r)
    BY <1>5 DEF Returns
  <2>2. task' = [task EXCEPT ![r].held = @ \ {e}] \/ (~online' /\ TaskEnds(r))
    BY RaisesOffline DEF TaskReconciles
  <2>3. CASE task' = [task EXCEPT ![r].held = @ \ {e}]
    <3>1. /\ task'[r].pc = "reconcile" /\ task'[r].held = task[r].held \ {e}
          /\ task'[r].resume = task[r].resume
      BY <1>0, <2>3 DEF Tasks
    <3>2. Ending(r)'
      BY <1>2, <1>4, <2>1, <3>1 DEF Ending, Settles
    <3>3. RunInv(r)'
      BY <1>0, <1>1, <1>2, <1>3, <2>1, <3>1, <3>2, TaskMoves
    <3>4. QED  BY <1>2, <2>1, <3>1, <3>3 DEF TaskEffects
  <2>4. CASE ~online' /\ TaskEnds(r)
    BY <1>5, <2>4 DEF Returns, connection
  <2>5. QED  BY <2>2, <2>3, <2>4
<1>6. CASE Raises(Reconciled(db, e, r))
  <2>1. ~online' /\ (db' = db \/ db' = Reconciled(db, e, r))
    BY <1>6, RaisesOffline
  <2>2. TaskEnds(r)
    BY <2>1 DEF TaskReconciles, Returns, connection
  <2>3. task'[r] = NoTask
    BY <2>2, EndsThere
  <2>4. Ending(r)' /\ task'[r].pc # "gather" /\ task'[r].resume # "completed"
    BY <2>3 DEF Ending, Settles, NoTask
  <2>5. Keeps(db, db') /\ db'.run = db.run
    BY <1>2, <2>1
  <2>6. RunInv(r)'
    BY <1>0, <1>1, <1>3, <2>4, <2>5, TaskMoves
  <2>7. QED  BY <2>1, <2>5, <2>6 DEF TaskEffects
<1>7. QED  BY <1>5, <1>6 DEF TaskReconciles

LEMMA ExecuteParts ==
  ASSUME IInv, Parts, NEW r \in Runs, Execute(r)
  PROVE  Parts'
<1>0. /\ TypeOK /\ RunInv(r) /\ StartsOne /\ StopsAlone /\ Tended
      /\ task \in [Runs -> Tasks] /\ event \in [Runs -> BOOLEAN] /\ mem \in [Runs -> States]
  BY DEF IInv, Parts, TypeOK, MemoryType, CoroutineType
<1>1. TaskEffects(r)
  <2>1. CASE TaskSpins(r)
    <3>1. task[r].pc = "complete" /\ Frozen
      BY <2>1, SpinningFreezes DEF TaskSpins
    <3>2. RunInv(r)' /\ Keeps(db, db')
      BY <1>0, <3>1, FrozenRun DEF Frozen, Keeps, Shrinks, SameDocs
    <3>3. QED  BY <3>1, <3>2 DEF TaskEffects, Frozen
  <2>2. QED
    BY <1>0, <2>1, TaskGathers, TaskSavesAll, TaskGivesBack, TaskWaits, TaskFailing,
       TaskReconciling DEF Execute
<1>2. /\ starter' = starter /\ stopper' = stopper /\ recovery' = recovery /\ plan' = plan
      /\ next' = next /\ worker' = worker /\ serving' = serving /\ (online' => online)
      /\ task[r].pc # "none"
  <2>1. \E d : Returns(d) \/ Raises(d) \/ Quietly \/ Hangs
    BY DEF Execute, TaskGathered, TaskCompletes, TaskReleases, TaskCancelled, TaskUnavailable,
           TaskSpins, TaskTimesOut, TaskFails, TaskReconciled, TaskFailed, TaskReconciles
  <2>2. /\ starter' = starter /\ stopper' = stopper /\ recovery' = recovery /\ plan' = plan
        /\ next' = next /\ worker' = worker /\ task[r].pc # "none"
    BY DEF Execute, TaskGathered, TaskCompletes, TaskReleases, TaskCancelled, TaskUnavailable,
           TaskSpins, TaskTimesOut, TaskFails, TaskReconciled, TaskFailed, TaskReconciles, OnlyTask
  <2>3. QED  BY <2>1, <2>2, OperationConnection
<1>3. ASSUME NEW q \in Runs, q # r
      PROVE  task'[q] = task[q] /\ event'[q] = event[q] /\ mem'[q] = mem[q]
  <2>1. \/ task' = task
        \/ \E pc, s : task' = [task EXCEPT ![r] = Call(@, pc, s)]
        \/ task' = [task EXCEPT ![r] = NoTask]
        \/ task' = [task EXCEPT ![r].waiting = TRUE]
        \/ \E pc, h : task' = [task EXCEPT ![r].pc = pc, ![r].held = h]
        \/ \E e : task' = [task EXCEPT ![r].held = @ \ {e}]
    BY DEF Execute, TaskGathered, TaskCompletes, TaskReleases, TaskCancelled, TaskUnavailable,
           TaskSpins, TaskTimesOut, TaskFails, TaskReconciled, TaskFailed, TaskReconciles, TaskGoto,
           TaskEnds
  <2>2. task'[q] = task[q]
    BY <1>0, <1>3, <2>1
  <2>3. event' = event \/ event' = [event EXCEPT ![r] = FALSE]
    BY DEF Execute, TaskGathered, TaskCompletes, TaskReleases, TaskCancelled, TaskUnavailable,
           TaskSpins, TaskTimesOut, TaskFails, TaskReconciled, TaskFailed, TaskReconciles, TaskGoto,
           TaskEnds
  <2>4. \/ mem' = mem
        \/ \E s : mem' = [mem EXCEPT ![r].status = s]
        \/ \E s, b : mem' = [mem EXCEPT ![r].status = s, ![r].cancel = b]
    BY DEF Execute, TaskGathered, TaskCompletes, TaskReleases, TaskCancelled, TaskUnavailable,
           TaskSpins, TaskTimesOut, TaskFails, TaskReconciled, TaskFailed, TaskReconciles, WithStatus
  <2>5. event'[q] = event[q] /\ mem'[q] = mem[q]
    BY <1>0, <1>3, <2>3, <2>4
  <2>6. QED  BY <2>2, <2>5
<1>4. \A q \in Runs : RunInv(q)'
  <2>1. ASSUME NEW q \in Runs, q # r PROVE RunInv(q)'
    <3>1. RunInv(q) /\ Shrinks(db, db') /\ (db'.run[q].status = "none" => db.run[q].status = "none")
      BY <1>1 DEF Parts, TaskEffects, Keeps, SameDocs
    <3>2. QED  BY <1>2, <1>3, <2>1, <3>1, RunFrame
  <2>2. QED  BY <1>1, <2>1 DEF TaskEffects
<1>5. StartsOne'
  <2>1. ASSUME NEW q \in Runs, starter.pc # "idle", q = starter.run PROVE Unstarted(q)'
    <3>1. Unstarted(q)
      BY <1>0, <2>1 DEF StartsOne
    <3>2. q # r
      BY <1>2, <3>1 DEF Unstarted, NoTask
    <3>3. QED  BY <1>2, <1>3, <3>1, <3>2, UnstartedStays
  <2>2. QED  BY <1>0, <1>1, <1>2, <2>1, StarterFrame DEF TaskEffects
<1>6. StopsAlone'
  <2>1. stopper.pc # "idle" => stopper.run # r
    BY <1>0, <1>2 DEF StopsAlone
  <2>2. QED  BY <1>0, <1>2, <1>3, <2>1 DEF StopsAlone
<1>7. Tended'
  <2>1. CASE ~online'
    BY <2>1 DEF Tended
  <2>2. CASE online'
    <3>1. \A q \in Runs : task[q].pc # "none" => task'[q].pc # "none" \/ ~Leaves(q)'
      BY <1>1, <1>3, <2>2 DEF TaskEffects
    <3>2. \A q \in Runs : db'.run[q].status \in Active => db.run[q].status \in Active
      BY <1>1 DEF TaskEffects
    <3>3. QED  BY <1>0, <1>1, <1>2, <3>1, <3>2, TendedFrame DEF Keeps, TaskEffects
  <2>3. QED  BY <2>1, <2>2
<1>8. QED  BY <1>4, <1>5, <1>6, <1>7 DEF Parts

-----------------------------------------------------------------------------
(* A step of start() before the task exists.                               *)

LEMMA TendedMoves ==
  ASSUME Tended, recovery' = recovery, stopper' = stopper, online' => online,
         \A q \in Runs : Leaves(q)' =>
           \/ starter'.run = q /\ starter'.pc \in Starting
           \/ task'[q].pc # "none"
           \/ /\ Leaves(q) /\ task[q].pc = "none"
              /\ db'.run[q].status \in Active => db.run[q].status \in Active
              /\ ~(starter.run = q /\ starter.pc \in Starting)
  PROVE  Tended'
<1> SUFFICES ASSUME online', stopper'.pc = "idle", NEW q \in Runs, Leaves(q)', task'[q].pc = "none",
                    ~(starter'.run = q /\ starter'.pc \in Starting)
             PROVE  ToBeRecovered(q)'
  BY DEF Tended
<1>1. /\ Leaves(q) /\ task[q].pc = "none"
      /\ db'.run[q].status \in Active => db.run[q].status \in Active
      /\ ~(starter.run = q /\ starter.pc \in Starting)
  OBVIOUS
<1>2. ToBeRecovered(q)
  BY <1>1 DEF Tended
<1>3. QED  BY <1>1, <1>2 DEF ToBeRecovered

StartedWell(r) ==
  /\ starter.run = r
  /\ starter.pc \in {"check", "create"} <=> db.run[r].status = "none"
  /\ starter.pc = "query" => HeldBy(db, r) = {}
  /\ starter.pc \in {"reserve", "setReserved", "save"} => Planned(r)
  /\ starter.pc = "saveFailed" => HeldBy(db, r) = {}

LEMMA StarterMoves ==
  ASSUME Parts, NEW r \in Runs, Unstarted(r),
         starter.pc # "idle" => starter.run = r, serving \/ starter.pc # "idle",
         plan' = plan, next' = next, event' = event, task' = task, worker' = worker,
         recovery' = recovery, stopper' = stopper, serving' = serving, online' => online,
         Shrinks(db, db'), \A q \in Runs \ {r} : db'.run[q].status = db.run[q].status,
         db'.run[r].status = "none" => db.run[r].status = "none",
         \A q \in Runs \ {r} : mem'[q] = mem[q],
         mem'[r].succeeded = mem[r].succeeded, mem'[r].failed = mem[r].failed,
         mem'[r].status = mem[r].status \/ mem'[r].status # "completed",
         starter'.pc # "idle" => StartedWell(r)',
         \/ starter'.pc \in Starting \/ ~online' \/ ~Leaves(r)'
         \/ starter.pc \notin Starting /\ db'.run[r].status = db.run[r].status
  PROVE  Parts'
<1>0. task[r].pc = "none" /\ (\A q \in Runs : RunInv(q)) /\ StartsOne /\ StopsAlone /\ Tended
  BY DEF Unstarted, NoTask, Parts
<1>1. \A q \in Runs : RunInv(q)'
  <2>1. RunInv(r)'
    BY <1>0, RunFrame
  <2>2. ASSUME NEW q \in Runs, q # r PROVE RunInv(q)'
    BY <1>0, <2>2, RunFrame
  <2>3. QED  BY <2>1, <2>2
<1>2. StartsOne'
  <2>1. Unstarted(r)'
    BY UnstartedStays
  <2>2. QED  BY <2>1 DEF StartsOne, StartedWell
<1>3. StopsAlone'
  BY <1>0 DEF StopsAlone
<1>4. Tended'
  <2>1. CASE ~online'
    BY <2>1 DEF Tended
  <2>2. CASE online'
    <3> SUFFICES ASSUME NEW q \in Runs, Leaves(q)',
                        ~(starter'.run = q /\ starter'.pc \in Starting), task'[q].pc = "none"
                 PROVE  /\ Leaves(q) /\ task[q].pc = "none"
                        /\ db'.run[q].status \in Active => db.run[q].status \in Active
                        /\ ~(starter.run = q /\ starter.pc \in Starting)
      BY <1>0, TendedMoves
    <3>1. CASE q = r
      <4>1. starter'.pc \in Starting => starter'.run = r
        BY DEF StartedWell, Starting
      <4>2. starter.pc \notin Starting /\ db'.run[r].status = db.run[r].status
        BY <2>2, <3>1, <4>1
      <4>3. QED  BY <3>1, <4>2 DEF Leaves, Shrinks
    <3>2. CASE q # r
      <4>1. ~(starter.run = q /\ starter.pc \in Starting)
        BY <3>2 DEF Starting
      <4>2. QED  BY <3>2, <4>1 DEF Leaves, Shrinks
    <3>3. QED  BY <3>1, <3>2
  <2>3. QED  BY <2>1, <2>2
<1>5. QED  BY <1>1, <1>2, <1>3, <1>4 DEF Parts

(* What start() knows of its run, and what all its steps share.            *)
LEMMA AtStart ==
  ASSUME TypeOK, Parts, starter.pc # "idle"
  PROVE  /\ starter.run \in Runs /\ Unstarted(starter.run) /\ StartedWell(starter.run)
         /\ db \in Databases /\ mem \in [Runs -> States] /\ starter \in Starters
BY DEF Parts, StartsOne, StartedWell, TypeOK, MemoryType, CoroutineType

LEMMA StartOperation ==
  ASSUME NEW d
  PROVE  /\ Returns(d) => serving' = serving /\ online' = online /\ db' = d
         /\ Raises(d) => serving' = serving /\ ~online' /\ (db' = db \/ db' = d)
         /\ Quietly => serving' = serving /\ online' = online /\ db' = db
BY DEF Returns, Raises, Quietly, Fault, GoesOffline, connection

LEMMA GoesStarting ==
  ASSUME starter \in Starters, NEW pc, StartGoto(pc)
  PROVE  starter'.pc = pc /\ starter'.run = starter.run
BY DEF StartGoto, Starters

(* Steps that only read.                                                   *)
LEMMA StartReads ==
  ASSUME TypeOK, Parts,
         \/ \E r \in Runs, n \in 1 .. Cardinality(Emails) : StartBegin(r, n)
         \/ StartCheckActive
         \/ StartQueryEmails
         \/ \E r \in Runs : StartReserveEnds(r) \/ StartSetReserved(r)
  PROVE  Parts'
<1>1. ASSUME NEW r \in Runs, NEW n \in 1 .. Cardinality(Emails), StartBegin(r, n)
      PROVE  Parts'
  <2>1. /\ serving /\ online /\ starter.pc = "idle" /\ db.run[r].status = "none"
        /\ db' = db /\ serving' = serving /\ online' = online /\ mem' = mem
        /\ plan' = plan /\ next' = next /\ event' = event /\ task' = task /\ worker' = worker
        /\ recovery' = recovery /\ stopper' = stopper
    BY <1>1 DEF StartBegin, Quietly, OnlyStarter, connection, memory
  <2>2. starter'.pc = "check" /\ starter'.run = r
    BY <1>1 DEF StartBegin, NoStarter
  <2>3. Unstarted(r)
    BY <2>1 DEF Parts, RunInv, Unwritten
  <2>4. StartedWell(r)'
    BY <2>1, <2>2 DEF StartedWell
  <2>5. Shrinks(db, db')
    BY <2>1 DEF Shrinks
  <2>6. starter.pc \notin Starting
    BY <2>1 DEF Starting
  <2>7. QED  BY <2>1, <2>2, <2>3, <2>4, <2>5, <2>6, StarterMoves
<1>2. CASE \/ StartCheckActive \/ StartQueryEmails
           \/ \E r \in Runs : StartReserveEnds(r) \/ StartSetReserved(r)
  <2>1. /\ starter.pc \in {"check", "query", "reserve", "setReserved"}
        /\ db' = db /\ serving' = serving /\ (online' => online) /\ mem' = mem
        /\ plan' = plan /\ next' = next /\ event' = event /\ task' = task /\ worker' = worker
        /\ recovery' = recovery /\ stopper' = stopper
    <3>1. Returns(db) \/ Raises(db) \/ Quietly
      BY <1>2 DEF StartCheckActive, StartQueryEmails, StartReserveEnds, StartSetReserved
    <3>2. serving' = serving /\ (online' => online) /\ db' = db
      BY <3>1 DEF Returns, Raises, Quietly, Fault, GoesOffline, connection
    <3>3. /\ starter.pc \in {"check", "query", "reserve", "setReserved"}
          /\ mem' = mem
          /\ plan' = plan /\ next' = next /\ event' = event /\ task' = task /\ worker' = worker
          /\ recovery' = recovery /\ stopper' = stopper
      BY <1>2 DEF StartCheckActive, StartQueryEmails, StartReserveEnds, StartSetReserved,
                  OnlyStarter, memory
    <3>4. QED  BY <3>2, <3>3
  <2>2. PICK r \in Runs : r = starter.run
    BY <2>1, AtStart
  <2>3. Unstarted(r) /\ StartedWell(r) /\ starter \in Starters
    BY <2>1, <2>2, AtStart
  <2>4. \/ starter'.pc = "idle" /\ starter.pc = "check"
        \/ /\ starter'.run = r
           /\ \/ starter.pc = "check" /\ starter'.pc = "create"
              \/ starter.pc = "query" /\ starter'.pc \in {"reserve", "abort"}
              \/ starter.pc = "reserve" /\ starter'.pc \in {"setReserved", "short"}
              \/ starter.pc = "setReserved" /\ starter'.pc \in {"save", "abort"}
    <3>1. StartReturns => starter'.pc = "idle"
      BY DEF StartReturns, NoStarter
    <3>2. \A pc : /\ StartGoto(pc) => starter'.pc = pc /\ starter'.run = r
                  /\ \A E : starter' = [starter EXCEPT !.pc = pc, !.candidates = E] =>
                             starter'.pc = pc /\ starter'.run = r
      BY <2>2, <2>3 DEF StartGoto, Starters
    <3>3. CASE StartCheckActive
      BY <3>1, <3>2, <3>3 DEF StartCheckActive
    <3>4. CASE StartQueryEmails
      BY <3>2, <3>4 DEF StartQueryEmails
    <3>5. ASSUME NEW q \in Runs, StartReserveEnds(q) PROVE starter.pc = "reserve" /\ starter'.run = r
                 /\ starter'.pc \in {"setReserved", "short"}
      BY <3>2, <3>5 DEF StartReserveEnds
    <3>6. ASSUME NEW q \in Runs, StartSetReserved(q) PROVE starter.pc = "setReserved" /\ starter'.run = r
                 /\ starter'.pc \in {"save", "abort"}
      BY <3>2, <3>6 DEF StartSetReserved
    <3>7. QED  BY <1>2, <3>3, <3>4, <3>5, <3>6
  <2>5. starter'.pc # "idle" => StartedWell(r)'
    BY <2>1, <2>3, <2>4 DEF StartedWell, Planned
  <2>6. Shrinks(db, db')
    BY <2>1 DEF Shrinks
  <2>7. starter'.pc \in Starting \/ starter.pc \notin Starting
    BY <2>4 DEF Starting
  <2>8. QED  BY <2>1, <2>2, <2>3, <2>5, <2>6, <2>7, StarterMoves
<1>3. QED  BY <1>1, <1>2

(* The insertion of the document.                                          *)
LEMMA StartInserts ==
  ASSUME TypeOK, Parts, NEW r \in Runs, StartCreate(r)
  PROVE  Parts'
<1>0. /\ starter.pc = "create" /\ starter.run = r
      /\ plan' = plan /\ next' = next /\ event' = event /\ task' = task /\ worker' = worker
      /\ recovery' = recovery /\ stopper' = stopper
  BY DEF StartCreate
<1>1. /\ Unstarted(r) /\ db.run[r].status = "none" /\ HeldBy(db, r) = {}
      /\ db \in Databases /\ mem \in [Runs -> States] /\ starter \in Starters
      /\ starter.pc \notin Starting
  BY <1>0, AtStart DEF StartedWell, Parts, RunInv, Unwritten, Starting
<1>2. /\ Shrinks(db, Created(db, r)) /\ Shrinks(db, db)
      /\ \A q \in Runs \ {r} : Created(db, r).run[q].status = db.run[q].status
      /\ Created(db, r).run[r].status = "queued"
      /\ HeldBy(Created(db, r), r) = {}
  BY <1>1 DEF Shrinks, Created, Databases, HeldBy
<1>3. /\ serving' = serving /\ (online' => online)
      /\ db' = db \/ db' = Created(db, r)
      /\ Raises(Created(db, r)) => ~online'
  <2>1. Returns(db) \/ Raises(db) \/ Raises(Created(db, r)) \/ Returns(Created(db, r))
    BY DEF StartCreate
  <2>2. QED  BY <2>1, StartOperation
<1>4. CASE StartReturns /\ mem' = mem
  <2>1. starter'.pc = "idle"
    BY <1>4 DEF StartReturns, NoStarter
  <2>2. db' = db \/ ~online'
    <3>1. Returns(db) \/ Raises(db) \/ Raises(Created(db, r)) \/ StartGoto("query")
      BY DEF StartCreate
    <3>2. ~StartGoto("query")
      BY <1>1, <2>1, GoesStarting
    <3>3. Returns(db) => db' = db
      BY StartOperation
    <3>4. Raises(db) \/ Raises(Created(db, r)) => ~online'
      BY StartOperation
    <3>5. QED  BY <3>1, <3>2, <3>3, <3>4
  <2>3. Shrinks(db, db') /\ \A q \in Runs \ {r} : db'.run[q].status = db.run[q].status
    BY <1>2, <1>3
  <2>4. db'.run[r].status = db.run[r].status \/ ~online'
    BY <2>2
  <2>5. db'.run[r].status = "none" => db.run[r].status = "none"
    BY <1>1
  <2>6. QED  BY <1>0, <1>1, <1>3, <1>4, <2>1, <2>3, <2>4, <2>5, StarterMoves
<1>5. CASE /\ db' = Created(db, r) /\ StartGoto("query")
           /\ mem' = [mem EXCEPT ![r] = [NoState EXCEPT !.status = "queued"]]
  <2>1. starter'.pc = "query" /\ starter'.run = r
    BY <1>0, <1>1, <1>5, GoesStarting
  <2>2. /\ \A q \in Runs \ {r} : mem'[q] = mem[q]
        /\ mem'[r].succeeded = mem[r].succeeded /\ mem'[r].failed = mem[r].failed
        /\ mem'[r].status # "completed"
    BY <1>1, <1>5 DEF NoState, Unstarted
  <2>3. StartedWell(r)' /\ starter'.pc \in Starting
    BY <1>2, <1>5, <2>1 DEF StartedWell, Starting
  <2>4. db'.run[r].status = "none" => db.run[r].status = "none"
    BY <1>1
  <2>5. QED  BY <1>0, <1>1, <1>2, <1>3, <1>5, <2>1, <2>2, <2>3, <2>4, StarterMoves
<1>6. QED
  BY <1>4, <1>5 DEF StartCreate, Returns

(* The steps that give back and close.                                     *)
LEMMA StartGivesUp ==
  ASSUME TypeOK, Parts, NEW r \in Runs,
         StartInsufficient(r) \/ StartAbort(r) \/ StartSaveFailed(r)
  PROVE  Parts'
<1>0. /\ starter.pc \in {"short", "abort", "saveFailed"} /\ starter.run = r
      /\ plan' = plan /\ next' = next /\ event' = event /\ task' = task /\ worker' = worker
      /\ recovery' = recovery /\ stopper' = stopper
  BY DEF StartInsufficient, StartAbort, StartSaveFailed, OnlyStarter, OnlyStarterAndMem, memory
<1>1. /\ Unstarted(r) /\ db.run[r].status # "none"
      /\ starter.pc = "saveFailed" => HeldBy(db, r) = {}
      /\ db \in Databases /\ mem \in [Runs -> States] /\ starter \in Starters
      /\ starter.pc # "idle"
  BY <1>0, AtStart DEF StartedWell
<1> DEFINE d == IF starter.pc = "saveFailed" THEN Saved(db, r, "failed", mem[r].cancel)
                ELSE Released(db, HeldBy(db, r))
<1>2. /\ Keeps(db, d) /\ Keeps(db, db)
      /\ \A q \in Runs \ {r} : d.run[q].status = db.run[q].status
      /\ HeldBy(d, r) = {}
      /\ starter.pc = "saveFailed" => d.run[r].status \notin Active
      /\ starter.pc # "saveFailed" => d.run = db.run
  <2>1. Keeps(db, db)
    BY DEF Keeps, Shrinks, SameDocs
  <2>2. CASE starter.pc = "saveFailed"
    <3>1. d = Saved(db, r, "failed", mem[r].cancel)
      BY <2>2
    <3>2. \A q \in Runs \ {r} : d.run[q].status = db.run[q].status
      BY <1>1, <3>1 DEF Saved, Databases
    <3> HIDE DEF d
    <3>3. QED  BY <1>1, <2>1, <2>2, <3>1, <3>2, SavedStatus DEF Terminal
  <2>3. CASE starter.pc # "saveFailed"
    <3>1. d = Released(db, HeldBy(db, r))
      BY <2>3
    <3> HIDE DEF d
    <3>2. HeldBy(d, r) = HeldBy(db, r) \ HeldBy(db, r)
      BY <1>1, <3>1, ReleasedAll
    <3>3. Keeps(db, d) /\ d.run = db.run
      BY <1>1, <3>1, NamesDistinct DEF Keeps, Shrinks, SameDocs, Released, HeldBy, Databases
    <3>4. QED  BY <2>1, <2>3, <3>2, <3>3
  <2>4. QED  BY <2>2, <2>3
<1>3. /\ Returns(d) \/ Raises(d) \/ (Quietly /\ ~online')
      /\ \/ mem' = mem
         \/ mem' = [mem EXCEPT ![r].status = "failed"]
      /\ \/ starter'.pc = "idle" /\ (Returns(d) => starter.pc = "saveFailed")
         \/ starter'.pc = "abort" /\ starter'.run = r
         \/ starter'.pc = "saveFailed" /\ starter'.run = r /\ Returns(d)
  <2>1. CASE StartInsufficient(r)
    <3>1. starter.pc = "short" /\ (Returns(d) \/ Raises(d)) /\ mem' = mem /\ StartGoto("abort")
      BY <2>1 DEF StartInsufficient, OnlyStarter, memory
    <3>2. QED  BY <1>0, <1>1, <3>1, GoesStarting
  <2>2. CASE StartAbort(r)
    <3>1. /\ starter.pc = "abort"
          /\ \/ ~online /\ Quietly /\ mem' = [mem EXCEPT ![r].status = "failed"] /\ StartReturns
             \/ /\ Returns(d)
                /\ mem' = [mem EXCEPT ![r].status = "failed"] /\ StartGoto("saveFailed")
             \/ online /\ Raises(d) /\ StartReturns /\ mem' = mem
      BY <2>2 DEF StartAbort
    <3>2. Quietly => online' = online
      BY DEF Quietly, connection
    <3>3. Returns(d) /\ Raises(d) => FALSE
      BY DEF Returns, Raises, Fault, GoesOffline, connection
    <3>4. ~online => ~Returns(d)
      BY DEF Returns
    <3> HIDE DEF d
    <3>5. StartGoto("saveFailed") => starter'.pc = "saveFailed" /\ starter'.run = r
      BY <1>0, <1>1, GoesStarting
    <3>6. StartReturns => starter'.pc = "idle"
      BY DEF StartReturns, NoStarter
    <3>7. QED  BY <3>1, <3>2, <3>3, <3>4, <3>5, <3>6
  <2>3. CASE StartSaveFailed(r)
    BY <2>3 DEF StartSaveFailed, OnlyStarter, memory, StartReturns, NoStarter
  <2>4. QED  BY <2>1, <2>2, <2>3
<1> HIDE DEF d
<1>4. /\ serving' = serving /\ (online' => online) /\ (db' = db \/ db' = d)
      /\ Returns(d) => db' = d
      /\ ~Returns(d) => ~online'
  BY <1>3, StartOperation
<1>5. Keeps(db, db') /\ \A q \in Runs \ {r} : db'.run[q].status = db.run[q].status
  BY <1>2, <1>4
<1>6. /\ \A q \in Runs \ {r} : mem'[q] = mem[q]
      /\ mem'[r].succeeded = mem[r].succeeded /\ mem'[r].failed = mem[r].failed
      /\ mem'[r].status = mem[r].status \/ mem'[r].status # "completed"
  BY <1>1, <1>3 DEF States
<1>7. Shrinks(db, db') /\ db'.run[r].status # "none"
  BY <1>1, <1>5 DEF Keeps, SameDocs
<1>8. starter'.pc # "idle" => StartedWell(r)'
  BY <1>2, <1>3, <1>4, <1>7 DEF StartedWell
<1>9. starter'.pc \in Starting \/ ~online' \/ ~Leaves(r)'
  BY <1>2, <1>3, <1>4 DEF Starting, Leaves
<1>10. QED
  BY <1>0, <1>1, <1>4, <1>5, <1>6, <1>7, <1>8, <1>9, StarterMoves

(* The reservation of an address.                                          *)
LEMMA StartReserves ==
  ASSUME TypeOK, Parts, NEW r \in Runs, NEW e \in Emails, StartReserve(r, e)
  PROVE  Parts'
<1>0. /\ starter.pc = "reserve" /\ starter.run = r /\ mem' = mem
      /\ next' = next /\ event' = event /\ task' = task /\ worker' = worker
      /\ recovery' = recovery /\ stopper' = stopper
  BY DEF StartReserve
<1>1. /\ Unstarted(r) /\ db.run[r].status # "none" /\ Planned(r)
      /\ db \in Databases /\ starter \in Starters /\ starter.pc # "idle"
      /\ (\A q \in Runs : RunInv(q)) /\ StopsAlone /\ Tended
      /\ plan \in [Runs -> Seq(Emails)]
  BY <1>0, AtStart DEF StartedWell, Parts, TypeOK, MemoryType
<1> DEFINE d == Reserved(db, e, r)
<1>2. /\ d.run = db.run /\ d.account = db.account
      /\ \A q \in Runs \ {r} : HeldBy(d, q) \subseteq HeldBy(db, q)
      /\ db.email[e] # "available" => d = db
      /\ HeldBy(d, r) \subseteq HeldBy(db, r) \cup {e}
  BY <1>1 DEF Reserved, HeldBy, Databases
<1>3. /\ serving' = serving /\ (online' => online) /\ (db' = db \/ db' = d)
      /\ \/ /\ db' = d /\ starter'.pc = "reserve" /\ starter'.run = r
            /\ plan' = IF db.email[e] = "available"
                       THEN [plan EXCEPT ![r] = Append(@, e)] ELSE plan
         \/ starter'.pc = "abort" /\ starter'.run = r /\ plan' = plan
  <2>1. CASE Raises(d) /\ StartGoto("abort") /\ plan' = plan
    <3>1. starter'.pc = "abort" /\ starter'.run = r
      BY <1>0, <1>1, <2>1, GoesStarting
    <3> HIDE DEF d
    <3>2. serving' = serving /\ ~online' /\ (db' = db \/ db' = d)
      BY <2>1, StartOperation
    <3>3. QED  BY <2>1, <3>1, <3>2
  <2>2. CASE /\ Returns(d)
             /\ plan' = IF db.email[e] = "available"
                        THEN [plan EXCEPT ![r] = Append(@, e)] ELSE plan
             /\ starter' = [starter EXCEPT !.candidates = @ \ {e}]
    <3>1. starter'.pc = "reserve" /\ starter'.run = r
      BY <1>0, <1>1, <2>2 DEF Starters
    <3> HIDE DEF d
    <3>2. serving' = serving /\ online' = online /\ db' = d
      BY <2>2, StartOperation
    <3>3. QED  BY <2>2, <3>1, <3>2
  <2>3. QED  BY <2>1, <2>2 DEF StartReserve
<1> HIDE DEF d
<1>4. /\ db'.run = db.run /\ db'.account = db.account
      /\ \A q \in Runs \ {r} : HeldBy(db', q) \subseteq HeldBy(db, q) /\ plan'[q] = plan[q]
  BY <1>1, <1>2, <1>3
<1>5. \A q \in Runs : RunInv(q)'
  <2>1. RunInv(r)'
    <3>1. /\ Unwritten(r)' /\ Exited(r)' /\ Working(r)' /\ Ending(r)' /\ Completing(r)'
      BY <1>0, <1>1, <1>4 DEF Unstarted, NoTask, RunInv, Unwritten, Exited, Working, Ending,
                              Settles, Completing
    <3>2. QED  BY <3>1 DEF RunInv
  <2>2. ASSUME NEW q \in Runs, q # r PROVE RunInv(q)'
    BY <1>0, <1>1, <1>4, <2>2, RunStays
  <2>3. QED  BY <2>1, <2>2
<1>6. StartsOne'
  <2>1. Unstarted(r)'
    BY <1>0, <1>1 DEF Unstarted
  <2>2. starter'.pc = "reserve" => Planned(r)'
    <3> SUFFICES ASSUME starter'.pc = "reserve" PROVE Planned(r)'
      OBVIOUS
    <3>1. CASE db.email[e] = "available"
      <4>1. plan[r] \in Seq(Emails) /\ plan'[r] = Append(plan[r], e)
        BY <1>1, <1>3, <3>1
      <4>2. /\ Len(plan'[r]) = Len(plan[r]) + 1 /\ Len(plan[r]) \in Nat
            /\ plan'[r][Len(plan[r]) + 1] = e
            /\ \A i \in 1 .. Len(plan[r]) : plan'[r][i] = plan[r][i]
        BY <4>1
      <4>3. \A i \in 1 .. Len(plan[r]) : i \in 1 .. Len(plan'[r])
        BY <4>2
      <4>4. Len(plan[r]) + 1 \in 1 .. Len(plan'[r])
        BY <4>2
      <4>5. HeldBy(db', r) \subseteq HeldBy(db, r) \cup {e}
        BY <1>2, <1>3
      <4>6. QED  BY <1>1, <4>2, <4>3, <4>4, <4>5 DEF Planned
    <3>2. CASE db.email[e] # "available"
      BY <1>1, <1>2, <1>3, <3>2 DEF Planned
    <3>3. QED  BY <3>1, <3>2
  <2>3. QED  BY <1>1, <1>3, <1>4, <2>1, <2>2 DEF StartsOne
<1>7. StopsAlone'
  BY <1>0, <1>1 DEF StopsAlone
<1>8. Tended'
  <2>1. starter'.run = r /\ starter'.pc \in Starting
    BY <1>3 DEF Starting
  <2>2. ASSUME NEW q \in Runs, q # r, Leaves(q)'
        PROVE  Leaves(q) /\ ~(starter.run = q /\ starter.pc \in Starting)
    BY <1>0, <1>4, <2>2 DEF Leaves
  <2>3. QED  BY <1>0, <1>1, <1>3, <1>4, <2>1, <2>2, TendedMoves
<1>9. QED  BY <1>5, <1>6, <1>7, <1>8 DEF Parts

(* The task is created.                                                    *)
LEMMA StartRuns ==
  ASSUME TypeOK, Parts, NEW r \in Runs, StartTask(r)
  PROVE  Parts'
<1> DEFINE d == Saved(db, r, "running", mem[r].cancel)
<1>0. /\ starter.pc = "save" /\ starter.run = r /\ starter'.pc = "idle"
      /\ mem' = [mem EXCEPT ![r].status = "running"]
      /\ plan' = plan /\ next' = next /\ recovery' = recovery /\ stopper' = stopper
  BY DEF StartTask, StartReturns, NoStarter
<1>1. /\ Unstarted(r) /\ db.run[r].status # "none" /\ Planned(r)
      /\ db \in Databases /\ starter.pc # "idle"
      /\ (\A q \in Runs : RunInv(q)) /\ StopsAlone /\ Tended
      /\ mem \in [Runs -> States] /\ task \in [Runs -> Tasks] /\ event \in [Runs -> BOOLEAN]
      /\ worker \in [Runs -> [Workers -> WorkerStates]] /\ plan \in [Runs -> Seq(Emails)]
  BY <1>0, AtStart DEF StartedWell, Parts, TypeOK, MemoryType, CoroutineType
<1>2. /\ Keeps(db, d) /\ Keeps(db, db) /\ \A q \in Runs \ {r} : d.run[q].status = db.run[q].status
  <2>1. "running" \in Statuses
    BY DEF Statuses, Active
  <2>2. Keeps(db, d)
    BY <1>1, <2>1, SavedKeeps
  <2>3. QED  BY <1>1, <2>2 DEF Saved, Databases, Keeps, Shrinks, SameDocs
<1>3. /\ \A q \in Runs \ {r} : mem'[q] = mem[q]
      /\ mem'[r].succeeded = mem[r].succeeded /\ mem'[r].failed = mem[r].failed
      /\ mem'[r].status = "running"
  BY <1>0, <1>1 DEF States
<1>4. CASE Raises(d) /\ UNCHANGED <<event, task, worker>>
  <2> HIDE DEF d
  <2>1. serving' = serving /\ ~online' /\ (db' = db \/ db' = d)
    BY <1>4, StartOperation
  <2>2. /\ Shrinks(db, db') /\ \A q \in Runs \ {r} : db'.run[q].status = db.run[q].status
        /\ db'.run[r].status = "none" => db.run[r].status = "none"
    BY <1>2, <2>1 DEF Keeps, SameDocs
  <2>3. QED  BY <1>0, <1>1, <1>3, <1>4, <2>1, <2>2, StarterMoves
<1>5. CASE /\ Returns(d)
           /\ event' = [event EXCEPT ![r] = FALSE]
           /\ task' = [task EXCEPT ![r].pc = "gather"]
           /\ worker' = [worker EXCEPT ![r] = [w \in Workers |-> [NoWorker EXCEPT !.pc = "take"]]]
  <2> HIDE DEF d
  <2>1. serving' = serving /\ online' = online /\ db' = d
    BY <1>5, StartOperation
  <2>2. /\ Keeps(db, db') /\ Shrinks(db, db') /\ db'.run[r].status # "none"
        /\ \A q \in Runs \ {r} : db'.run[q].status = db.run[q].status
    BY <1>1, <1>2, <2>1 DEF Keeps, SameDocs
  <2>3. /\ task'[r].pc = "gather" /\ task'[r].resume = "none" /\ ~task'[r].waiting
        /\ ~event'[r]
        /\ \A w \in Workers : worker'[r][w].pc = "take"
    BY <1>1, <1>5 DEF Unstarted, NoTask, NoWorker
  <2>4. ASSUME NEW q \in Runs, q # r
        PROVE  task'[q] = task[q] /\ event'[q] = event[q] /\ worker'[q] = worker[q]
    BY <1>1, <1>5, <2>4
  <2>5. RunInv(r)'
    <3>1. Finished(worker'[r], next'[r]) = {}
      BY <1>0, <1>1 DEF Finished, Unstarted
    <3>2. Gathering(r)'
      <4>1. InOrder(worker'[r], next'[r])
        BY <2>3 DEF InOrder, Handling
      <4>2. next'[r] \in 1 .. Len(plan'[r]) + 1
        <5>1. Len(plan[r]) \in Nat
          BY <1>1
        <5>2. QED  BY <1>0, <1>1, <5>1 DEF Unstarted
      <4>3. QED  BY <1>3, <2>3, <4>1, <4>2 DEF Gathering, Active, Calling
    <3>3. Unfinished(r)'
      BY <1>0, <1>1, <2>2, <3>1 DEF Unfinished, Planned, Shrinks
    <3>4. Counting(r)'
      <4>1. {i \in {} : ~ShouldFail(i)} = {} /\ {i \in {} : ShouldFail(i)} = {}
        OBVIOUS
      <4>2. Cardinality({}) = 0
        BY FS_EmptySet
      <4>3. Tallied(r, Finished(worker[r], next[r]))'
        BY <1>1, <1>3, <3>1, <4>1, <4>2 DEF Tallied, Unstarted
      <4>4. QED  BY <2>3, <4>3 DEF Counting
    <3>5. /\ Unwritten(r)' /\ Exited(r)' /\ Working(r)' /\ Ending(r)' /\ Completing(r)'
      BY <1>3, <2>2, <2>3, <3>2, <3>3, <3>4 DEF Unwritten, Exited, Working, Ending, Settles,
                                                Completing
    <3>6. QED  BY <3>5 DEF RunInv
  <2>6. ASSUME NEW q \in Runs, q # r PROVE RunInv(q)'
    <3>1. RunInv(q) /\ (db'.run[q].status = "none" => db.run[q].status = "none")
      BY <1>1, <2>2, <2>6
    <3>2. QED  BY <1>0, <1>3, <2>2, <2>4, <2>6, <3>1, RunFrame
  <2>7. StartsOne' /\ StopsAlone'
    BY <1>0, <1>1, <2>1 DEF StartsOne, StopsAlone
  <2>8. Tended'
    <3>1. ASSUME NEW q \in Runs, q # r, Leaves(q)'
          PROVE  Leaves(q) /\ ~(starter.run = q /\ starter.pc \in Starting)
      BY <1>0, <2>2, <3>1 DEF Leaves, Shrinks
    <3>2. QED  BY <1>0, <1>1, <2>1, <2>2, <2>3, <2>4, <3>1, TendedMoves
  <2>9. QED  BY <2>5, <2>6, <2>7, <2>8 DEF Parts
<1>6. QED  BY <1>4, <1>5 DEF StartTask

LEMMA StartParts ==
  ASSUME TypeOK, Parts, Start
  PROVE  Parts'
BY StartReads, StartInserts, StartGivesUp, StartReserves, StartRuns DEF Start

-----------------------------------------------------------------------------
(* Cancellation, recovery, shutdown and crash.                             *)

(* A step that touches no run.                                             *)
LEMMA OutsideMoves ==
  ASSUME Parts, Keeps(db, db'), plan' = plan, next' = next, task' = task, worker' = worker,
         starter' = starter, stopper' = stopper, stopper.pc # "idle" => serving' = serving,
         \A q \in Runs : /\ mem'[q].status = mem[q].status
                         /\ mem'[q].succeeded = mem[q].succeeded /\ mem'[q].failed = mem[q].failed
                         /\ task[q].pc = "gather" /\ event[q] => event'[q],
         Tended'
  PROVE  Parts'
<1>0. (\A q \in Runs : RunInv(q)) /\ StartsOne /\ StopsAlone
  BY DEF Parts
<1>1. ASSUME NEW q \in Runs PROVE RunInv(q)'
  <2>1. /\ RunInv(q) /\ Shrinks(db, db')
        /\ db'.run[q].status = "none" => db.run[q].status = "none"
    BY <1>0 DEF Keeps, SameDocs
  <2>2. QED  BY <2>1, RunFrame
<1>2. StartsOne'
  <2>1. ASSUME NEW q \in Runs, starter.pc # "idle", q = starter.run PROVE Unstarted(q)'
    BY <1>0, <2>1, UnstartedStays DEF StartsOne
  <2>2. QED  BY <1>0, <2>1, StarterFrame
<1>3. StopsAlone'
  BY <1>0 DEF StopsAlone
<1>4. QED  BY <1>1, <1>2, <1>3 DEF Parts

LEMMA CancelParts ==
  ASSUME TypeOK, Parts, NEW r \in Runs, CancelRequests(r) \/ CancelSignals(r)
  PROVE  Parts'
<1>0. /\ db \in Databases /\ mem \in [Runs -> States] /\ event \in [Runs -> BOOLEAN] /\ Tended
      /\ plan' = plan /\ next' = next /\ task' = task /\ worker' = worker
      /\ starter' = starter /\ stopper' = stopper /\ recovery' = recovery
  BY DEF TypeOK, MemoryType, Parts, CancelRequests, CancelSignals, memory
<1>1. CASE CancelRequests(r)
  <2> DEFINE d == CancelRequested(db, r)
  <2>1. Keeps(db, d) /\ \A q \in Runs : d.run[q].status = db.run[q].status
    <3>1. Keeps(db, d)
      BY <1>0, FlaggedKeeps
    <3>2. CASE db.run[r].status \in Active
      <4>1. d = [db EXCEPT !.run = [db.run EXCEPT ![r].cancel = TRUE]]
        BY <1>0, <3>2 DEF CancelRequested, Databases
      <4> HIDE DEF d
      <4>2. \A q \in Runs : d.run[q].status = db.run[q].status
        BY <1>0, <4>1 DEF Databases, Docs
      <4>3. QED  BY <3>1, <4>2
    <3>3. CASE db.run[r].status \notin Active
      BY <3>1, <3>3 DEF CancelRequested
    <3>4. QED  BY <3>2, <3>3
  <2> HIDE DEF d
  <2>2. Returns(d) \/ Raises(d)
    BY <1>1 DEF CancelRequests, d
  <2>3. serving' = serving /\ (online' => online) /\ (db' = db \/ db' = d)
    BY <2>2, StartOperation
  <2>4. Keeps(db, db') /\ \A q \in Runs : db'.run[q].status = db.run[q].status
    BY <2>1, <2>3 DEF Keeps, Shrinks, SameDocs
  <2>5. mem' = mem /\ event' = event
    BY <1>1 DEF CancelRequests, memory
  <2>6. Tended'
    BY <1>0, <2>3, <2>4, TendedFrame DEF Keeps
  <2>7. QED  BY <1>0, <2>3, <2>4, <2>5, <2>6, OutsideMoves
<1>2. CASE CancelSignals(r)
  <2>1. /\ db' = db /\ serving' = serving /\ online' = online
        /\ \/ mem' = mem /\ event' = event
           \/ /\ mem' = [mem EXCEPT ![r].cancel = TRUE]
              /\ event' = [event EXCEPT ![r] = task[r].pc # "none"]
    BY <1>2 DEF CancelSignals, Quietly, connection
  <2>2. \A q \in Runs : /\ mem'[q].status = mem[q].status
                        /\ mem'[q].succeeded = mem[q].succeeded
                        /\ mem'[q].failed = mem[q].failed
                        /\ task[q].pc = "gather" /\ event[q] => event'[q]
    BY <1>0, <2>1 DEF States
  <2>3. Keeps(db, db')
    BY <2>1 DEF Keeps, Shrinks, SameDocs
  <2>4. Tended'
    BY <1>0, <2>1, <2>3, TendedFrame DEF Keeps
  <2>5. QED  BY <1>0, <2>1, <2>2, <2>3, <2>4, OutsideMoves
<1>3. QED  BY <1>1, <1>2

(* What recovery does to the database.                                     *)
LEMMA RecoverKeeps ==
  ASSUME TypeOK, Recover
  PROVE  Keeps(db, db')
<1>0. /\ db \in Databases /\ Keeps(db, db)
      /\ \A r \in Runs, s \in Terminal : \A b : Keeps(db, Saved(db, r, s, b))
      /\ "interrupted" \in Terminal
  <2>1. db \in Databases
    BY DEF TypeOK
  <2>2. \A r \in Runs, s \in Terminal : \A b : Keeps(db, Saved(db, r, s, b))
    BY <2>1, SavedStatus
  <2>3. QED  BY <2>1, <2>2 DEF Keeps, Shrinks, SameDocs, Terminal
<1>1. CASE Probe \/ ProbeFails \/ RecoverSnapshots \/ ProbeSucceeds
  BY <1>0, <1>1 DEF Probe, ProbeFails, RecoverSnapshots, ProbeSucceeds, Quietly
<1>2. CASE RecoverScans
  BY <1>0, <1>2 DEF RecoverScans, Returns
<1>3. CASE RecoverReleasesOrphans
  <2>1. PICK E : db' = Released(db, E)
    BY <1>3 DEF RecoverReleasesOrphans, Returns
  <2>2. QED
    BY <1>0, <2>1, NamesDistinct DEF Keeps, Shrinks, SameDocs, Released, HeldBy, Databases
<1>4. CASE RecoverFails
  <2>1. db' = db \/ db' \in LostSaves
    BY <1>4 DEF RecoverFails, Fault
  <2>2. db' \in LostSaves => \E r \in Runs : db' = Saved(db, r, "interrupted", FALSE)
    BY DEF LostSaves
  <2>3. QED  BY <1>0, <2>1, <2>2
<1>5. ASSUME NEW r \in Runs, RecoverFlushes(r) \/ RecoverPicks(r) \/ RecoverInterrupts(r)
      PROVE  Keeps(db, db')
  <2>1. CASE RecoverFlushes(r)
    BY <1>0, <2>1 DEF RecoverFlushes, Quietly, Returns
  <2>2. CASE RecoverPicks(r)
    BY <1>0, <2>2 DEF RecoverPicks, Returns
  <2>3. CASE RecoverInterrupts(r)
    BY <1>0, <2>3 DEF RecoverInterrupts, Returns
  <2>4. QED  BY <1>5, <2>1, <2>2, <2>3
<1>6. ASSUME NEW r \in Runs, NEW e \in Emails, RecoverReconciles(r, e)
      PROVE  Keeps(db, db')
  <2>1. db' = Reconciled(db, e, r)
    BY <1>6 DEF RecoverReconciles, Returns
  <2>2. QED  BY <1>0, <2>1, PoolKeeps
<1>7. QED  BY <1>1, <1>2, <1>3, <1>4, <1>5, <1>6 DEF Recover

(* A recovery that goes on keeps the runs it still has to look at.         *)
LEMMA RecoveryGoesOn ==
  ASSUME Tended, starter' = starter, stopper' = stopper, task' = task, online' => online,
         Shrinks(db, db'),
         \A q \in Runs : db'.run[q].status \in Active => db.run[q].status \in Active,
         \A q \in Runs : Leaves(q)' /\ task[q].pc = "none" /\ ToBeRecovered(q) => ToBeRecovered(q)'
  PROVE  Tended'
<1> SUFFICES ASSUME online', stopper'.pc = "idle", NEW q \in Runs, Leaves(q)',
                    task'[q].pc = "none", ~(starter'.run = q /\ starter'.pc \in Starting)
             PROVE  ToBeRecovered(q)'
  BY DEF Tended
<1>1. Leaves(q)
  BY DEF Leaves, Shrinks
<1>2. ToBeRecovered(q)
  BY <1>1 DEF Tended
<1>3. QED  BY <1>2

LEMMA RecoverTends ==
  ASSUME TypeOK, Tended, Recover
  PROVE  Tended'
<1>0. /\ db \in Databases /\ recovery \in Recoveries /\ Shrinks(db, db')
      /\ starter' = starter /\ stopper' = stopper /\ task' = task
      /\ "interrupted" \in Terminal
  <2>1. starter' = starter /\ stopper' = stopper /\ task' = task
    BY DEF Recover, Probe, ProbeFails, RecoverSnapshots, RecoverScans, RecoverReleasesOrphans, ProbeSucceeds,
           RecoverFails, RecoverFlushes, RecoverPicks, RecoverInterrupts, RecoverReconciles,
           OnlyRecovery
  <2>2. QED  BY <2>1, RecoverKeeps DEF TypeOK, CoroutineType, Keeps, Terminal
<1>1. CASE Probe
  <2>1. recovery'.pc = "flush"
    BY <1>1 DEF Probe, NoRecovery
  <2>2. QED  BY <2>1 DEF Tended, ToBeRecovered
<1>2. CASE ProbeFails \/ RecoverFails
  BY <1>2 DEF ProbeFails, RecoverFails, Fault, GoesOffline, Tended
<1>3. CASE RecoverSnapshots
  <2>1. /\ recovery'.pc = "scan" /\ recovery'.local = LocalActive /\ db' = db /\ online' = online
    BY <1>0, <1>3 DEF RecoverSnapshots, Recoveries, Quietly, connection
  <2>2. \A q \in Runs : task[q].pc = "none" => ToBeRecovered(q)'
    BY <2>1 DEF ToBeRecovered, LocalActive
  <2>3. QED  BY <1>0, <2>1, <2>2, RecoveryGoesOn
<1>4. CASE RecoverScans
  <2>1. /\ recovery.pc = "scan" /\ recovery'.pc = "pick" /\ recovery'.local = recovery.local
        /\ recovery'.stale = ActiveDocs(db) \ recovery.local /\ db' = db /\ online' = online
    BY <1>0, <1>4 DEF RecoverScans, Recoveries, Returns, connection
  <2>2. \A q \in Runs : ToBeRecovered(q) => ToBeRecovered(q)'
    BY <2>1 DEF ToBeRecovered, ActiveDocs
  <2>3. QED  BY <1>0, <2>1, <2>2, RecoveryGoesOn
<1>5. CASE RecoverReleasesOrphans
  <2>1. /\ recovery.pc = "pick" /\ recovery.stale = {} /\ online' = online
        /\ db' = Released(db, {e \in ReservedEmails(db) : db.email[e] \notin recovery.local})
    BY <1>5 DEF RecoverReleasesOrphans, Returns, connection
  <2>2. db'.run = db.run
    BY <1>0, <2>1 DEF Released, Databases
  <2>3. \A q \in Runs : ToBeRecovered(q) => ~Leaves(q)'
    <3> SUFFICES ASSUME NEW q \in Runs, ToBeRecovered(q) PROVE ~Leaves(q)'
      OBVIOUS
    <3>1. q \notin recovery.local /\ db.run[q].status \notin Active
      BY <2>1 DEF ToBeRecovered
    <3>2. HeldBy(db', q) = {}
      <4>1. HeldBy(db', q) = HeldBy(db, q) \ {e \in ReservedEmails(db) : db.email[e] \notin recovery.local}
        BY <1>0, <2>1, ReleasedAll
      <4>2. HeldBy(db, q) \subseteq {e \in ReservedEmails(db) : db.email[e] \notin recovery.local}
        BY <3>1 DEF HeldBy, ReservedEmails
      <4>3. QED  BY <4>1, <4>2
    <3>3. QED  BY <2>2, <3>1, <3>2 DEF Leaves
  <2>4. QED  BY <1>0, <2>1, <2>2, <2>3, RecoveryGoesOn
<1>6. ASSUME NEW r \in Runs, RecoverFlushes(r) PROVE Tended'
  <2>1. recovery'.pc = "flush"
    BY <1>0, <1>6 DEF RecoverFlushes, Recoveries
  <2>2. QED  BY <2>1 DEF Tended, ToBeRecovered
<1>7. ASSUME NEW r \in Runs, RecoverPicks(r) PROVE Tended'
  <2>1. /\ recovery.pc = "pick" /\ recovery'.pc = "reconcile" /\ recovery'.local = recovery.local
        /\ recovery'.stale = recovery.stale /\ db' = db /\ online' = online
    BY <1>0, <1>7 DEF RecoverPicks, Recoveries, Returns, connection
  <2>2. \A q \in Runs : ToBeRecovered(q) => ToBeRecovered(q)'
    BY <2>1 DEF ToBeRecovered
  <2>3. QED  BY <1>0, <2>1, <2>2, RecoveryGoesOn
<1>8. ASSUME NEW r \in Runs, RecoverInterrupts(r) PROVE Tended'
  <2>1. /\ recovery.pc = "reconcile" /\ recovery'.pc = "pick" /\ recovery'.local = recovery.local
        /\ recovery'.stale = recovery.stale \ {r} /\ online' = online
        /\ db' = Saved(db, r, "interrupted", FALSE)
    BY <1>0, <1>8 DEF RecoverInterrupts, Recoveries, Returns, connection
  <2>2. /\ db'.run[r].status \notin Active
        /\ \A q \in Runs : db'.run[q].status \in Active => db.run[q].status \in Active
    BY <1>0, <2>1, SavedStatus
  <2>3. \A q \in Runs : ToBeRecovered(q) => ToBeRecovered(q)'
    BY <2>1, <2>2 DEF ToBeRecovered
  <2>4. QED  BY <1>0, <2>1, <2>2, <2>3, RecoveryGoesOn
<1>9. ASSUME NEW r \in Runs, NEW e \in Emails, RecoverReconciles(r, e) PROVE Tended'
  <2>1. /\ recovery'.pc = recovery.pc /\ recovery'.local = recovery.local
        /\ recovery'.stale = recovery.stale /\ online' = online
        /\ db' = Reconciled(db, e, r)
    BY <1>0, <1>9 DEF RecoverReconciles, Recoveries, Returns, connection
  <2>2. db'.run = db.run
    BY <1>0, <2>1 DEF Reconciled, Consumed, Released, Databases
  <2>3. \A q \in Runs : ToBeRecovered(q) => ToBeRecovered(q)'
    BY <2>1, <2>2 DEF ToBeRecovered
  <2>4. QED  BY <1>0, <2>1, <2>2, <2>3, RecoveryGoesOn
<1>10. CASE ProbeSucceeds
  <2>1. recovery.pc = "indexes" /\ db' = db /\ online' = online
    BY <1>10 DEF ProbeSucceeds
  <2>2. \A q \in Runs : ~ToBeRecovered(q)
    BY <2>1 DEF ToBeRecovered
  <2>3. QED  BY <1>0, <2>1, <2>2, RecoveryGoesOn
<1>11. QED
  BY <1>1, <1>2, <1>3, <1>4, <1>5, <1>6, <1>7, <1>8, <1>9, <1>10 DEF Recover

LEMMA RecoverParts ==
  ASSUME TypeOK, Parts, Recover
  PROVE  Parts'
<1>1. /\ plan' = plan /\ next' = next /\ task' = task /\ worker' = worker
      /\ starter' = starter /\ stopper' = stopper /\ mem' = mem /\ event' = event
      /\ serving' = serving \/ serving' = (serving \/ stopper.pc = "idle")
  BY DEF Recover, Probe, ProbeFails, RecoverSnapshots, RecoverScans, RecoverReleasesOrphans, ProbeSucceeds,
         RecoverFails, RecoverFlushes, RecoverPicks, RecoverInterrupts, RecoverReconciles,
         OnlyRecovery, memory, Returns, Quietly, connection
<1>2. Keeps(db, db') /\ Tended'
  BY RecoverKeeps, RecoverTends DEF Parts
<1>3. stopper.pc # "idle" => serving' = serving
  <2>1. serving \in BOOLEAN
    BY DEF TypeOK, ConnectionType
  <2>2. CASE serving' = serving
    BY <2>2
  <2>3. CASE serving' = (serving \/ stopper.pc = "idle")
    BY <2>1, <2>3
  <2>4. QED  BY <1>1, <2>2, <2>3
<1>4. QED  BY <1>1, <1>2, <1>3, OutsideMoves

LEMMA NewProcessParts ==
  ASSUME Parts, NewProcess, db' = db
  PROVE  Parts'
<1>1. ASSUME NEW r \in Runs PROVE RunInv(r)'
  <2>1. /\ task'[r] = NoTask /\ next'[r] = 1 /\ plan'[r] = <<>> /\ mem'[r] = NoState
        /\ \A w \in Workers : worker'[r][w].pc = "exit"
    BY DEF NewProcess, AllIdle, NoWorker
  <2>2. db.run[r].status = "none" => HeldBy(db, r) = {}
    BY DEF Parts, RunInv, Unwritten
  <2>3. Unstarted(r)'
    BY <2>1 DEF Unstarted, NoState
  <2>4. QED
    BY <2>1, <2>2, <2>3 DEF RunInv, Unwritten, Exited, Working, Ending, Settles, Completing,
                            NoTask, NoState
<1>2. StartsOne' /\ StopsAlone' /\ Tended'
  BY DEF NewProcess, NoStarter, NoStopper, StartsOne, StopsAlone, Tended
<1>3. QED  BY <1>1, <1>2 DEF Parts

LEMMA ShutdownParts ==
  ASSUME TypeOK, Parts, Shutdown
  PROVE  Parts'
<1>0. /\ db \in Databases /\ mem \in [Runs -> States] /\ stopper \in Stoppers
      /\ task \in [Runs -> Tasks] /\ event \in [Runs -> BOOLEAN]
      /\ worker \in [Runs -> [Workers -> WorkerStates]]
      /\ (\A q \in Runs : RunInv(q)) /\ StartsOne /\ StopsAlone
  BY DEF TypeOK, MemoryType, CoroutineType, Parts
<1>1. CASE ShutdownExits
  BY <1>1, NewProcessParts DEF ShutdownExits
<1>2. ASSUME NEW r \in Runs, ShutdownCancelsTask(r) PROVE Parts'
  <2>1. /\ db' = db /\ mem' = mem /\ plan' = plan /\ next' = next /\ starter' = starter
        /\ ~serving' /\ task' = [task EXCEPT ![r] = NoTask] /\ event' = [event EXCEPT ![r] = FALSE]
        /\ worker' = [worker EXCEPT ![r] = [w \in Workers |-> NoWorker]]
        /\ stopper'.run = r /\ stopper'.pc # "idle" /\ task[r].pc # "none"
    BY <1>2 DEF ShutdownCancelsTask, NoStopper
  <2>2. starter.pc = "idle"
    BY <1>0, <1>2 DEF ShutdownCancelsTask, StopsAlone
  <2>3. task'[r] = NoTask /\ \A w \in Workers : worker'[r][w].pc = "exit"
    BY <1>0, <2>1 DEF NoWorker
  <2>4. RunInv(r)'
    <3>1. db.run[r].status # "none" /\ Completing(r)
      BY <1>0, <2>1, TaskAtWork DEF RunInv
    <3>2. Completing(r)'
      BY <2>1, <2>3, <3>1 DEF Completing, Tallied, NoTask
    <3>3. QED
      BY <2>1, <2>3, <3>1, <3>2 DEF RunInv, Unwritten, Exited, Working, Ending, Settles, NoTask
  <2>5. ASSUME NEW q \in Runs, q # r PROVE RunInv(q)'
    <3>1. task'[q] = task[q] /\ event'[q] = event[q] /\ worker'[q] = worker[q]
      BY <1>0, <2>1, <2>5
    <3>2. Shrinks(db, db')
      BY <2>1 DEF Shrinks
    <3>3. QED  BY <1>0, <2>1, <3>1, <3>2, RunFrame
  <2>6. StartsOne' /\ StopsAlone' /\ Tended'
    BY <2>1, <2>2, <2>3 DEF StartsOne, StopsAlone, Tended, NoTask
  <2>7. QED  BY <2>4, <2>5, <2>6 DEF Parts
<1>3. ASSUME NEW r \in Runs,
             \/ ShutdownFinds(r) \/ ShutdownSaves(r)
             \/ \E e \in Emails : ShutdownReconciles(r, e)
      PROVE  Parts'
  <2>1. /\ stopper.pc # "idle" /\ stopper.run = r /\ plan' = plan /\ next' = next /\ event' = event
        /\ task' = task /\ worker' = worker /\ starter' = starter
        /\ mem' = mem \/ mem' = Interrupted(r)
    BY <1>3 DEF ShutdownFinds, ShutdownSaves, ShutdownReconciles, OnlyStopper
  <2>2. stopper'.pc # "idle" /\ stopper'.run = r
    <3>1. \/ \E pc \in {"next", "exit"} : StopGoto(pc)
          \/ stopper' = [stopper EXCEPT !.pc = "reconcile", !.held = HeldBy(db, r)]
          \/ \E e \in Emails : stopper' = [stopper EXCEPT !.held = @ \ {e}]
      BY <1>3 DEF ShutdownFinds, ShutdownSaves, ShutdownReconciles
    <3>2. ASSUME NEW pc \in {"next", "exit"}, StopGoto(pc)
          PROVE  stopper'.pc # "idle" /\ stopper'.run = r
      BY <1>0, <2>1, <3>2 DEF Stoppers, StopGoto
    <3>3. CASE stopper' = [stopper EXCEPT !.pc = "reconcile", !.held = HeldBy(db, r)]
      <4> DEFINE H == HeldBy(db, r)
      <4>1. stopper' = [stopper EXCEPT !.pc = "reconcile", !.held = H]
        BY <3>3
      <4> HIDE DEF H
      <4>2. QED  BY <1>0, <2>1, <4>1 DEF Stoppers
    <3>4. ASSUME NEW e \in Emails, stopper' = [stopper EXCEPT !.held = @ \ {e}]
          PROVE  stopper'.pc # "idle" /\ stopper'.run = r
      BY <1>0, <2>1, <3>4 DEF Stoppers
    <3>5. QED  BY <3>1, <3>2, <3>3, <3>4
  <2>3. Keeps(db, db') /\ serving' = serving
    <3>1. Keeps(db, db)
      BY DEF Keeps, Shrinks, SameDocs
    <3>2. CASE ShutdownFinds(r)
      <4>1. Quietly \/ Returns(db) \/ Raises(db)
        BY <3>2 DEF ShutdownFinds
      <4>2. db' = db /\ serving' = serving
        BY <4>1 DEF Returns, Raises, Quietly, Fault, GoesOffline, connection
      <4>3. QED  BY <3>1, <4>2
    <3>3. CASE ShutdownSaves(r)
      <4> DEFINE d == Saved(db, r, "interrupted", FALSE)
      <4>1. Returns(d) \/ Raises(d)
        BY <3>3 DEF ShutdownSaves
      <4>2. Keeps(db, d)
        BY <1>0, SavedStatus DEF Terminal
      <4> HIDE DEF d
      <4>3. serving' = serving /\ (db' = db \/ db' = d)
        BY <4>1, StartOperation
      <4>4. QED  BY <3>1, <4>2, <4>3
    <3>4. ASSUME NEW e \in Emails, ShutdownReconciles(r, e) PROVE Keeps(db, db') /\ serving' = serving
      <4> DEFINE d == Reconciled(db, e, r)
      <4>1. Returns(d) \/ Raises(d)
        BY <3>4 DEF ShutdownReconciles
      <4>2. Keeps(db, d)
        BY <1>0, PoolKeeps
      <4> HIDE DEF d
      <4>3. serving' = serving /\ (db' = db \/ db' = d)
        BY <4>1, StartOperation
      <4>4. QED  BY <3>1, <4>2, <4>3
    <3>5. QED  BY <1>3, <3>2, <3>3, <3>4
  <2>4. ~serving /\ starter.pc = "idle" /\ task[r].pc = "none"
    BY <1>0, <2>1 DEF StopsAlone
  <2>5. \A q \in Runs : /\ mem'[q].succeeded = mem[q].succeeded /\ mem'[q].failed = mem[q].failed
                        /\ \/ mem'[q].status = mem[q].status
                           \/ task[q].pc = "none" /\ mem'[q].status # "completed"
    BY <1>0, <2>1, <2>4 DEF Interrupted, States
  <2>6. ASSUME NEW q \in Runs PROVE RunInv(q)'
    <3>1. Shrinks(db, db') /\ (db'.run[q].status = "none" => db.run[q].status = "none")
      BY <2>3 DEF Keeps, SameDocs
    <3>2. QED  BY <1>0, <2>1, <2>5, <3>1, RunFrame
  <2>7. StartsOne' /\ StopsAlone' /\ Tended'
    BY <2>1, <2>2, <2>3, <2>4 DEF StartsOne, StopsAlone, Tended
  <2>8. QED  BY <2>6, <2>7 DEF Parts
<1>4. QED  BY <1>1, <1>2, <1>3 DEF Shutdown

LEMMA PartsNext ==
  ASSUME IInv, Parts, [Next]_vars
  PROVE  Parts'
<1>0. TypeOK
  BY DEF IInv
<1>1. CASE UNCHANGED vars
  <2>1. Keeps(db, db') /\ Tended'
    <3>1. UNCHANGED <<db, online, task, starter, stopper, recovery>>
      BY <1>1 DEF vars, connection
    <3>2. QED  BY <3>1 DEF Keeps, Shrinks, SameDocs, Parts, Tended, Leaves, ToBeRecovered
  <2>2. QED  BY <1>1, <2>1, OutsideMoves DEF vars, connection, memory
<1>2. CASE Crash
  BY <1>2, NewProcessParts DEF Crash
<1>3. QED
  BY <1>0, <1>1, <1>2, StartParts, WorkParts, ExecuteParts, CancelParts, RecoverParts,
     ShutdownParts DEF Next

LEMMA PartsInit == Init => Parts
<1> SUFFICES ASSUME Init PROVE Parts
  OBVIOUS
<1>1. ASSUME NEW r \in Runs PROVE RunInv(r)
  <2>1. /\ task[r] = NoTask /\ next[r] = 1 /\ plan[r] = <<>> /\ mem[r] = NoState
        /\ \A w \in Workers : worker[r][w].pc = "exit"
    BY DEF Init, AllIdle, NoWorker
  <2>2. HeldBy(db, r) = {}
    BY NamesDistinct DEF Init, EmptyDatabase, HeldBy
  <2>3. QED
    BY <2>1, <2>2 DEF RunInv, Unwritten, Unstarted, Exited, Working, Ending, Settles,
                      Completing, NoTask, NoState
<1>2. StartsOne /\ StopsAlone /\ Tended
  BY DEF Init, NoStarter, NoStopper, StartsOne, StopsAlone, Tended
<1>3. QED  BY <1>1, <1>2 DEF Parts

LEMMA PartsInvariant == Spec => [](IInv /\ Parts)
<1>1. Init => Parts
  BY PartsInit
<1>2. IInv /\ IInv' /\ Parts /\ [Next]_vars => Parts'
  BY PartsNext
<1>3. QED  BY <1>1, <1>2, InductiveInvariant, PTL DEF Spec

(* A completed run has counted every one of its addresses, and each        *)
(* success it counted has its account.                                     *)
THEOREM CompletedRunsAreAccounted == Spec => []CompletedIsAccounted
<1>1. IInv /\ Parts => CompletedIsAccounted
  <2> SUFFICES ASSUME IInv, Parts, NEW r \in Runs, mem[r].status = "completed"
               PROVE  /\ mem[r].succeeded = Cardinality(Successes(r))
                      /\ mem[r].succeeded + mem[r].failed = Len(plan[r])
                      /\ \A i \in Successes(r) : plan[r][i] \in db.account
    BY DEF CompletedIsAccounted
  <2>1. Tallied(r, 1 .. Len(plan[r]))
    BY DEF Parts, RunInv, Completing
  <2>2. Len(plan[r]) \in Nat
    BY DEF IInv, TypeOK, MemoryType
  <2> DEFINE F == {i \in 1 .. Len(plan[r]) : ShouldFail(i)}
             S == {i \in 1 .. Len(plan[r]) : ~ShouldFail(i)}
  <2>3. F \cup S = 1 .. Len(plan[r]) /\ F \cap S = {} /\ S = Successes(r)
    BY DEF Successes
  <2>4. mem[r].succeeded = Cardinality(S) /\ mem[r].failed = Cardinality(F)
    BY <2>1 DEF Tallied
  <2>5. \A i \in S : plan[r][i] \in db.account
    BY <2>1 DEF Tallied
  <2> HIDE DEF F, S
  <2>6. Cardinality(S) + Cardinality(F) = Len(plan[r])
    BY <2>2, <2>3, CountsAll
  <2>7. QED  BY <2>3, <2>4, <2>5, <2>6
<1>2. QED  BY <1>1, PartsInvariant, PTL

(* When nothing is under way and the database is reachable, no reservation *)
(* and no active document is left, whichever calls failed on the way.      *)
THEOREM NothingIsLeftBehind == Spec => []NothingLeftBehind
<1>1. Parts => NothingLeftBehind
  <2> SUFFICES ASSUME Parts, Quiescent PROVE ReservedEmails(db) = {} /\ ActiveDocs(db) = {}
    BY DEF NothingLeftBehind
  <2>1. ASSUME NEW r \in Runs PROVE ~Leaves(r)
    <3>1. starter.pc \notin Starting /\ task[r].pc = "none" /\ ~ToBeRecovered(r)
      BY DEF Quiescent, LocalActive, Starting, ToBeRecovered
    <3>2. QED  BY <3>1 DEF Quiescent, Parts, Tended
  <2>2. QED  BY <2>1 DEF Leaves, ReservedEmails, ActiveDocs, HeldBy
<1>2. QED  BY <1>1, PartsInvariant, PTL

-----------------------------------------------------------------------------
(* The third layer, until an operation fails: who works while the database *)
(* is online and when requests are served, ...                             *)
Calm ==
  /\ ~online => /\ ~serving /\ stopper.pc = "idle" /\ recovery.pc = "idle"
                /\ Listed = {}
  /\ recovery.pc # "idle" => ~serving /\ stopper.pc = "idle"
  /\ recovery.pc = "flush" => Listed = {} /\ recovery.seen = {} /\ recovery.todo = {}
  /\ ~serving => starter.pc = "idle"
  /\ ~serving /\ stopper.pc = "idle" => \A r \in Runs : task[r].pc = "none"
  /\ stopper.pc # "idle" => ~serving

(* ... that a run is active as long as somebody is about to write it, ...  *)
Owned(r) ==
  \/ starter.run = r /\ starter.pc \in Starting
  \/ task[r].pc # "none"
  \/ stopper.run = r /\ stopper.pc \in {"find", "reconcile"}
  \/ recovery.pc \in {"pick", "reconcile"} /\ r \in recovery.stale
StillActive ==
  /\ \A r \in Runs : Owned(r) => db.run[r].status \in Active
  /\ recovery.pc = "reconcile" => recovery.run \in recovery.stale

(* ... and that the key is held by the one active run.                     *)
OneActive ==
  /\ \A r \in Runs : db.run[r].key <=> db.run[r].status \in Active
  /\ \A r, s \in ActiveDocs(db) : r = s

Orderly == Calm /\ StillActive /\ OneActive
Undisturbed == faults = 0 => Orderly

(* What an operation may do to the runs: nothing, or write an active one,  *)
(* or open one when none is active.                                        *)
SameRuns(d, c) == \A q \in Runs : /\ c.run[q].status = d.run[q].status
                                  /\ c.run[q].key = d.run[q].key
Writes(d, c, r, s) == /\ c.run[r].status = s /\ (c.run[r].key <=> s \in Active)
                      /\ \A q \in Runs \ {r} : /\ c.run[q].status = d.run[q].status
                                               /\ c.run[q].key = d.run[q].key
Opens(d, c, r) == /\ d.run[r].status = "none" /\ ActiveDocs(d) = {}
                  /\ Writes(d, c, r, "queued")
Rewrites(d, c, r) == /\ d.run[r].status \in Active
                     /\ \E s \in Statuses : Writes(d, c, r, s)
Books(d, c) == \/ SameRuns(d, c)
               \/ \E r \in Runs : Opens(d, c, r) \/ Rewrites(d, c, r)

LEMMA BooksKeepOne ==
  ASSUME OneActive, Books(db, db')
  PROVE  OneActive'
<1>1. CASE SameRuns(db, db')
  BY <1>1 DEF SameRuns, OneActive, ActiveDocs
<1>2. ASSUME NEW r \in Runs, Opens(db, db', r) PROVE OneActive'
  <2>1. \A q \in Runs : db.run[q].status \notin Active
    BY <1>2 DEF Opens, ActiveDocs
  <2>2. QED
    BY <1>2, <2>1 DEF Opens, Writes, OneActive, ActiveDocs
<1>3. ASSUME NEW r \in Runs, Rewrites(db, db', r) PROVE OneActive'
  <2>1. r \in ActiveDocs(db)
    BY <1>3 DEF Rewrites, ActiveDocs
  <2>2. PICK s \in Statuses : Writes(db, db', r, s)
    BY <1>3 DEF Rewrites
  <2>3. \A q \in Runs : q # r => db.run[q].status \notin Active
    BY <2>1 DEF OneActive, ActiveDocs
  <2>4. QED
    BY <2>2, <2>3 DEF Writes, OneActive, ActiveDocs
<1>4. QED  BY <1>1, <1>2, <1>3 DEF Books

LEMMA BooksAreALedger ==
  ASSUME db \in Databases, Books(db, db')
  PROVE  [Ledger!Next]_Outcome
<1>1. CASE SameRuns(db, db')
  BY <1>1 DEF SameRuns, Outcome
<1>2. ASSUME NEW r \in Runs, Opens(db, db', r) PROVE Ledger!Open(r)
  <2>1. \A q \in Runs : db.run[q].status \notin Active
    BY <1>2 DEF Opens, ActiveDocs
  <2>2. "active" \notin Statuses \cup {"none"} /\ "none" \notin Active /\ "queued" \in Active
    BY DEF Statuses, Active, Terminal
  <2>3. \A q \in Runs : db.run[q].status \in Statuses \cup {"none"}
    BY DEF Databases, Docs
  <2>4. Outcome[r] = "none" /\ \A q \in Runs : Outcome[q] # "active"
    BY <1>2, <2>1, <2>2, <2>3 DEF Opens, Outcome
  <2>5. Outcome' = [Outcome EXCEPT ![r] = "active"]
    BY <1>2, <2>2 DEF Opens, Writes, Outcome
  <2>6. QED  BY <2>4, <2>5 DEF Ledger!Open
<1>3. ASSUME NEW r \in Runs, Rewrites(db, db', r) PROVE [Ledger!Next]_Outcome
  <2>1. PICK s \in Statuses : Writes(db, db', r, s)
    BY <1>3 DEF Rewrites
  <2>2. Outcome[r] = "active"
    BY <1>3 DEF Rewrites, Outcome
  <2>3. CASE s \in Active
    <3>1. Outcome' = Outcome
      BY <1>3, <2>1, <2>3 DEF Rewrites, Writes, Outcome
    <3>2. QED  BY <3>1
  <2>4. CASE s \notin Active
    <3>1. s \in {"completed", "failed", "cancelled", "interrupted"}
      BY <2>4 DEF Statuses, Terminal
    <3>2. Outcome' = [Outcome EXCEPT ![r] = s]
      BY <2>1, <2>4 DEF Writes, Outcome
    <3>3. QED  BY <2>2, <3>1, <3>2 DEF Ledger!Next, Ledger!Close
  <2>5. QED  BY <2>3, <2>4
<1>4. QED  BY <1>1, <1>2, <1>3 DEF Books, Ledger!Next

(* The operations of RunDatabase.                                          *)
LEMMA SaveRewrites ==
  ASSUME NEW d \in Databases, NEW r \in Runs, NEW s \in Statuses, NEW b,
         d.run[r].status \in Active, d.run[r].key
  PROVE  Writes(d, Saved(d, r, s, b), r, s) /\ Books(d, Saved(d, r, s, b))
<1>1. d.run[r].status # "none" /\ (s \notin Terminal <=> s \in Active)
  BY DEF Active, Terminal, Statuses
<1> DEFINE k == d.run[r].key /\ s \notin Terminal
<1>2. Saved(d, r, s, b).run = [d.run EXCEPT ![r] = [status |-> s, key |-> k, cancel |-> b]]
  BY <1>1 DEF Saved, Databases
<1>3. k <=> s \in Active
  BY <1>1
<1> HIDE DEF k
<1>4. Writes(d, Saved(d, r, s, b), r, s)
  <2>1. /\ Saved(d, r, s, b).run[r] = [status |-> s, key |-> k, cancel |-> b]
        /\ \A q \in Runs \ {r} : Saved(d, r, s, b).run[q] = d.run[q]
    BY <1>2 DEF Databases
  <2>2. Saved(d, r, s, b).run[r].status = s /\ Saved(d, r, s, b).run[r].key = k
    BY <2>1
  <2>3. QED  BY <1>3, <2>1, <2>2 DEF Writes
<1>5. QED  BY <1>4 DEF Books, Rewrites

LEMMA CreateOpens ==
  ASSUME NEW d \in Databases, NEW r \in Runs, d.run[r].status = "none", ActiveDocs(d) = {}
  PROVE  Writes(d, Created(d, r), r, "queued") /\ Books(d, Created(d, r))
<1>1. "queued" \in Active
  BY DEF Active
<1>2. Writes(d, Created(d, r), r, "queued")
  BY <1>1 DEF Writes, Created, Databases
<1>3. QED  BY <1>2 DEF Books, Opens

LEMMA PoolOperations ==
  ASSUME NEW d \in Databases, NEW e, NEW r, NEW E
  PROVE  /\ SameRuns(d, Reserved(d, e, r)) /\ SameRuns(d, Released(d, E))
         /\ SameRuns(d, Registered(d, e)) /\ SameRuns(d, Consumed(d, e, r))
         /\ SameRuns(d, Reconciled(d, e, r)) /\ SameRuns(d, d)
<1>1. /\ Reserved(d, e, r).run = d.run /\ Released(d, E).run = d.run
      /\ Registered(d, e).run = d.run /\ Consumed(d, e, r).run = d.run
      /\ Released(d, {e}).run = d.run
  BY DEF Reserved, Released, Registered, Consumed, Databases
<1>2. Reconciled(d, e, r).run = d.run
  BY <1>1 DEF Reconciled
<1>3. QED  BY <1>1, <1>2 DEF SameRuns

LEMMA FlagLeavesRuns ==
  ASSUME NEW d \in Databases, NEW r \in Runs
  PROVE  SameRuns(d, CancelRequested(d, r))
<1>1. CASE d.run[r].status \in Active
  <2>1. CancelRequested(d, r).run = [d.run EXCEPT ![r].cancel = TRUE]
    BY <1>1 DEF CancelRequested, Databases
  <2>2. QED  BY <2>1 DEF SameRuns, Databases, Docs
<1>2. CASE d.run[r].status \notin Active
  BY <1>2 DEF CancelRequested, SameRuns
<1>3. QED  BY <1>1, <1>2

(* While requests are served, or the process is being ended.               *)
LEMMA CalmOnline ==
  ASSUME online', recovery'.pc = "idle", serving' <=> stopper'.pc = "idle",
         ~serving' => starter'.pc = "idle"
  PROVE  Calm'
BY DEF Calm

LEMMA CalmSame ==
  ASSUME Calm,
         UNCHANGED <<online, serving, listed, task, starter, stopper, recovery>>
  PROVE  Calm'
BY DEF Calm, Listed

(* Nobody new is about to write a run, or the run is active.               *)
LEMMA OwnersStay ==
  ASSUME StillActive,
         \A q \in Runs : Owned(q)' => \/ Owned(q) /\ db'.run[q].status = db.run[q].status
                                      \/ db'.run[q].status \in Active,
         recovery' = recovery
  PROVE  StillActive'
BY DEF StillActive

LEMMA NobodyOwns ==
  ASSUME starter'.pc = "idle", stopper'.pc = "idle", recovery'.pc = "idle",
         \A q \in Runs : task'[q].pc = "none"
  PROVE  StillActive'
BY DEF StillActive, Owned, Starting

-----------------------------------------------------------------------------
Kept == Books(db, db') /\ Calm' /\ StillActive'

(* No operation fails, and none is tried while the database is offline.    *)
LEMMA NothingRaises ==
  ASSUME faults \in Nat, faults' = 0, online, NEW d
  PROVE  ~Raises(d)
BY DEF Raises, Fault

(* A step of somebody who owns a run, while requests are served or the     *)
(* process is being ended.                                                 *)
LEMMA WhileServing ==
  ASSUME Calm, serving \/ stopper.pc # "idle"
  PROVE  online /\ recovery.pc = "idle" /\ (serving <=> stopper.pc = "idle")
<1>1. recovery.pc = "idle"
  BY DEF Calm
<1>2. online
  BY DEF Calm
<1>3. serving <=> stopper.pc = "idle"
  BY DEF Calm
<1>4. QED  BY <1>1, <1>2, <1>3

LEMMA StartKept ==
  ASSUME TypeOK, Parts, Orderly, Start, faults' = 0
  PROVE  Kept
<1>0. /\ faults \in Nat /\ db \in Databases /\ starter \in Starters
      /\ Calm /\ StillActive /\ OneActive /\ StartsOne /\ StopsAlone
  BY DEF TypeOK, ConnectionType, CoroutineType, Orderly, Parts
<1>1. serving /\ online
  <2>1. serving
    BY <1>0 DEF Start, StartBegin, StartCheckActive, StartCreate, StartQueryEmails, StartReserve,
                StartReserveEnds, StartInsufficient, StartSetReserved, StartAbort,
                StartSaveFailed, StartTask, Calm
  <2>2. QED  BY <1>0, <2>1, WhileServing
<1>2. stopper.pc = "idle" /\ recovery.pc = "idle"
  BY <1>0, <1>1 DEF Calm
<1>3. \A d : ~Raises(d)
  BY <1>0, <1>1, NothingRaises
<1>4. UNCHANGED <<connection, stopper, recovery>>
  <2>1. UNCHANGED <<stopper, recovery>>
    BY DEF Start, StartBegin, StartCheckActive, StartCreate, StartQueryEmails,
           StartReserve, StartReserveEnds, StartInsufficient, StartSetReserved, StartAbort,
           StartSaveFailed, StartTask, OnlyStarter, OnlyStarterAndMem
  <2>2. Quietly \/ \E d : Returns(d)
    BY <1>3 DEF Start, StartBegin, StartCheckActive, StartCreate, StartQueryEmails,
           StartReserve, StartReserveEnds, StartInsufficient, StartSetReserved, StartAbort,
           StartSaveFailed, StartTask
  <2>3. UNCHANGED connection
    BY <2>2 DEF Quietly, Returns
  <2>4. QED  BY <2>1, <2>3
<1>5. Calm'
  <2>1. UNCHANGED <<online, serving, stopper, recovery>>
    BY <1>4 DEF connection
  <2>2. QED  BY <1>1, <1>2, <2>1, CalmOnline
<1>6. ASSUME SameRuns(db, db'), task' = task,
             starter'.pc \in Starting => /\ starter.pc \in Starting
                                         /\ starter'.run = starter.run
      PROVE  Kept
  <2>1. \A q \in Runs : Owned(q)' => Owned(q)
    BY <1>4, <1>6 DEF Owned
  <2>2. StillActive'
    BY <1>0, <1>4, <1>6, <2>1, OwnersStay DEF SameRuns
  <2>3. QED  BY <1>5, <1>6, <2>2 DEF Kept, Books
<1>7. "idle" \notin Starting /\ "check" \notin Starting /\ "create" \notin Starting
      /\ NoStarter.pc = "idle"
  BY DEF Starting, NoStarter
<1>8. \A pc : StartGoto(pc) => starter'.pc = pc /\ starter'.run = starter.run
  BY <1>0 DEF StartGoto, Starters
<1>9. SameRuns(db, db)
  BY DEF SameRuns
<1>10. ASSUME NEW r \in Runs, NEW n, StartBegin(r, n) PROVE Kept
  <2>1. db' = db /\ task' = task /\ starter'.pc = "check"
    BY <1>10 DEF StartBegin, Quietly, OnlyStarter, NoStarter
  <2>2. QED  BY <1>6, <1>7, <1>9, <2>1
<1>11. CASE StartCheckActive
  <2>1. db' = db /\ task' = task /\ (StartGoto("create") \/ StartReturns)
    BY <1>3, <1>11 DEF StartCheckActive, Returns, OnlyStarter
  <2>2. starter'.pc \notin Starting
    BY <1>7, <1>8, <2>1 DEF StartReturns
  <2>3. QED  BY <1>6, <1>9, <2>1, <2>2
<1>12. CASE StartQueryEmails
  <2>1. /\ db' = db /\ task' = task /\ starter.pc = "query"
        /\ starter' = [starter EXCEPT !.pc = "reserve", !.candidates = Candidates(db)]
    BY <1>3, <1>12 DEF StartQueryEmails, Returns, OnlyStarter
  <2>2. starter'.run = starter.run
    BY <1>0, <2>1 DEF Starters
  <2>3. QED  BY <1>6, <1>9, <2>1, <2>2 DEF Starting
<1>13. ASSUME NEW r \in Runs, NEW e \in Emails, StartReserve(r, e) PROVE Kept
  <2>1. /\ db' = Reserved(db, e, r) /\ task' = task /\ starter.pc = "reserve"
        /\ starter' = [starter EXCEPT !.candidates = @ \ {e}]
    BY <1>3, <1>13 DEF StartReserve, Returns
  <2>2. starter'.run = starter.run
    BY <1>0, <2>1 DEF Starters
  <2>3. SameRuns(db, db')
    BY <1>0, <2>1, PoolOperations
  <2>4. QED  BY <1>6, <2>1, <2>2, <2>3 DEF Starting
<1>14. ASSUME NEW r \in Runs, StartReserveEnds(r) \/ StartInsufficient(r) \/ StartSetReserved(r)
       PROVE  Kept
  <2>1. /\ db' = db \/ db' = Released(db, HeldBy(db, r))
        /\ task' = task /\ starter.pc \in Starting
        /\ \E pc : StartGoto(pc)
    BY <1>3, <1>14 DEF StartReserveEnds, StartInsufficient, StartSetReserved, Quietly, Returns,
                       OnlyStarter, Starting
  <2>2. SameRuns(db, Released(db, HeldBy(db, r)))
    BY <1>0, PoolOperations
  <2>3. QED  BY <1>6, <1>8, <1>9, <2>1, <2>2
<1>15. ASSUME NEW r \in Runs, StartAbort(r) PROVE Kept
  <2>1. /\ db' = db \/ db' = Released(db, HeldBy(db, r))
        /\ task' = task /\ starter.pc \in Starting
        /\ StartReturns \/ StartGoto("saveFailed")
    BY <1>3, <1>15 DEF StartAbort, Quietly, Returns, OnlyStarterAndMem, Starting
  <2>2. SameRuns(db, Released(db, HeldBy(db, r)))
    BY <1>0, PoolOperations
  <2>3. QED  BY <1>6, <1>7, <1>8, <1>9, <2>1, <2>2 DEF StartReturns
<1>16. ASSUME NEW r \in Runs, StartCreate(r) PROVE Kept
  <2>1. CASE KeyHolders(db) # {}
    <3>1. db' = db /\ task' = task /\ StartReturns
      BY <1>3, <1>16, <2>1 DEF StartCreate, Returns
    <3>2. QED  BY <1>6, <1>7, <1>9, <3>1 DEF StartReturns
  <2>2. CASE KeyHolders(db) = {}
    <3>1. /\ db' = Created(db, r) /\ task' = task /\ starter'.run = r
          /\ starter.run = r /\ starter.pc = "create"
      BY <1>0, <1>3, <1>8, <1>16, <2>2 DEF StartCreate, Returns
    <3>2. db.run[r].status = "none" /\ ActiveDocs(db) = {}
      BY <1>0, <2>2, <3>1 DEF StartsOne, KeyHolders, OneActive, ActiveDocs
    <3>3. Books(db, db') /\ Writes(db, db', r, "queued")
      BY <1>0, <3>1, <3>2, CreateOpens
    <3>4. \A q \in Runs : Owned(q)' => \/ Owned(q) /\ db'.run[q].status = db.run[q].status
                                       \/ db'.run[q].status \in Active
      <4>1. db'.run[r].status \in Active
        BY <3>3 DEF Writes, Active
      <4>2. \A q \in Runs \ {r} : db'.run[q].status = db.run[q].status
        BY <3>3 DEF Writes
      <4>3. \A q \in Runs \ {r} : Owned(q)' => Owned(q)
        BY <1>4, <3>1 DEF Owned
      <4>4. QED  BY <4>1, <4>2, <4>3
    <3>5. StillActive'
      BY <1>0, <1>4, <3>4, OwnersStay
    <3>6. QED  BY <1>5, <3>3, <3>5 DEF Kept
  <2>3. QED  BY <2>1, <2>2
<1>17. ASSUME NEW r \in Runs, starter.run = r, starter.pc \in Starting
       PROVE  db.run[r].status \in Active /\ db.run[r].key /\ task[r].pc = "none"
  <2>1. db.run[r].status \in Active
    BY <1>0, <1>17 DEF StillActive, Owned
  <2>2. task[r].pc = "none"
    BY <1>0, <1>7, <1>17 DEF StartsOne, Unstarted, NoTask
  <2>3. QED  BY <1>0, <2>1, <2>2 DEF OneActive
<1>18. ASSUME NEW r \in Runs, StartSaveFailed(r) PROVE Kept
  <2>1. /\ db' = Saved(db, r, "failed", mem[r].cancel) /\ task' = task /\ StartReturns
        /\ starter.run = r /\ starter.pc = "saveFailed" /\ "failed" \in Statuses
    BY <1>3, <1>18 DEF StartSaveFailed, Returns, OnlyStarter, Statuses, Terminal
  <2>2. db.run[r].status \in Active /\ db.run[r].key /\ task[r].pc = "none"
    BY <1>17, <2>1 DEF Starting
  <2>3. Books(db, db') /\ Writes(db, db', r, "failed")
    BY <1>0, <2>1, <2>2, SaveRewrites
  <2>4. \A q \in Runs : Owned(q)' => Owned(q) /\ db'.run[q].status = db.run[q].status
    <3>1. ~Owned(r)'
      BY <1>2, <1>4, <1>7, <2>1, <2>2 DEF Owned, StartReturns
    <3>2. \A q \in Runs \ {r} : db'.run[q].status = db.run[q].status
      BY <2>3 DEF Writes
    <3>3. \A q \in Runs \ {r} : Owned(q)' => Owned(q)
      BY <1>4, <1>7, <2>1 DEF Owned, StartReturns
    <3>4. QED  BY <3>1, <3>2, <3>3
  <2>5. StillActive'
    BY <1>0, <1>4, <2>4, OwnersStay
  <2>6. QED  BY <1>5, <2>3, <2>5 DEF Kept
<1>19. ASSUME NEW r \in Runs, StartTask(r) PROVE Kept
  <2>1. /\ db' = Saved(db, r, "running", mem[r].cancel) /\ StartReturns
        /\ task' = [task EXCEPT ![r].pc = "gather"]
        /\ starter.run = r /\ starter.pc = "save" /\ "running" \in Active
        /\ "running" \in Statuses
    BY <1>3, <1>19 DEF StartTask, Returns, Statuses, Active
  <2>2. db.run[r].status \in Active /\ db.run[r].key
    BY <1>17, <2>1 DEF Starting
  <2>3. Books(db, db') /\ Writes(db, db', r, "running")
    BY <1>0, <2>1, <2>2, SaveRewrites
  <2>4. \A q \in Runs : Owned(q)' => \/ Owned(q) /\ db'.run[q].status = db.run[q].status
                                     \/ db'.run[q].status \in Active
    <3>1. db'.run[r].status \in Active
      BY <2>1, <2>3 DEF Writes
    <3>2. \A q \in Runs \ {r} : db'.run[q].status = db.run[q].status
      BY <2>3 DEF Writes
    <3>3. \A q \in Runs \ {r} : Owned(q)' => Owned(q)
      <4>1. \A q \in Runs \ {r} : task'[q] = task[q]
        BY <2>1 DEF TypeOK, CoroutineType
      <4>2. QED  BY <1>4, <1>7, <2>1, <4>1 DEF Owned, StartReturns
    <3>4. QED  BY <3>1, <3>2, <3>3
  <2>5. StillActive'
    BY <1>0, <1>4, <2>4, OwnersStay
  <2>6. QED  BY <1>5, <2>3, <2>5 DEF Kept
<1>20. QED
  BY <1>10, <1>11, <1>12, <1>13, <1>14, <1>15, <1>16, <1>18, <1>19 DEF Start

(* A step of a run's own coroutines.                                       *)
LEMMA RunStepKept ==
  ASSUME Orderly, StartsOne, StopsAlone, NEW r \in Runs, task[r].pc # "none",
         UNCHANGED <<connection, starter, stopper, recovery>>,
         Books(db, db'),
         \A q \in Runs \ {r} : /\ task'[q] = task[q]
                               /\ db'.run[q].status = db.run[q].status,
         task'[r].pc # "none" => db'.run[r].status \in Active
  PROVE  Kept
<1>0. Calm /\ StillActive
  BY DEF Orderly
<1>1. serving \/ stopper.pc # "idle"
  BY <1>0 DEF Calm
<1>2. online /\ recovery.pc = "idle" /\ (serving <=> stopper.pc = "idle")
  BY <1>0, <1>1, WhileServing
<1>3. Calm'
  <2>1. UNCHANGED <<online, serving, starter, stopper, recovery>>
    BY DEF connection
  <2>2. ~serving => starter.pc = "idle"
    BY <1>0 DEF Calm
  <2>3. QED  BY <1>2, <2>1, <2>2, CalmOnline
<1>4. \A q \in Runs \ {r} : Owned(q)' => Owned(q)
  BY DEF Owned
<1>5. Owned(r)' => task'[r].pc # "none"
  <2>1. starter.run = r => starter.pc \notin Starting
    BY DEF StartsOne, Unstarted, NoTask, Starting
  <2>2. stopper.run = r => stopper.pc \notin {"find", "reconcile"}
    BY DEF StopsAlone
  <2>3. QED  BY <1>2, <2>1, <2>2 DEF Owned
<1>6. StillActive'
  BY <1>0, <1>4, <1>5, OwnersStay
<1>7. QED  BY <1>3, <1>6 DEF Kept

LEMMA OwnerIsActive ==
  ASSUME Orderly, NEW r \in Runs, task[r].pc # "none"
  PROVE  /\ db.run[r].status \in Active /\ db.run[r].key
         /\ online /\ recovery.pc = "idle"
<1>1. db.run[r].status \in Active
  BY DEF Orderly, StillActive, Owned
<1>2. db.run[r].key
  BY <1>1 DEF Orderly, OneActive
<1>3. serving \/ stopper.pc # "idle"
  BY DEF Orderly, Calm
<1>4. QED  BY <1>1, <1>2, <1>3, WhileServing DEF Orderly

LEMMA WorkKept ==
  ASSUME TypeOK, Parts, Orderly, faults' = 0, NEW r \in Runs, NEW w \in Workers, Work(r, w)
  PROVE  Kept
<1>0. /\ faults \in Nat /\ db \in Databases /\ RunInv(r) /\ StartsOne /\ StopsAlone
      /\ task \in [Runs -> Tasks]
  BY DEF TypeOK, ConnectionType, CoroutineType, Parts
<1>1. worker[r][w].pc # "exit"
  BY DEF Work, WorkerTakes, WorkerWakes, WorkerRegistersAccount, WorkerConsumesEmail,
         WorkerFailsEmail, WorkerRecords, WorkerReleases, WorkerUnavailable, WorkerSpins, WorkerTimesOut,
         WorkerCall
<1>2. /\ task[r].pc = "gather"
      /\ worker[r][w].pc \in Calling => Resumed(worker[r][w], r) \in Active
  BY <1>0, <1>1, AtWork
<1>3. db.run[r].status \in Active /\ db.run[r].key /\ online
  BY <1>2, OwnerIsActive
<1>4. (\A d : ~Raises(d)) /\ ~WorkerSpins(r, w)
  BY <1>0, <1>3, NothingRaises, OnlineNothingSpins
<1>5. UNCHANGED <<starter, stopper, recovery>>
  BY DEF Work, WorkerTakes, WorkerWakes, WorkerRegistersAccount, WorkerConsumesEmail,
         WorkerFailsEmail, WorkerRecords, WorkerReleases, WorkerUnavailable, WorkerSpins, WorkerTimesOut,
         OnlyRun
<1>6. Quietly \/ Returns(WorkerEffect(r, w))
  BY <1>4 DEF Work, WorkerTakes, WorkerWakes, WorkerRegistersAccount, WorkerConsumesEmail,
         WorkerFailsEmail, WorkerRecords, WorkerReleases, WorkerUnavailable, WorkerTimesOut
<1>7. UNCHANGED connection /\ (db' = db \/ db' = WorkerEffect(r, w))
  BY <1>6 DEF Quietly, Returns
<1>8. \A q \in Runs \ {r} : task'[q] = task[q]
  <2>1. task' = task \/ \E c : task' = [task EXCEPT ![r] = c]
    BY <1>4 DEF Work, WorkerTakes, WorkerWakes, WorkerRegistersAccount, WorkerConsumesEmail,
           WorkerFailsEmail, WorkerRecords, WorkerReleases, WorkerUnavailable, WorkerTimesOut,
           AbortWorkers
  <2>2. QED  BY <1>0, <2>1
<1>9. SameRuns(db, db) /\ Books(db, db)
  BY DEF SameRuns, Books
<1>10. /\ Books(db, WorkerEffect(r, w))
       /\ \A q \in Runs \ {r} : WorkerEffect(r, w).run[q].status = db.run[q].status
       /\ WorkerEffect(r, w).run[r].status \in Active
  <2>1. CASE worker[r][w].pc = "record"
    <3> DEFINE s == Resumed(worker[r][w], r)
    <3>1. WorkerEffect(r, w) = Saved(db, r, s, mem[r].cancel)
      BY <2>1 DEF WorkerEffect, WorkerCall
    <3>2. s \in Active /\ s \in Statuses
      BY <1>2, <2>1 DEF Calling, Statuses
    <3> HIDE DEF s
    <3>3. Books(db, WorkerEffect(r, w)) /\ Writes(db, WorkerEffect(r, w), r, s)
      BY <1>0, <1>3, <3>1, <3>2, SaveRewrites
    <3>4. QED  BY <3>2, <3>3 DEF Writes
  <2>2. CASE worker[r][w].pc # "record"
    <3>1. \/ WorkerEffect(r, w) = Registered(db, Job(r, w))
          \/ WorkerEffect(r, w) = Consumed(db, Job(r, w), r)
          \/ WorkerEffect(r, w) = Released(db, {Job(r, w)} \cap HeldBy(db, r))
          \/ WorkerEffect(r, w) = db
      BY <2>2 DEF WorkerEffect, WorkerCall
    <3>2. SameRuns(db, WorkerEffect(r, w))
      BY <1>0, <1>9, <3>1, PoolOperations
    <3>3. QED  BY <1>3, <3>2 DEF SameRuns, Books
  <2>3. QED  BY <2>1, <2>2
<1>11. /\ Books(db, db') /\ db'.run[r].status \in Active
       /\ \A q \in Runs \ {r} : db'.run[q].status = db.run[q].status
  BY <1>3, <1>7, <1>9, <1>10
<1>12. task[r].pc # "none"
  BY <1>2
<1>13. QED
  BY <1>0, <1>5, <1>7, <1>8, <1>11, <1>12, RunStepKept

LEMMA ExecuteKept ==
  ASSUME TypeOK, Parts, Orderly, faults' = 0, NEW r \in Runs, Execute(r)
  PROVE  Kept
<1>0. /\ faults \in Nat /\ db \in Databases /\ RunInv(r) /\ StartsOne /\ StopsAlone
      /\ task \in [Runs -> Tasks]
  BY DEF TypeOK, ConnectionType, CoroutineType, Parts
<1>1. task[r].pc # "none"
  BY DEF Execute, TaskGathered, TaskCompletes, TaskReleases, TaskCancelled, TaskUnavailable,
         TaskSpins, TaskTimesOut, TaskFails, TaskReconciled, TaskFailed, TaskReconciles
<1>2. db.run[r].status \in Active /\ db.run[r].key /\ online
  BY <1>1, OwnerIsActive
<1>3. (\A d : ~Raises(d)) /\ ~TaskSpins(r)
  BY <1>0, <1>2, NothingRaises, OnlineNothingSpins
<1>4. UNCHANGED <<starter, stopper, recovery>>
  BY DEF Execute, TaskGathered, TaskCompletes, TaskReleases, TaskCancelled, TaskUnavailable,
         TaskSpins, TaskTimesOut, TaskFails, TaskReconciled, TaskFailed, TaskReconciles, OnlyTask
<1>5. \A q \in Runs \ {r} : task'[q] = task[q]
  <2>1. \E c : task' = [task EXCEPT ![r] = c]
    <3>1. \/ \E pc, s : TaskGoto(r, pc, s)
          \/ TaskEnds(r)
          \/ task' = [task EXCEPT ![r].pc = "reconcile", ![r].held = HeldBy(db, r)]
          \/ \E e : task' = [task EXCEPT ![r].held = @ \ {e}]
      BY <1>3 DEF Execute, TaskGathered, TaskCompletes, TaskReleases, TaskCancelled,
         TaskUnavailable, TaskTimesOut, TaskFails, TaskReconciled, TaskFailed, TaskReconciles
    <3>2. QED  BY <3>1 DEF TaskGoto, TaskEnds
  <2>2. QED  BY <1>0, <2>1
<1>6. SameRuns(db, db)
  BY DEF SameRuns
<1>7. ASSUME SameRuns(db, db'), UNCHANGED connection PROVE Kept
  <2>1. /\ Books(db, db') /\ db'.run[r].status \in Active
        /\ \A q \in Runs \ {r} : db'.run[q].status = db.run[q].status
    BY <1>2, <1>7 DEF SameRuns, Books
  <2>2. QED  BY <1>0, <1>1, <1>4, <1>5, <1>7, <2>1, RunStepKept
<1>8. ASSUME NEW s \in Statuses, Returns(Saved(db, r, s, mem[r].cancel)), TaskEnds(r)
      PROVE  Kept
  <2>1. db' = Saved(db, r, s, mem[r].cancel) /\ UNCHANGED connection
    BY <1>8 DEF Returns
  <2>2. Books(db, db') /\ Writes(db, db', r, s)
    BY <1>0, <1>2, <2>1, SaveRewrites
  <2>3. \A q \in Runs \ {r} : db'.run[q].status = db.run[q].status
    BY <2>2 DEF Writes
  <2>4. task'[r].pc = "none"
    BY <1>0, <1>8 DEF TaskEnds, NoTask
  <2>5. QED  BY <1>0, <1>1, <1>4, <1>5, <2>1, <2>2, <2>3, <2>4, RunStepKept
<1>9. CASE TaskGathered(r) \/ TaskTimesOut(r) \/ TaskReconciled(r)
  <2>1. db' = db /\ UNCHANGED connection
    BY <1>9 DEF TaskGathered, TaskTimesOut, TaskReconciled, Quietly
  <2>2. QED  BY <1>6, <1>7, <2>1
<1>10. CASE TaskFails(r)
  <2>1. db' = db /\ UNCHANGED connection
    BY <1>3, <1>10 DEF TaskFails, Quietly, Returns
  <2>2. QED  BY <1>6, <1>7, <2>1
<1>11. CASE TaskReleases(r)
  <2>1. db' = Released(db, HeldBy(db, r)) /\ UNCHANGED connection
    BY <1>11 DEF TaskReleases, Returns
  <2>2. QED  BY <1>0, <1>7, <2>1, PoolOperations
<1>12. ASSUME NEW e \in Emails, TaskReconciles(r, e) PROVE Kept
  <2>1. db' = Reconciled(db, e, r) /\ UNCHANGED connection
    BY <1>3, <1>12 DEF TaskReconciles, Returns
  <2>2. QED  BY <1>0, <1>7, <2>1, PoolOperations
<1>13. CASE TaskCompletes(r) \/ TaskCancelled(r)
  <2>1. /\ Returns(Saved(db, r, Resumed(task[r], r), mem[r].cancel)) /\ TaskEnds(r)
        /\ task[r].pc \in {"complete", "cancelled"}
    BY <1>13 DEF TaskCompletes, TaskCancelled
  <2>2. Resumed(task[r], r) \in Statuses
    BY <1>0, <1>2, <2>1, TaskSaves DEF Statuses, Terminal
  <2>3. QED  BY <1>8, <2>1, <2>2
<1>14. CASE TaskFailed(r)
  <2>1. Returns(Saved(db, r, "failed", mem[r].cancel)) /\ TaskEnds(r)
    BY <1>3, <1>14 DEF TaskFailed
  <2>2. "failed" \in Statuses
    BY DEF Statuses, Terminal
  <2>3. QED  BY <1>8, <2>1, <2>2
<1>15. ~TaskUnavailable(r) /\ ~TaskSpins(r)
  BY <1>3 DEF TaskUnavailable
<1>16. QED
  BY <1>9, <1>10, <1>11, <1>12, <1>13, <1>14, <1>15 DEF Execute

LEMMA CancelKept ==
  ASSUME TypeOK, Orderly, faults' = 0, NEW r \in Runs, CancelRequests(r) \/ CancelSignals(r)
  PROVE  Kept
<1>0. faults \in Nat /\ db \in Databases /\ Calm /\ StillActive
  BY DEF TypeOK, ConnectionType, Orderly
<1>1. SameRuns(db, db') /\ UNCHANGED connection
  <2>1. CASE CancelRequests(r)
    <3>1. online
      BY <2>1 DEF CancelRequests, Returns
    <3>2. \A d : ~Raises(d)
      BY <1>0, <3>1, NothingRaises
    <3>3. db' = CancelRequested(db, r) /\ UNCHANGED connection
      BY <2>1, <3>2 DEF CancelRequests, Returns
    <3>4. QED  BY <1>0, <3>3, FlagLeavesRuns
  <2>2. CASE CancelSignals(r)
    BY <2>2 DEF CancelSignals, Quietly, SameRuns
  <2>3. QED  BY <2>1, <2>2
<1>2. UNCHANGED <<listed, task, starter, recovery, stopper>>
  BY DEF CancelRequests, CancelSignals, memory
<1>3. Calm'
  BY <1>0, <1>1, <1>2, CalmSame DEF connection
<1>4. \A q \in Runs : Owned(q)' => Owned(q)
  BY <1>2 DEF Owned
<1>5. StillActive'
  BY <1>0, <1>1, <1>2, <1>4, OwnersStay DEF SameRuns
<1>6. QED  BY <1>1, <1>3, <1>5 DEF Kept, Books

LEMMA RecoverKept ==
  ASSUME TypeOK, Orderly, faults' = 0, faults = 0, Recover
  PROVE  Kept
<1>0. /\ faults \in Nat /\ db \in Databases /\ recovery \in Recoveries
      /\ Calm /\ StillActive /\ OneActive
  BY DEF TypeOK, ConnectionType, CoroutineType, Orderly
<1>1. /\ ~serving /\ stopper.pc = "idle" /\ starter.pc = "idle"
      /\ \A q \in Runs : task[q].pc = "none"
  <2>1. ~online \/ recovery.pc # "idle"
    <3>1. ~ProbeFails
      BY <1>0 DEF ProbeFails
    <3>2. QED
      BY <3>1 DEF Recover, Probe, RecoverSnapshots, RecoverScans, RecoverReleasesOrphans, ProbeSucceeds,
                  RecoverFails, RecoverFlushes, RecoverPicks, RecoverInterrupts, RecoverReconciles
  <2>2. ~serving /\ stopper.pc = "idle"
    BY <1>0, <2>1 DEF Calm
  <2>3. QED  BY <1>0, <2>2 DEF Calm
<1>2. UNCHANGED <<task, starter, stopper>>
  BY DEF Recover, Probe, ProbeFails, RecoverSnapshots, RecoverScans, RecoverReleasesOrphans, ProbeSucceeds,
         RecoverFails, RecoverFlushes, RecoverPicks, RecoverInterrupts, RecoverReconciles,
         OnlyRecovery
<1>3. \A q \in Runs :
        Owned(q)' <=> recovery'.pc \in {"pick", "reconcile"} /\ q \in recovery'.stale
  BY <1>1, <1>2 DEF Owned, Starting
<1>4. \A q \in Runs :
        recovery.pc \in {"pick", "reconcile"} /\ q \in recovery.stale
          => db.run[q].status \in Active
  BY <1>0 DEF StillActive, Owned
<1>5. recovery.pc # "idle" => online
  BY <1>0 DEF Calm
<1>6. SameRuns(db, db)
  BY DEF SameRuns
<1>7. ASSUME SameRuns(db, db'), online' = online, online, serving' = serving,
             recovery'.pc \in {"scan", "pick", "reconcile", "indexes"},
             \A q \in Runs : recovery'.pc \in {"pick", "reconcile"} /\ q \in recovery'.stale
                               => db.run[q].status \in Active,
             recovery'.pc = "reconcile" => recovery'.run \in recovery'.stale
      PROVE  Kept
  <2>1. Calm'
    BY <1>1, <1>2, <1>7 DEF Calm
  <2>2. StillActive'
    BY <1>3, <1>7 DEF StillActive, SameRuns
  <2>3. QED  BY <1>7, <2>1, <2>2 DEF Kept, Books
<1>8. CASE Probe
  <2>1. /\ db' = db /\ online' /\ recovery'.pc = "flush" /\ serving' = serving
        /\ recovery'.seen = Listed /\ recovery'.todo = Listed /\ listed' = listed
    BY <1>8 DEF Probe, OnlyRecovery, memory, NoRecovery
  <2>2. Listed = {} /\ Listed' = {}
    BY <1>0, <1>8, <2>1 DEF Probe, Calm, Listed
  <2>3. Calm'
    BY <1>1, <1>2, <2>1, <2>2 DEF Calm
  <2>4. StillActive'
    BY <1>3, <2>1 DEF StillActive
  <2>5. QED  BY <1>6, <2>1, <2>3, <2>4 DEF Kept, Books
<1>9. ~ProbeFails
  BY <1>0 DEF ProbeFails
<1>10. ~RecoverFails
  <2>1. ~Fault
    BY <1>0 DEF Fault
  <2>2. recovery.pc = "flush" => recovery.seen = Listed
    BY <1>0 DEF Calm
  <2>3. QED  BY <1>5, <2>1, <2>2 DEF RecoverFails
<1>11. ASSUME NEW r \in Runs PROVE ~RecoverFlushes(r)
  BY <1>0 DEF RecoverFlushes, Calm
<1>12. CASE RecoverSnapshots
  <2>1. /\ db' = db /\ UNCHANGED connection /\ recovery.pc = "flush"
        /\ recovery' = [recovery EXCEPT !.pc = "scan", !.local = LocalActive]
    BY <1>12 DEF RecoverSnapshots, Quietly
  <2>2. recovery'.pc = "scan"
    BY <1>0, <2>1 DEF Recoveries
  <2>3. QED  BY <1>5, <1>6, <1>7, <2>1, <2>2 DEF connection
<1>13. CASE RecoverScans
  <2>1. /\ db' = db /\ UNCHANGED connection /\ recovery.pc = "scan"
        /\ recovery' = [recovery EXCEPT !.pc = "pick", !.stale = ActiveDocs(db) \ recovery.local]
    BY <1>13 DEF RecoverScans, Returns
  <2>2. recovery'.pc = "pick" /\ recovery'.stale \subseteq ActiveDocs(db)
    BY <1>0, <2>1 DEF Recoveries
  <2>3. QED  BY <1>5, <1>6, <1>7, <2>1, <2>2 DEF connection, ActiveDocs
<1>14. ASSUME NEW r \in Runs, RecoverPicks(r) PROVE Kept
  <2> DEFINE H == HeldBy(db, r)
  <2>1. /\ db' = db /\ UNCHANGED connection /\ recovery.pc = "pick" /\ r \in recovery.stale
        /\ recovery' = [recovery EXCEPT !.pc = "reconcile", !.run = r, !.held = H]
    BY <1>14 DEF RecoverPicks, Returns
  <2> HIDE DEF H
  <2>2. recovery'.pc = "reconcile" /\ recovery'.run = r /\ recovery'.stale = recovery.stale
    BY <1>0, <2>1 DEF Recoveries
  <2>3. QED  BY <1>4, <1>5, <1>6, <1>7, <2>1, <2>2 DEF connection
<1>15. ASSUME NEW r \in Runs, NEW e \in Emails, RecoverReconciles(r, e) PROVE Kept
  <2>1. /\ db' = Reconciled(db, e, r) /\ UNCHANGED connection /\ recovery.pc = "reconcile"
        /\ recovery' = [recovery EXCEPT !.held = @ \ {e}]
    BY <1>15 DEF RecoverReconciles, Returns
  <2>2. /\ recovery'.pc = "reconcile" /\ recovery'.run = recovery.run
        /\ recovery'.stale = recovery.stale
    BY <1>0, <2>1 DEF Recoveries
  <2>3. recovery.run \in recovery.stale
    BY <1>0, <2>1 DEF StillActive
  <2>4. SameRuns(db, db')
    BY <1>0, <2>1, PoolOperations
  <2>5. QED  BY <1>4, <1>5, <1>7, <2>1, <2>2, <2>3, <2>4 DEF connection
<1>16. ASSUME NEW r \in Runs, RecoverInterrupts(r) PROVE Kept
  <2>1. /\ db' = Saved(db, r, "interrupted", FALSE) /\ UNCHANGED connection
        /\ recovery.pc = "reconcile" /\ recovery.run = r /\ "interrupted" \in Statuses
        /\ recovery' = [recovery EXCEPT !.pc = "pick", !.run = None, !.stale = @ \ {r}]
    BY <1>16 DEF RecoverInterrupts, Returns, Statuses, Terminal
  <2>2. recovery'.pc = "pick" /\ recovery'.stale = recovery.stale \ {r}
    BY <1>0, <2>1 DEF Recoveries
  <2>3. db.run[r].status \in Active /\ db.run[r].key
    BY <1>0, <1>4, <2>1 DEF StillActive, OneActive
  <2>4. Books(db, db') /\ Writes(db, db', r, "interrupted")
    BY <1>0, <2>1, <2>3, SaveRewrites
  <2>5. Calm'
    BY <1>1, <1>2, <1>5, <2>1, <2>2 DEF Calm, connection
  <2>6. StillActive'
    BY <1>3, <1>4, <2>1, <2>2, <2>4 DEF StillActive, Writes
  <2>7. QED  BY <2>4, <2>5, <2>6 DEF Kept
<1>17. CASE RecoverReleasesOrphans
  <2>1. /\ \E E : db' = Released(db, E)
        /\ online /\ UNCHANGED connection /\ recovery'.pc = "indexes"
    BY <1>17 DEF RecoverReleasesOrphans, Returns, NoRecovery
  <2>2. SameRuns(db, db')
    BY <1>0, <2>1, PoolOperations
  <2>3. QED  BY <1>7, <2>1, <2>2 DEF connection
<1>18. CASE ProbeSucceeds
  <2>1. db' = db /\ online' = online /\ online /\ serving' /\ recovery'.pc = "idle"
    BY <1>1, <1>5, <1>18 DEF ProbeSucceeds, NoRecovery
  <2>2. Calm'
    BY <1>1, <1>2, <2>1, CalmOnline
  <2>3. StillActive'
    BY <1>3, <2>1 DEF StillActive
  <2>4. QED  BY <1>6, <2>1, <2>2, <2>3 DEF Kept, Books
<1>19. QED
  BY <1>8, <1>9, <1>10, <1>11, <1>12, <1>13, <1>14, <1>15, <1>16, <1>17, <1>18 DEF Recover

LEMMA NewProcessKept ==
  ASSUME NewProcess, db' = db
  PROVE  Kept
<1>1. /\ starter'.pc = "idle" /\ stopper'.pc = "idle" /\ recovery'.pc = "idle"
      /\ \A q \in Runs : task'[q].pc = "none" /\ listed'[q] = "none"
  BY DEF NewProcess, NoStarter, NoStopper, NoRecovery, NoTask
<1>2. Calm'
  BY <1>1 DEF NewProcess, Calm, Listed
<1>3. StillActive'
  BY <1>1, NobodyOwns
<1>4. QED  BY <1>2, <1>3 DEF Kept, Books, SameRuns

LEMMA ShutdownKept ==
  ASSUME TypeOK, Parts, Orderly, faults' = 0, Shutdown
  PROVE  Kept
<1>0. /\ faults \in Nat /\ db \in Databases /\ stopper \in Stoppers /\ task \in [Runs -> Tasks]
      /\ Calm /\ StillActive /\ OneActive /\ StopsAlone
  BY DEF TypeOK, ConnectionType, CoroutineType, Orderly, Parts
<1>1. CASE ShutdownExits
  BY <1>1, NewProcessKept DEF ShutdownExits
<1>2. ASSUME NEW r \in Runs, ShutdownCancelsTask(r) PROVE Kept
  <2>1. /\ db' = db /\ online' = online /\ ~serving' /\ UNCHANGED <<starter, recovery>>
        /\ task' = [task EXCEPT ![r] = NoTask] /\ task[r].pc # "none"
        /\ stopper'.run = r /\ stopper'.pc # "idle" /\ starter.pc = "idle"
    BY <1>0, <1>2 DEF ShutdownCancelsTask, NoStopper, StopsAlone
  <2>2. online /\ recovery.pc = "idle" /\ db.run[r].status \in Active
    BY <2>1, OwnerIsActive
  <2>3. Calm'
    BY <2>1, <2>2, CalmOnline
  <2>4. \A q \in Runs : Owned(q)' => Owned(q)
    <3>1. \A q \in Runs : task'[q].pc # "none" => task[q].pc # "none"
      BY <1>0, <2>1 DEF NoTask
    <3>2. QED  BY <2>1, <2>2, <3>1 DEF Owned, Starting
  <2>5. StillActive'
    BY <1>0, <2>1, <2>4, OwnersStay
  <2>6. QED  BY <2>1, <2>3, <2>5 DEF Kept, Books, SameRuns
<1>3. ASSUME NEW r \in Runs, stopper.pc # "idle", stopper.run = r,
             UNCHANGED <<listed, task, starter, recovery, connection>>,
             stopper'.pc # "idle", stopper'.run = r, Books(db, db'),
             \A q \in Runs \ {r} : db'.run[q].status = db.run[q].status,
             stopper'.pc \in {"find", "reconcile"} => db'.run[r].status \in Active
      PROVE  Kept
  <2>1. online /\ recovery.pc = "idle" /\ ~serving /\ starter.pc = "idle"
    BY <1>0, <1>3, WhileServing DEF StopsAlone
  <2>2. Calm'
    <3>1. online' /\ ~serving' /\ recovery'.pc = "idle" /\ starter'.pc = "idle"
      BY <1>3, <2>1 DEF connection
    <3>2. QED  BY <1>3, <3>1, CalmOnline
  <2>3. task[r].pc = "none"
    BY <1>0, <1>3 DEF StopsAlone
  <2>4. \A q \in Runs : Owned(q)' => IF q = r THEN stopper'.pc \in {"find", "reconcile"}
                                     ELSE Owned(q)
    BY <1>3, <2>1, <2>3 DEF Owned, Starting
  <2>5. StillActive'
    BY <1>0, <1>3, <2>4, OwnersStay
  <2>6. QED  BY <1>3, <2>2, <2>5 DEF Kept
<1>4. ASSUME NEW r \in Runs,
             \/ ShutdownFinds(r) \/ ShutdownSaves(r)
             \/ \E e \in Emails : ShutdownReconciles(r, e)
      PROVE  Kept
  <2>1. /\ stopper.pc \in {"find", "reconcile"} /\ stopper.run = r
        /\ UNCHANGED <<listed, task, starter, recovery>>
    BY <1>4 DEF ShutdownFinds, ShutdownSaves, ShutdownReconciles, OnlyStopper
  <2>2. online /\ db.run[r].status \in Active /\ db.run[r].key
    BY <1>0, <2>1, WhileServing DEF StillActive, Owned, OneActive
  <2>3. \A d : ~Raises(d)
    BY <1>0, <2>2, NothingRaises
  <2>4. ASSUME SameRuns(db, db'), UNCHANGED connection, stopper'.pc # "idle", stopper'.run = r
        PROVE  Kept
    <3>1. /\ Books(db, db') /\ db'.run[r].status \in Active
          /\ \A q \in Runs \ {r} : db'.run[q].status = db.run[q].status
      BY <2>2, <2>4 DEF SameRuns, Books
    <3>2. QED  BY <1>3, <2>1, <2>4, <3>1
  <2>5. CASE ShutdownFinds(r)
    <3> DEFINE H == HeldBy(db, r)
    <3>1. /\ db' = db /\ UNCHANGED connection
          /\ stopper' = [stopper EXCEPT !.pc = "reconcile", !.held = H]
      BY <2>2, <2>3, <2>5 DEF ShutdownFinds, Returns
    <3> HIDE DEF H
    <3>2. stopper'.pc = "reconcile" /\ stopper'.run = r
      BY <1>0, <2>1, <3>1 DEF Stoppers
    <3>3. QED  BY <2>4, <3>1, <3>2 DEF SameRuns
  <2>6. ASSUME NEW e \in Emails, ShutdownReconciles(r, e) PROVE Kept
    <3>1. /\ db' = Reconciled(db, e, r) /\ UNCHANGED connection /\ stopper.pc = "reconcile"
          /\ stopper' = [stopper EXCEPT !.held = @ \ {e}]
      BY <2>3, <2>6 DEF ShutdownReconciles, Returns
    <3>2. stopper'.pc = "reconcile" /\ stopper'.run = r
      BY <1>0, <2>1, <3>1 DEF Stoppers
    <3>3. SameRuns(db, db')
      BY <1>0, <3>1, PoolOperations
    <3>4. QED  BY <2>4, <3>1, <3>2, <3>3
  <2>7. CASE ShutdownSaves(r)
    <3>1. /\ db' = Saved(db, r, "interrupted", FALSE) /\ UNCHANGED connection
          /\ stopper' = [stopper EXCEPT !.pc = "next"] /\ "interrupted" \in Statuses
      BY <2>3, <2>7 DEF ShutdownSaves, Returns, StopGoto, Statuses, Terminal
    <3>2. stopper'.pc = "next" /\ stopper'.run = r
      BY <1>0, <2>1, <3>1 DEF Stoppers
    <3>3. Books(db, db') /\ Writes(db, db', r, "interrupted")
      BY <1>0, <2>2, <3>1, SaveRewrites
    <3>4. QED  BY <1>3, <2>1, <3>1, <3>2, <3>3 DEF Writes
  <2>8. QED  BY <1>4, <2>5, <2>6, <2>7
<1>5. QED  BY <1>1, <1>2, <1>4 DEF Shutdown

LEMMA NextKept ==
  ASSUME TypeOK, Parts, Orderly, faults = 0, faults' = 0, [Next]_vars
  PROVE  Kept
<1>1. CASE UNCHANGED vars
  <2>1. db' = db /\ UNCHANGED <<online, serving, listed, task, starter, stopper, recovery>>
    BY <1>1 DEF vars, connection, memory
  <2>2. Calm'
    BY <2>1, CalmSame DEF Orderly
  <2>3. \A q \in Runs : Owned(q)' => Owned(q)
    BY <2>1 DEF Owned
  <2>4. StillActive'
    BY <2>1, <2>3, OwnersStay DEF Orderly
  <2>5. QED  BY <2>1, <2>2, <2>4 DEF Kept, Books, SameRuns
<1>2. CASE Crash
  BY <1>2, NewProcessKept DEF Crash
<1>3. QED
  BY <1>1, <1>2, StartKept, WorkKept, ExecuteKept, CancelKept, RecoverKept, ShutdownKept DEF Next

(* A failure is never taken back.                                          *)
LEMMA FaultsStay ==
  ASSUME TypeOK, [Next]_vars, faults' = 0
  PROVE  faults = 0
<1>0. faults \in Nat
  BY DEF TypeOK, ConnectionType
<1> SUFFICES faults' = faults \/ faults' = faults + 1
  BY <1>0
<1>1. CASE Start
  <2>1. \E d : Returns(d) \/ Raises(d) \/ Quietly
    BY <1>1 DEF Start, StartBegin, StartCheckActive, StartCreate, StartQueryEmails,
       StartReserve, StartReserveEnds, StartInsufficient, StartSetReserved, StartAbort,
       StartSaveFailed, StartTask
  <2>2. QED  BY <2>1, OperationConnection
<1>2. ASSUME NEW r \in Runs, NEW w \in Workers, Work(r, w) PROVE
               \E d : Returns(d) \/ Raises(d) \/ Quietly \/ Hangs
  BY <1>2 DEF Work, WorkerTakes, WorkerWakes, WorkerRegistersAccount, WorkerConsumesEmail,
     WorkerFailsEmail, WorkerRecords, WorkerReleases, WorkerUnavailable, WorkerSpins, WorkerTimesOut
<1>3. ASSUME NEW r \in Runs, Execute(r) PROVE
               \E d : Returns(d) \/ Raises(d) \/ Quietly \/ Hangs
  BY <1>3 DEF Execute, TaskGathered, TaskCompletes, TaskReleases, TaskCancelled,
     TaskUnavailable, TaskSpins, TaskTimesOut, TaskFails, TaskReconciled, TaskFailed, TaskReconciles
<1>4. ASSUME NEW r \in Runs, CancelRequests(r) \/ CancelSignals(r)
      PROVE  \E d : Returns(d) \/ Raises(d) \/ Quietly
  BY <1>4 DEF CancelRequests, CancelSignals
<1>5. CASE Recover
  BY <1>5 DEF Recover, Probe, ProbeFails, RecoverSnapshots, RecoverScans,
     RecoverReleasesOrphans, ProbeSucceeds, RecoverFails, RecoverFlushes, RecoverPicks, RecoverInterrupts,
     RecoverReconciles, Returns, Quietly, Fault, GoesOffline, connection
<1>6. CASE Shutdown
  <2>1. \/ faults' = faults
        \/ \E d : Returns(d) \/ Raises(d) \/ Quietly
    BY <1>6 DEF Shutdown, ShutdownExits, ShutdownCancelsTask, ShutdownFinds, ShutdownSaves,
       ShutdownReconciles
  <2>2. QED  BY <2>1, OperationConnection
<1>7. CASE Crash \/ UNCHANGED vars
  BY <1>7 DEF Crash, vars, connection
<1>8. QED
  BY <1>1, <1>2, <1>3, <1>4, <1>5, <1>6, <1>7, OperationConnection DEF Next

LEMMA UndisturbedNext ==
  ASSUME TypeOK, Parts, Undisturbed, [Next]_vars
  PROVE  Undisturbed' /\ (faults' = 0 => [Ledger!Next]_Outcome)
<1> SUFFICES ASSUME faults' = 0 PROVE Orderly' /\ [Ledger!Next]_Outcome
  BY DEF Undisturbed
<1>1. faults = 0
  BY FaultsStay
<1>2. Orderly
  BY <1>1 DEF Undisturbed
<1>3. Kept
  BY <1>1, <1>2, NextKept
<1>4. OneActive'
  BY <1>2, <1>3, BooksKeepOne DEF Orderly, Kept
<1>5. [Ledger!Next]_Outcome
  BY <1>3, BooksAreALedger DEF Kept, TypeOK
<1>6. QED  BY <1>3, <1>4, <1>5 DEF Kept, Orderly

LEMMA UndisturbedInit == Init => Undisturbed
<1> SUFFICES ASSUME Init PROVE Orderly
  BY DEF Undisturbed
<1>1. /\ starter.pc = "idle" /\ stopper.pc = "idle" /\ recovery.pc = "idle" /\ ~serving
      /\ \A q \in Runs : /\ task[q].pc = "none" /\ listed[q] = "none"
                         /\ db.run[q].status = "none" /\ ~db.run[q].key
  BY DEF Init, NoStarter, NoStopper, NoRecovery, NoTask, EmptyDatabase, NoDoc
<1>2. Calm
  BY <1>1 DEF Calm, Listed
<1>3. StillActive
  BY <1>1 DEF StillActive, Owned, Starting
<1>4. OneActive
  BY <1>1 DEF OneActive, ActiveDocs, Active
<1>5. QED  BY <1>2, <1>3, <1>4 DEF Orderly

(* Until an operation fails the runs collection is a ledger: runs are      *)
(* opened one at a time, and a closed one keeps its outcome, across        *)
(* crashes, shutdowns and restarts (run_store.py, the unique activeKey).   *)
THEOREM ManagerImplementsRunLedger == Spec => LedgerSpec
<1>1. Init => Undisturbed /\ Ledger!Init
  <2>1. Init => Ledger!Init
    BY DEF Init, Ledger!Init, Outcome, EmptyDatabase, NoDoc, Active
  <2>2. QED  BY <2>1, UndisturbedInit
<1>2. IInv /\ Parts /\ Undisturbed /\ [Next]_vars =>
        Undisturbed' /\ (faults' = 0 => [Ledger!Next]_Outcome)
  BY UndisturbedNext DEF IInv
<1>3. QED
  BY <1>1, <1>2, PartsInvariant, PTL DEF Spec, LedgerSpec

(* "Single-active-run lease" (run_store.py:27): until an operation fails,  *)
(* whatever requests, crashes and shutdowns there are, no two runs are     *)
(* prepared, executed or cleaned up at the same time, and the one that is  *)
(* holds the key.  A failure can break it: recover may then end a run that *)
(* a start is still preparing.                                             *)
LeaseIsSingle ==
  faults = 0 => \A r \in Runs : Owned(r) => /\ db.run[r].key
                                           /\ \A s \in Runs : Owned(s) => r = s

THEOREM OneRunHoldsTheLease == Spec => []LeaseIsSingle
<1>1. Undisturbed => LeaseIsSingle
  <2> SUFFICES ASSUME Undisturbed, faults = 0, NEW r \in Runs, Owned(r)
               PROVE  /\ db.run[r].key
                      /\ \A s \in Runs : Owned(s) => r = s
    BY DEF LeaseIsSingle
  <2>1. \A s \in Runs : Owned(s) => s \in ActiveDocs(db)
    BY DEF Undisturbed, Orderly, StillActive, ActiveDocs
  <2>2. db.run[r].key
    BY <2>1 DEF Undisturbed, Orderly, OneActive, ActiveDocs
  <2>3. QED  BY <2>1, <2>2 DEF Undisturbed, Orderly, OneActive
<1>2. IInv /\ Parts /\ Undisturbed /\ [Next]_vars => Undisturbed'
  BY UndisturbedNext DEF IInv
<1>3. QED
  BY <1>1, <1>2, UndisturbedInit, PartsInvariant, PTL DEF Spec

-----------------------------------------------------------------------------
(* The fourth layer, until an operation fails: what a run has not finished *)
(* it holds, each address once, ...                                        *)
Planning(r) == /\ starter.run = r
               /\ starter.pc \in {"query", "reserve", "setReserved", "save"}
Holds(r, done) ==
  /\ \A i \in 1 .. Len(plan[r]) : i \notin done => db.email[plan[r][i]] = r
  /\ \A i, j \in 1 .. Len(plan[r]) : plan[r][i] = plan[r][j] => i = j
HoldsPlan(r) == /\ Planning(r) => Holds(r, {})
                /\ task[r].pc = "gather" => Holds(r, Finished(worker[r], next[r]))

(* ... and an address that is stored is deleted, or somebody will: the     *)
(* worker that stored it, its run, a shutdown, or the next recovery.       *)
OnConsume(r, e) == \E w \in Workers : worker[r][w].pc = "consume" /\ Job(r, w) = e
ByTask(r, e) == \/ task[r].pc = "gather" /\ OnConsume(r, e)
                \/ task[r].pc \in {"failing", "reconcile"} /\ mem[r].status \in Active
ByStopper(r, e) == /\ stopper.run = r
                   /\ \/ stopper.pc = "find"
                      \/ stopper.pc = "reconcile" /\ e \in stopper.held
ByRecovery(r, e) ==
  /\ ~serving /\ stopper.pc = "idle" /\ db.run[r].status \in Active
  /\ recovery.pc # "indexes"
  /\ recovery.pc \in {"pick", "reconcile"} => r \in recovery.stale
  /\ recovery.pc = "reconcile" /\ recovery.run = r => e \in recovery.held
Cared(e) == \/ db.email[e] = "deleted"
            \/ \E r \in Runs : /\ db.email[e] = r
                               /\ ByTask(r, e) \/ ByStopper(r, e) \/ ByRecovery(r, e)

Executing(r) == task[r].pc # "none" \/ (starter.run = r /\ starter.pc \in Starting)
Listing == \A r \in Runs : Executing(r) => listed[r] = "own"
ScansAll == recovery.pc = "scan" => recovery.local = {}
HoldsPlans == \A r \in Runs : HoldsPlan(r)
Tidy == HoldsPlans /\ (\A e \in db.account : Cared(e)) /\ Listing /\ ScansAll

(* Who cares for a stored address is the owner of an active run.           *)
LEMMA CarerIsActive ==
  ASSUME Orderly, NEW r \in Runs, NEW e, ByTask(r, e) \/ ByStopper(r, e) \/ ByRecovery(r, e)
  PROVE  db.run[r].status \in Active
BY DEF Orderly, StillActive, Owned, ByTask, ByStopper, ByRecovery

(* While a run is executed, or a process is being ended, the stored        *)
(* addresses of every other run are deleted.                               *)
LEMMA OthersAreDeleted ==
  ASSUME Orderly, NEW r \in Runs, db.run[r].status \in Active, NEW e, Cared(e)
  PROVE  \/ db.email[e] = "deleted"
         \/ db.email[e] = r /\ (ByTask(r, e) \/ ByStopper(r, e) \/ ByRecovery(r, e))
<1> SUFFICES ASSUME NEW q \in Runs, db.email[e] = q,
                    ByTask(q, e) \/ ByStopper(q, e) \/ ByRecovery(q, e)
             PROVE  q = r
  BY DEF Cared
<1>1. db.run[q].status \in Active
  BY CarerIsActive
<1>2. QED  BY <1>1 DEF Orderly, OneActive, ActiveDocs

(* What an operation of run r does to the addresses of the others.         *)
LEMMA OwnAddresses ==
  ASSUME NEW d \in Databases, NEW r \in Runs, NEW e \in Emails
  PROVE  /\ \A x \in Emails : Consumed(d, e, r).email[x] =
              IF x = e /\ d.email[e] = r THEN "deleted" ELSE d.email[x]
         /\ Consumed(d, e, r).account = d.account
         /\ \A x \in Emails : Reconciled(d, e, r).email[x] =
              IF x = e /\ d.email[e] = r
              THEN IF e \in d.account THEN "deleted" ELSE "available" ELSE d.email[x]
         /\ Reconciled(d, e, r).account = d.account
<1>1. /\ \A x \in Emails : Consumed(d, e, r).email[x] =
           IF x = e /\ d.email[e] = r THEN "deleted" ELSE d.email[x]
      /\ Consumed(d, e, r).account = d.account
  BY DEF Consumed, Databases
<1>2. /\ \A x \in Emails : Released(d, {e}).email[x] =
           IF x = e THEN "available" ELSE d.email[x]
      /\ Released(d, {e}).account = d.account
  BY DEF Released, Databases
<1>3. QED  BY <1>1, <1>2 DEF Reconciled

LEMMA ReleasedAddresses ==
  ASSUME NEW d \in Databases, NEW E
  PROVE  /\ \A x \in Emails : Released(d, E).email[x] =
              IF x \in E THEN "available" ELSE d.email[x]
         /\ Released(d, E).account = d.account
BY DEF Released, Databases

LEMMA RunWrites ==
  ASSUME NEW d \in Databases, NEW r \in Runs, NEW s, NEW b
  PROVE  /\ Saved(d, r, s, b).email = d.email /\ Saved(d, r, s, b).account = d.account
         /\ Created(d, r).email = d.email /\ Created(d, r).account = d.account
         /\ CancelRequested(d, r).email = d.email
         /\ CancelRequested(d, r).account = d.account
BY DEF Saved, Created, CancelRequested, Databases

(* A run whose plan, workers and addresses a step leaves alone.            *)
LEMMA HoldsStays ==
  ASSUME NEW r \in Runs, HoldsPlan(r), plan'[r] = plan[r], plan[r] \in Seq(Emails),
         task'[r].pc = "gather" => /\ task[r].pc = "gather" /\ next'[r] = next[r]
                                   /\ worker'[r] = worker[r],
         Planning(r)' => Planning(r),
         \A e \in Emails : db.email[e] = r => db'.email[e] = r
  PROVE  HoldsPlan(r)'
<1>1. \A i \in 1 .. Len(plan[r]) : plan[r][i] \in Emails
  OBVIOUS
<1>2. \A D : Holds(r, D) => Holds(r, D)'
  BY <1>1 DEF Holds
<1>3. QED  BY <1>2 DEF HoldsPlan

LEMMA NewProcessTidies ==
  ASSUME Orderly, Tidy, NewProcess, db' = db
  PROVE  Tidy'
<1>1. /\ starter'.pc = "idle" /\ stopper'.pc = "idle" /\ recovery'.pc = "idle" /\ ~serving'
      /\ \A q \in Runs : task'[q].pc = "none"
  BY DEF NewProcess, NoStarter, NoStopper, NoRecovery, NoTask
<1>2. HoldsPlans' /\ Listing' /\ ScansAll'
  BY <1>1 DEF HoldsPlans, HoldsPlan, Planning, Listing, Executing, Starting, ScansAll
<1>3. ASSUME NEW e \in db.account PROVE Cared(e)'
  <2>1. Cared(e)
    BY DEF Tidy
  <2>2. ASSUME NEW r \in Runs, db.email[e] = r,
               ByTask(r, e) \/ ByStopper(r, e) \/ ByRecovery(r, e)
        PROVE  Cared(e)'
    <3>1. ByRecovery(r, e)'
      BY <1>1, <2>2, CarerIsActive DEF ByRecovery
    <3>2. QED  BY <2>2, <3>1 DEF Cared
  <2>3. QED  BY <2>1, <2>2 DEF Cared
<1>4. QED  BY <1>2, <1>3 DEF Tidy

(* start() works while requests are served, on a run without a task.       *)
LEMMA StartAlone ==
  ASSUME TypeOK, Parts, Orderly, Start, faults' = 0
  PROVE  /\ serving /\ online /\ stopper.pc = "idle" /\ recovery.pc = "idle"
         /\ \A d : ~Raises(d)
         /\ UNCHANGED <<connection, stopper, recovery>>
         /\ starter.pc # "idle" => starter.run \in Runs /\ Unstarted(starter.run)
<1>0. faults \in Nat /\ Calm /\ StartsOne
  BY DEF TypeOK, ConnectionType, Orderly, Parts
<1>1. serving
  BY <1>0 DEF Start, StartBegin, StartCheckActive, StartCreate, StartQueryEmails, StartReserve,
              StartReserveEnds, StartInsufficient, StartSetReserved, StartAbort,
              StartSaveFailed, StartTask, Calm
<1>2. online /\ stopper.pc = "idle" /\ recovery.pc = "idle"
  BY <1>0, <1>1, WhileServing DEF Calm
<1>3. \A d : ~Raises(d)
  BY <1>0, <1>2, NothingRaises
<1>4. UNCHANGED <<stopper, recovery>>
  BY DEF Start, StartBegin, StartCheckActive, StartCreate, StartQueryEmails,
         StartReserve, StartReserveEnds, StartInsufficient, StartSetReserved, StartAbort,
         StartSaveFailed, StartTask, OnlyStarter, OnlyStarterAndMem
<1>5. Quietly \/ \E d : Returns(d)
  BY <1>3 DEF Start, StartBegin, StartCheckActive, StartCreate, StartQueryEmails,
         StartReserve, StartReserveEnds, StartInsufficient, StartSetReserved, StartAbort,
         StartSaveFailed, StartTask
<1>6. UNCHANGED connection
  BY <1>5 DEF Quietly, Returns
<1>7. QED  BY <1>0, <1>1, <1>2, <1>3, <1>4, <1>6 DEF StartsOne

(* It does not touch the plans, the tasks and the addresses of the others, *)
(* nor an address that is stored.                                          *)
LEMMA StartTouchesOne ==
  ASSUME TypeOK, NEW r \in Runs, Start, starter.pc # "idle", starter.run = r, \A d : ~Raises(d)
  PROVE  /\ db'.account = db.account
         /\ \A x \in Emails : \/ db'.email[x] = db.email[x]
                              \/ db.email[x] = "available" \/ db.email[x] = r
         /\ \A q \in Runs \ {r} : /\ mem'[q] = mem[q] /\ plan'[q] = plan[q]
                                  /\ task'[q] = task[q] /\ worker'[q] = worker[q]
                                  /\ listed'[q] = listed[q]
         /\ next' = next
         /\ starter'.pc = "idle" \/ starter'.run = r
<1>0. /\ db \in Databases /\ starter \in Starters /\ mem \in [Runs -> States]
      /\ plan \in [Runs -> Seq(Emails)] /\ task \in [Runs -> Tasks] /\ DOMAIN worker = Runs
      /\ DOMAIN listed = Runs
  BY DEF TypeOK, MemoryType, CoroutineType
<1>1. /\ db'.account = db.account
      /\ \A x \in Emails : \/ db'.email[x] = db.email[x]
                           \/ db.email[x] = "available" \/ db.email[x] = r
  <2>1. \/ db' = db \/ db' = Released(db, HeldBy(db, r)) \/ db' = Created(db, r)
        \/ \E e \in Emails : db' = Reserved(db, e, r)
        \/ \E s \in {"failed", "running"} : db' = Saved(db, r, s, mem[r].cancel)
    BY DEF Start, StartBegin, StartCheckActive, StartCreate, StartQueryEmails,
           StartReserve, StartReserveEnds, StartInsufficient, StartSetReserved, StartAbort,
           StartSaveFailed, StartTask, Quietly, Returns
  <2>2. CASE db' = Released(db, HeldBy(db, r))
    BY <1>0, <2>2 DEF Released, HeldBy, Databases
  <2>3. ASSUME NEW e \in Emails, db' = Reserved(db, e, r) PROVE <1>1!:
    BY <1>0, <2>3 DEF Reserved, Databases
  <2>4. ASSUME NEW s, db' = Saved(db, r, s, mem[r].cancel) PROVE <1>1!:
    BY <1>0, <2>4, RunWrites
  <2>5. CASE db' = Created(db, r)
    BY <1>0, <2>5, RunWrites
  <2>6. QED  BY <2>1, <2>2, <2>3, <2>4, <2>5
<1>2. \A q \in Runs \ {r} : mem'[q] = mem[q]
  <2>1. mem' = mem \/ \E s : mem' = [mem EXCEPT ![r] = s]
    BY DEF Start, StartBegin, StartCheckActive, StartCreate, StartQueryEmails,
           StartReserve, StartReserveEnds, StartInsufficient, StartSetReserved, StartAbort,
           StartSaveFailed, StartTask, OnlyStarter, OnlyStarterAndMem, memory
  <2>2. QED  BY <1>0, <2>1
<1>3. \A q \in Runs \ {r} : plan'[q] = plan[q]
  <2>1. plan' = plan \/ \E s : plan' = [plan EXCEPT ![r] = s]
    BY DEF Start, StartBegin, StartCheckActive, StartCreate, StartQueryEmails,
           StartReserve, StartReserveEnds, StartInsufficient, StartSetReserved, StartAbort,
           StartSaveFailed, StartTask, OnlyStarter, OnlyStarterAndMem, memory
  <2>2. QED  BY <1>0, <2>1
<1>4. \A q \in Runs \ {r} : task'[q] = task[q] /\ worker'[q] = worker[q]
  <2>1. (task' = task /\ worker' = worker) \/ StartTask(r)
    BY DEF Start, StartBegin, StartCheckActive, StartCreate, StartQueryEmails,
           StartReserve, StartReserveEnds, StartInsufficient, StartSetReserved, StartAbort,
           StartSaveFailed, StartTask, OnlyStarter, OnlyStarterAndMem
  <2>2. QED  BY <1>0, <2>1 DEF StartTask
<1>5. next' = next /\ \A q \in Runs \ {r} : listed'[q] = listed[q]
  <2>1. next' = next /\ (listed' = listed \/ listed' = [listed EXCEPT ![r] = "own"])
    BY DEF Start, StartBegin, StartCheckActive, StartCreate, StartQueryEmails,
           StartReserve, StartReserveEnds, StartInsufficient, StartSetReserved, StartAbort,
           StartSaveFailed, StartTask, OnlyStarter, OnlyStarterAndMem, memory
  <2>2. QED  BY <1>0, <2>1
<1>6. starter'.pc = "idle" \/ starter'.run = r
  <2>1. starter' = NoStarter \/ starter'.run = starter.run
    BY <1>0 DEF Start, StartBegin, StartCheckActive, StartCreate, StartQueryEmails,
           StartReserve, StartReserveEnds, StartInsufficient, StartSetReserved, StartAbort,
           StartSaveFailed, StartTask, StartGoto, StartReturns, Starters
  <2>2. QED  BY <2>1 DEF NoStarter
<1>7. QED  BY <1>1, <1>2, <1>3, <1>4, <1>5, <1>6

(* What start() does to the plan of its run.                               *)
LEMMA StartHolds ==
  ASSUME TypeOK, Parts, Tidy, NEW r \in Runs, Start, starter.pc # "idle", starter.run = r,
         \A d : ~Raises(d)
  PROVE  HoldsPlan(r)'
<1>0. /\ db \in Databases /\ starter \in Starters /\ task \in [Runs -> Tasks]
      /\ plan \in [Runs -> Seq(Emails)] /\ plan[r] \in Seq(Emails)
      /\ Unstarted(r) /\ StartsOne /\ RunInv(r) /\ HoldsPlan(r)
      /\ worker \in [Runs -> [Workers -> WorkerStates]]
  BY DEF TypeOK, MemoryType, CoroutineType, Parts, StartsOne, Tidy, HoldsPlans
<1>1. task[r].pc = "none" /\ next[r] = 1
  BY <1>0 DEF Unstarted, NoTask
<1>2. \A pc : StartGoto(pc) => starter'.pc = pc
  BY <1>0 DEF StartGoto, Starters
<1>3. StartReturns => starter'.pc = "idle"
  BY DEF StartReturns, NoStarter
<1>4. ASSUME task'[r].pc # "gather", ~Planning(r)' PROVE HoldsPlan(r)'
  BY <1>4 DEF HoldsPlan
<1>5. ASSUME task' = task, plan' = plan, Planning(r), db'.email = db.email PROVE HoldsPlan(r)'
  <2>1. Holds(r, {}) /\ task'[r].pc # "gather"
    BY <1>0, <1>1, <1>5 DEF HoldsPlan
  <2>2. Holds(r, {})'
    BY <1>5, <2>1 DEF Holds
  <2>3. QED  BY <2>1, <2>2 DEF HoldsPlan
<1>6. CASE StartCheckActive \/ StartInsufficient(r) \/ StartAbort(r) \/ StartSaveFailed(r)
  <2>1. task' = task /\ starter'.pc \in {"idle", "create", "abort", "saveFailed"}
    BY <1>2, <1>3, <1>6 DEF StartCheckActive, StartInsufficient, StartAbort, StartSaveFailed,
                            OnlyStarter, OnlyStarterAndMem
  <2>2. QED  BY <1>1, <1>4, <2>1 DEF Planning
<1>7. CASE StartCreate(r)
  <2>1. task' = task /\ plan' = plan /\ starter.pc = "create"
    BY <1>7 DEF StartCreate
  <2>2. plan[r] = <<>>
    BY <1>0, <2>1 DEF StartsOne, RunInv, Unwritten
  <2>3. Holds(r, {})'
    BY <2>1, <2>2 DEF Holds
  <2>4. QED  BY <1>1, <2>1, <2>3 DEF HoldsPlan
<1>8. CASE StartQueryEmails
  <2>1. task' = task /\ plan' = plan /\ db' = db /\ starter.pc = "query"
    BY <1>8 DEF StartQueryEmails, Returns, OnlyStarter, memory
  <2>2. QED  BY <1>5, <2>1 DEF Planning
<1>9. CASE StartReserveEnds(r) \/ StartSetReserved(r)
  <2>1. /\ task' = task /\ plan' = plan /\ db' = db
        /\ starter.pc \in {"reserve", "setReserved"}
    BY <1>9 DEF StartReserveEnds, StartSetReserved, Returns, Quietly, OnlyStarter, memory
  <2>2. QED  BY <1>5, <2>1 DEF Planning
<1>10. ASSUME NEW e \in Emails, StartReserve(r, e) PROVE HoldsPlan(r)'
  <2>1. /\ task' = task /\ starter.pc = "reserve" /\ db' = Reserved(db, e, r)
        /\ plan' = IF db.email[e] = "available"
                   THEN [plan EXCEPT ![r] = Append(@, e)] ELSE plan
    BY <1>10 DEF StartReserve, Returns
  <2>2. CASE db.email[e] # "available"
    BY <1>5, <2>1, <2>2 DEF Reserved, Planning
  <2>3. CASE db.email[e] = "available"
    <3>1. /\ \A x \in Emails : db'.email[x] = IF x = e THEN r ELSE db.email[x]
          /\ plan'[r] = Append(plan[r], e)
      BY <1>0, <2>1, <2>3 DEF Reserved, Databases
    <3>2. Holds(r, {})
      BY <1>0, <2>1 DEF HoldsPlan, Planning
    <3>3. \A i \in 1 .. Len(plan[r]) : db.email[plan[r][i]] = r /\ plan[r][i] \in Emails
      BY <1>0, <3>2 DEF Holds
    <3>4. \A i \in 1 .. Len(plan[r]) : plan[r][i] # e
      BY <2>3, <3>3, NamesDistinct
    <3>5. /\ Len(plan'[r]) = Len(plan[r]) + 1 /\ Len(plan[r]) \in Nat
          /\ \A i \in 1 .. Len(plan[r]) + 1 :
               plan'[r][i] = IF i = Len(plan[r]) + 1 THEN e ELSE plan[r][i]
      BY <1>0, <3>1
    <3> DEFINE n == Len(plan[r])
    <3>6. \A i \in 1 .. n + 1 : i = n + 1 \/ i \in 1 .. n
      BY <3>5
    <3>7. \A i, j \in 1 .. n : plan[r][i] = plan[r][j] => i = j
      BY <3>2 DEF Holds
    <3> HIDE DEF n
    <3>8. Holds(r, {})'
      <4>1. \A i \in 1 .. n + 1 : db'.email[plan'[r][i]] = r
        BY <3>1, <3>3, <3>4, <3>5, <3>6 DEF n
      <4>2. \A i, j \in 1 .. n + 1 : plan'[r][i] = plan'[r][j] => i = j
        BY <3>4, <3>5, <3>6, <3>7 DEF n
      <4>3. QED  BY <3>5, <4>1, <4>2 DEF Holds, n
    <3>9. QED  BY <1>1, <2>1, <3>8 DEF HoldsPlan
  <2>4. QED  BY <2>2, <2>3
<1>11. CASE StartTask(r)
  <2>1. /\ plan' = plan /\ next' = next /\ starter.pc = "save" /\ StartReturns
        /\ db' = Saved(db, r, "running", mem[r].cancel)
    BY <1>11 DEF StartTask, Returns
  <2>2. Holds(r, {})
    BY <1>0, <2>1 DEF HoldsPlan, Planning
  <2>3. db'.email = db.email
    BY <1>0, <2>1, RunWrites
  <2>4. \A D : Holds(r, D)'
    BY <2>1, <2>2, <2>3 DEF Holds
  <2>5. QED  BY <2>4 DEF HoldsPlan
<1>12. QED
  BY <1>6, <1>7, <1>8, <1>9, <1>10, <1>11 DEF Start, StartCreate, StartReserveEnds,
     StartInsufficient, StartSetReserved, StartAbort, StartSaveFailed, StartTask, StartReserve,
     StartBegin

LEMMA StartTidies ==
  ASSUME TypeOK, Parts, Orderly, Tidy, Start, faults' = 0
  PROVE  Tidy'
<1>0. /\ serving /\ online /\ stopper.pc = "idle" /\ recovery.pc = "idle"
      /\ \A d : ~Raises(d)
      /\ UNCHANGED <<connection, stopper, recovery>>
      /\ starter.pc # "idle" => starter.run \in Runs /\ Unstarted(starter.run)
  BY StartAlone
<1>1. ScansAll'
  BY <1>0 DEF ScansAll
<1>2. \A e \in db.account : \/ db.email[e] = "deleted"
                            \/ \E r \in Runs : db.email[e] = r /\ ByTask(r, e)
  BY <1>0 DEF Tidy, Cared, ByStopper, ByRecovery
<1>3. CASE starter.pc = "idle"
  <2>1. PICK q \in Runs, n \in 1 .. Cardinality(Emails) : StartBegin(q, n)
    BY <1>3 DEF Start, StartCheckActive, StartCreate, StartQueryEmails, StartReserve,
           StartReserveEnds, StartInsufficient, StartSetReserved, StartAbort,
           StartSaveFailed, StartTask
  <2>2. /\ db' = db /\ UNCHANGED <<task, mem, worker, plan, next, listed>>
        /\ starter'.pc = "check"
    BY <2>1 DEF StartBegin, Quietly, OnlyStarter, memory, NoStarter
  <2>3. \A r \in Runs : HoldsPlan(r) => HoldsPlan(r)'
    BY <2>2 DEF HoldsPlan, Planning, Holds
  <2>4. \A e \in db.account : Cared(e)'
    BY <1>2, <2>2 DEF Cared, ByTask, OnConsume, Job
  <2>5. Listing'
    BY <2>2 DEF Tidy, Listing, Executing, Starting
  <2>6. QED  BY <1>1, <2>2, <2>3, <2>4, <2>5 DEF Tidy, HoldsPlans
<1>4. ASSUME NEW r \in Runs, starter.pc # "idle", starter.run = r PROVE Tidy'
  <2>1. /\ db'.account = db.account
        /\ \A x \in Emails : \/ db'.email[x] = db.email[x]
                             \/ db.email[x] = "available" \/ db.email[x] = r
        /\ \A q \in Runs \ {r} : /\ mem'[q] = mem[q] /\ plan'[q] = plan[q]
                                 /\ task'[q] = task[q] /\ worker'[q] = worker[q]
                                 /\ listed'[q] = listed[q]
        /\ next' = next
        /\ starter'.pc = "idle" \/ starter'.run = r
    BY <1>0, <1>4, StartTouchesOne
  <2>2. task[r].pc = "none"
    BY <1>0, <1>4 DEF Unstarted, NoTask
  <2>3. HoldsPlan(r)'
    BY <1>0, <1>4, StartHolds
  <2>4. ASSUME NEW q \in Runs \ {r} PROVE HoldsPlan(q)'
    <3>1. HoldsPlan(q) /\ plan[q] \in Seq(Emails)
      BY DEF Tidy, HoldsPlans, TypeOK, MemoryType
    <3>2. ~Planning(q)'
      BY <2>1 DEF Planning
    <3>3. \A e \in Emails : db.email[e] = q => db'.email[e] = q
      BY <2>1, NamesDistinct
    <3>4. QED  BY <2>1, <3>1, <3>2, <3>3, HoldsStays
  <2>5. ASSUME NEW e \in db.account PROVE Cared(e)'
    <3>0. e \in Emails
      BY DEF TypeOK, Databases
    <3>1. CASE db.email[e] = "deleted"
      <4>1. db'.email[e] = "deleted"
        BY <2>1, <3>0, <3>1, NamesDistinct
      <4>2. QED  BY <4>1 DEF Cared
    <3>2. ASSUME NEW q \in Runs, db.email[e] = q, ByTask(q, e) PROVE Cared(e)'
      <4>1. q # r
        BY <2>2, <3>2 DEF ByTask
      <4>2. ByTask(q, e)'
        BY <2>1, <3>2, <4>1 DEF ByTask, OnConsume, Job
      <4>3. db'.email[e] = q
        BY <2>1, <3>0, <3>2, <4>1, NamesDistinct
      <4>4. QED  BY <4>2, <4>3 DEF Cared
    <3>3. QED  BY <1>2, <3>1, <3>2
  <2>6. Listing'
    <3>1. \/ listed'[r] = "own"
          \/ task'[r].pc = "none" /\ (starter'.run = r => starter'.pc \notin Starting)
      <4>0. Listing /\ listed \in [Runs -> {"none", "own", "copy"}] /\ starter \in Starters
        BY DEF Tidy, TypeOK, MemoryType, CoroutineType
      <4>1. CASE starter.pc \in Starting
        <5>1. listed[r] = "own"
          BY <1>4, <4>0, <4>1 DEF Listing, Executing
        <5>2. listed' = listed \/ listed' = [listed EXCEPT ![r] = "own"]
          BY <1>4 DEF Start, StartBegin, StartCheckActive, StartCreate, StartQueryEmails,
             StartReserve, StartReserveEnds, StartInsufficient, StartSetReserved, StartAbort,
             StartSaveFailed, StartTask, OnlyStarter, OnlyStarterAndMem, memory
        <5>3. QED  BY <4>0, <5>1, <5>2
      <4>2. CASE StartCheckActive
        <5>1. starter'.pc \notin Starting /\ task' = task
          BY <4>0, <4>2 DEF StartCheckActive, StartGoto, StartReturns, NoStarter, Starters,
                            Starting, OnlyStarter
        <5>2. QED  BY <2>2, <5>1
      <4>3. CASE StartCreate(r)
        <5>1. task' = task /\ (listed'[r] = "own" \/ StartReturns)
          BY <4>0, <4>3 DEF StartCreate
        <5>2. QED  BY <2>2, <5>1 DEF StartReturns, NoStarter, Starting
      <4>4. QED
        BY <1>4, <4>1, <4>2, <4>3 DEF Start, StartBegin, StartCreate, StartQueryEmails,
           StartReserve, StartReserveEnds, StartInsufficient, StartSetReserved, StartAbort,
           StartSaveFailed, StartTask, Starting
    <3>2. \A q \in Runs \ {r} : /\ task'[q].pc # "none" => listed'[q] = "own"
                                /\ ~(starter'.run = q /\ starter'.pc \in Starting)
      <4>1. "idle" \notin Starting
        BY DEF Starting
      <4>2. QED  BY <2>1, <4>1 DEF Tidy, Listing, Executing
    <3>3. QED  BY <3>1, <3>2 DEF Listing, Executing
  <2>7. QED  BY <1>1, <2>1, <2>3, <2>4, <2>5, <2>6 DEF Tidy, HoldsPlans
<1>5. QED  BY <1>0, <1>3, <1>4

(* What a worker that ends no run does to the queue.                       *)
LEMMA WorkHands ==
  ASSUME IInv, IInv', NEW r \in Runs, RunInv(r), RunInv(r)', NEW w \in Workers, Work(r, w),
         \A d : ~Raises(d), ~WorkerTimesOut(r, w), ~WorkerSpins(r, w)
  PROVE  /\ plan' = plan /\ task' = task /\ task[r].pc = "gather"
         /\ \A v \in Workers \ {w} : worker'[r][v] = worker[r][v]
         /\ Finished(worker'[r], next'[r]) =
              Finished(worker[r], next[r]) \cup
                (IF worker[r][w].pc \in {"consume", "fail", "release"}
                 THEN {worker[r][w].job} ELSE {})
<1> DEFINE c == worker'[r][w]
<1>0. /\ worker[r] \in WorkerTable /\ c \in WorkerStates /\ next[r] \in Nat \ {0}
      /\ next \in [Runs -> Nat \ {0}]
      /\ worker \in [Runs -> [Workers -> WorkerStates]] /\ TypeOK
      /\ worker[r][w] \in WorkerStates
  BY DEF IInv, TypeOK, CoroutineType, MemoryType, WorkerTable
<1>1. plan' = plan /\ task' = task
  BY DEF Work, WorkerTakes, WorkerWakes, WorkerRegistersAccount, WorkerConsumesEmail,
         WorkerFailsEmail, WorkerRecords, WorkerReleases, WorkerUnavailable, OnlyRun
<1>2. worker[r][w].pc # "exit"
  BY DEF Work, WorkerTakes, WorkerWakes, WorkerRegistersAccount, WorkerConsumesEmail,
         WorkerFailsEmail, WorkerRecords, WorkerReleases, WorkerUnavailable, WorkerSpins, WorkerTimesOut,
         WorkerCall
<1>3. task[r].pc = "gather" /\ InOrder(worker[r], next[r])
  BY <1>0, <1>2, AtWork DEF Gathering
<1>4. InOrder(worker'[r], next'[r])
  BY <1>1, <1>3 DEF RunInv, Working, Gathering
<1>5. worker'[r] = [worker[r] EXCEPT ![w] = c]
  <2>1. \E k : WorkerBecomes(r, w, k)
    BY DEF Work, WorkerTakes, WorkerWakes, WorkerRegistersAccount, WorkerConsumesEmail,
           WorkerFailsEmail, WorkerRecords, WorkerReleases, WorkerUnavailable, Counted
  <2>2. QED  BY <1>0, <2>1 DEF WorkerBecomes
<1>6. \A v \in Workers \ {w} : worker'[r][v] = worker[r][v]
  BY <1>0, <1>5 DEF WorkerTable
<1>7. \A k : WorkerBecomes(r, w, k) => c = k
  BY <1>0 DEF WorkerBecomes
<1>8. ASSUME next'[r] = next[r], c.pc \in Handling <=> worker[r][w].pc \in Handling,
             c.pc \in Handling => c.job = worker[r][w].job
      PROVE  Finished(worker'[r], next'[r]) = Finished(worker[r], next[r])
  <2>1. /\ c.pc \in {"account", "consume"} => ~ShouldFail(c.job)
        /\ c.pc = "fail" => ShouldFail(c.job)
    BY <1>4 DEF InOrder
  <2> HIDE DEF c
  <2>2. QED  BY <1>0, <1>3, <1>5, <1>8, <2>1, SameHands
<1>9. ASSUME next'[r] = next[r], worker[r][w].pc \in Handling, c.pc \notin Handling
      PROVE  Finished(worker'[r], next'[r]) =
               Finished(worker[r], next[r]) \cup {worker[r][w].job}
  <2> DEFINE W == worker[r]  n == next[r]
  <2>1. /\ W \in WorkerTable /\ n \in Nat /\ c \in WorkerStates /\ InOrder(W, n)
        /\ W[w].pc \in Handling /\ c.pc \notin Handling
        /\ worker'[r] = [W EXCEPT ![w] = c] /\ next'[r] = n
    BY <1>0, <1>3, <1>5, <1>9
  <2> HIDE DEF c, W, n
  <2>2. Finished([W EXCEPT ![w] = c], n) = Finished(W, n) \cup {W[w].job}
    BY <2>1, PutsDown
  <2>3. Finished(worker'[r], next'[r]) = Finished(W, n) \cup {W[w].job}
    BY <2>1, <2>2
  <2>4. QED  BY <2>3 DEF W, n
<1>10. CASE WorkerTakes(r, w)
  <2>1. worker[r][w].pc = "take"
    BY <1>10 DEF WorkerTakes, WorkerCall
  <2>2. CASE event[r] \/ next[r] > Len(plan[r])
    <3>1. c = NoWorker /\ next' = next
      BY <1>7, <1>10, <2>2 DEF WorkerTakes
    <3>2. Finished(worker'[r], next'[r]) = Finished(worker[r], next[r])
      BY <1>8, <2>1, <3>1 DEF NoWorker, Handling
    <3>3. QED  BY <1>1, <1>3, <1>6, <2>1, <3>2
  <2>3. CASE ~(event[r] \/ next[r] > Len(plan[r]))
    <3>1. c = [worker[r][w] EXCEPT !.pc = "sleep", !.job = next[r]] /\ next'[r] = next[r] + 1
      BY <1>0, <1>7, <1>10, <2>3 DEF WorkerTakes, WorkerCall
    <3>2. c.pc = "sleep" /\ c.job = next[r]
      BY <1>0, <3>1 DEF WorkerStates
    <3>3. worker[r][w].pc \notin Handling
      BY <2>1 DEF Handling
    <3> HIDE DEF c
    <3>4. Finished([worker[r] EXCEPT ![w] = c], next[r] + 1) = Finished(worker[r], next[r])
      BY <1>0, <1>3, <3>2, <3>3, TakesNext
    <3>5. Finished(worker'[r], next'[r]) = Finished(worker[r], next[r])
      BY <1>5, <3>1, <3>4
    <3>6. QED  BY <1>1, <1>3, <1>6, <2>1, <3>5
  <2>4. QED  BY <2>2, <2>3
<1>11. CASE \/ WorkerWakes(r, w) \/ WorkerRegistersAccount(r, w) \/ WorkerRecords(r, w)
  <2>1. /\ next' = next /\ worker[r][w].pc \in {"sleep", "account", "record"}
        /\ \/ /\ worker[r][w].pc = "sleep"
              /\ c = Call(worker[r][w], AfterWork(r, w), mem[r].status)
           \/ worker[r][w].pc = "account" /\ c = [worker[r][w] EXCEPT !.pc = "consume"]
           \/ worker[r][w].pc = "record" /\ c = [NoWorker EXCEPT !.pc = "take"]
    BY <1>7, <1>11 DEF WorkerWakes, WorkerRegistersAccount, WorkerRecords, WorkerCall, OnlyRun
  <2>2. \/ worker[r][w].pc = "record" /\ c.pc = "take"
        \/ /\ worker[r][w].pc \in Handling /\ c.job = worker[r][w].job
           /\ c.pc \in {"release", "fail", "account", "consume"}
    BY <1>0, <2>1 DEF Call, AfterWork, NoWorker, WorkerStates, Handling
  <2>3. Finished(worker'[r], next'[r]) = Finished(worker[r], next[r])
    BY <1>8, <2>1, <2>2 DEF Handling
  <2>4. worker[r][w].pc \notin {"consume", "fail", "release"}
    BY <2>1
  <2>5. QED  BY <1>1, <1>3, <1>6, <2>3, <2>4
<1>12. CASE WorkerConsumesEmail(r, w) \/ WorkerFailsEmail(r, w) \/ WorkerReleases(r, w)
  <2>1. /\ next' = next /\ worker[r][w].pc \in {"consume", "fail", "release"}
        /\ c = NoWorker \/ c = Call(worker[r][w], "record", Resumed(worker[r][w], r))
    BY <1>7, <1>12 DEF WorkerConsumesEmail, WorkerFailsEmail, WorkerReleases, Counted,
                       WorkerCall, OnlyRun
  <2>2. ASSUME NEW s PROVE Call(worker[r][w], "record", s).pc = "record"
    BY <1>0 DEF Call, WorkerStates
  <2>3. c.pc \notin Handling /\ worker[r][w].pc \in Handling
    BY <2>1, <2>2 DEF NoWorker, Handling
  <2>4. QED  BY <1>1, <1>3, <1>6, <1>9, <2>1, <2>3
<1>13. ~WorkerUnavailable(r, w) /\ ~WorkerSpins(r, w)
  BY DEF WorkerUnavailable
<1>14. QED  BY <1>10, <1>11, <1>12, <1>13 DEF Work

(* What its operation does to the addresses.                               *)
LEMMA WorkEmails ==
  ASSUME IInv, NEW r \in Runs, NEW w \in Workers, Work(r, w), \A d : ~Raises(d),
         ~WorkerSpins(r, w)
  PROVE  /\ \A x \in Emails :
              \/ db'.email[x] = db.email[x]
              \/ /\ worker[r][w].pc \in {"consume", "fail", "release"}
                 /\ x = Job(r, w) /\ db.email[x] = r
         /\ worker[r][w].pc = "consume" =>
              \/ WorkerTimesOut(r, w)
              \/ db.email[Job(r, w)] = r => db'.email[Job(r, w)] = "deleted"
         /\ \/ db'.account = db.account
            \/ /\ worker[r][w].pc = "account" /\ worker'[r][w].pc = "consume"
               /\ worker'[r][w].job = worker[r][w].job /\ task' = task
               /\ db'.account = db.account \cup {Job(r, w)}
<1>0. /\ db \in Databases /\ TypeOK /\ JobsReserved
      /\ worker \in [Runs -> [Workers -> WorkerStates]] /\ worker[r][w] \in WorkerStates
  BY DEF IInv, TypeOK, CoroutineType
<1>1. CASE db' = db /\ worker[r][w].pc # "consume"
  BY <1>1
<1>2. CASE WorkerTakes(r, w) \/ WorkerWakes(r, w) \/ WorkerTimesOut(r, w)
  <2>1. db' = db /\ worker[r][w].pc # "consume"
    BY <1>2 DEF WorkerTakes, WorkerWakes, WorkerTimesOut, Quietly, WorkerCall
  <2>2. QED  BY <1>1, <2>1
<1>3. CASE WorkerRegistersAccount(r, w)
  <2>1. /\ db' = Registered(db, Job(r, w)) /\ worker[r][w].pc = "account" /\ task' = task
        /\ worker' = [worker EXCEPT ![r][w] = [worker[r][w] EXCEPT !.pc = "consume"]]
    BY <1>3 DEF WorkerRegistersAccount, WorkerEffect, WorkerCall, Returns, WorkerBecomes
  <2>2. worker'[r][w] = [worker[r][w] EXCEPT !.pc = "consume"]
    BY <1>0, <2>1
  <2>3. worker'[r][w].pc = "consume" /\ worker'[r][w].job = worker[r][w].job
    BY <1>0, <2>2 DEF WorkerStates
  <2>4. db'.email = db.email /\ db'.account = db.account \cup {Job(r, w)}
    BY <1>0, <2>1 DEF Registered, Databases
  <2>5. QED  BY <2>1, <2>3, <2>4
<1>4. CASE WorkerConsumesEmail(r, w)
  <2>1. db' = Consumed(db, Job(r, w), r) /\ worker[r][w].pc = "consume"
    BY <1>4 DEF WorkerConsumesEmail, WorkerEffect, WorkerCall, Returns
  <2>2. Job(r, w) \in Emails
    BY <1>0, <2>1, JobTypes
  <2>3. /\ \A x \in Emails : db'.email[x] =
             IF x = Job(r, w) /\ db.email[x] = r THEN "deleted" ELSE db.email[x]
        /\ db'.account = db.account
    BY <1>0, <2>1, <2>2, OwnAddresses
  <2>4. QED  BY <2>1, <2>2, <2>3
<1>5. CASE WorkerFailsEmail(r, w) \/ WorkerReleases(r, w)
  <2>1. /\ db' = Released(db, {Job(r, w)} \cap HeldBy(db, r))
        /\ worker[r][w].pc \in {"fail", "release"}
    BY <1>5 DEF WorkerFailsEmail, WorkerReleases, WorkerEffect, WorkerCall, Returns
  <2>2. {Job(r, w)} \cap HeldBy(db, r) \in SUBSET Emails /\ Job(r, w) \in Emails
    BY <1>0, <2>1, JobTypes DEF HeldBy
  <2>3. /\ \A x \in Emails : db'.email[x] =
             IF x \in {Job(r, w)} \cap HeldBy(db, r) THEN "available" ELSE db.email[x]
        /\ db'.account = db.account
    BY <1>0, <2>1, ReleasedAddresses
  <2>4. QED  BY <2>1, <2>3 DEF HeldBy
<1>6. CASE WorkerRecords(r, w)
  <2>1. /\ worker[r][w].pc = "record"
        /\ db' = Saved(db, r, Resumed(worker[r][w], r), mem[r].cancel)
    BY <1>6 DEF WorkerRecords, WorkerEffect, WorkerCall, Returns
  <2>2. db'.email = db.email /\ db'.account = db.account
    BY <1>0, <2>1, RunWrites
  <2>3. QED  BY <2>1, <2>2
<1>7. ~WorkerUnavailable(r, w)
  BY DEF WorkerUnavailable
<1>8. QED  BY <1>2, <1>3, <1>4, <1>5, <1>6, <1>7 DEF Work

(* A run that is executed: its stored addresses are its own business.      *)
LEMMA RunOwnsStored ==
  ASSUME Orderly, StopsAlone, NEW r \in Runs, task[r].pc # "none", NEW e, Cared(e)
  PROVE  \/ db.email[e] = "deleted"
         \/ db.email[e] = r /\ ByTask(r, e)
<1>1. db.run[r].status \in Active
  BY OwnerIsActive
<1>2. ~ByStopper(r, e)
  BY DEF StopsAlone, ByStopper
<1>3. ~ByRecovery(r, e)
  BY DEF ByRecovery, Orderly, Calm
<1>4. QED  BY <1>1, <1>2, <1>3, OthersAreDeleted

LEMMA ListingStays ==
  ASSUME Listing, listed' = listed, starter' = starter,
         \A q \in Runs : task'[q].pc # "none" => task[q].pc # "none"
  PROVE  Listing'
BY DEF Listing, Executing

LEMMA WorkTidies ==
  ASSUME IInv, IInv', Parts, Parts', Orderly, Tidy, faults' = 0,
         NEW r \in Runs, NEW w \in Workers, Work(r, w)
  PROVE  Tidy'
<1>0. /\ TypeOK /\ JobsReserved /\ RunInv(r) /\ RunInv(r)' /\ StopsAlone /\ faults \in Nat
      /\ plan[r] \in Seq(Emails) /\ task \in [Runs -> Tasks] /\ mem \in [Runs -> States]
      /\ DOMAIN worker = Runs
      /\ HoldsPlans /\ (\A e \in db.account : Cared(e) /\ e \in Emails) /\ Listing /\ ScansAll
  BY DEF IInv, TypeOK, ConnectionType, MemoryType, CoroutineType, Databases, Parts, Tidy
<1>1. worker[r][w].pc # "exit"
  BY DEF Work, WorkerTakes, WorkerWakes, WorkerRegistersAccount, WorkerConsumesEmail,
         WorkerFailsEmail, WorkerRecords, WorkerReleases, WorkerUnavailable, WorkerSpins, WorkerTimesOut,
         WorkerCall
<1>2. task[r].pc = "gather" /\ Gathering(r)
  BY <1>0, <1>1, AtWork
<1>3. online
  BY <1>2, OwnerIsActive
<1>4. (\A d : ~Raises(d)) /\ ~WorkerSpins(r, w)
  BY <1>0, <1>3, NothingRaises, OnlineNothingSpins
<1>5. /\ UNCHANGED <<listed, plan, starter, recovery, stopper>>
      /\ \A q \in Runs \ {r} : /\ task'[q] = task[q] /\ worker'[q] = worker[q]
                               /\ next'[q] = next[q]
  <2>1. UNCHANGED <<listed, plan, starter, recovery, stopper>>
    BY DEF Work, WorkerTakes, WorkerWakes, WorkerRegistersAccount, WorkerConsumesEmail,
           WorkerFailsEmail, WorkerRecords, WorkerReleases, WorkerUnavailable, WorkerSpins, WorkerTimesOut,
           OnlyRun
  <2>2. task' = task \/ \E s : task' = [task EXCEPT ![r] = s]
    BY <1>4 DEF Work, WorkerTakes, WorkerWakes, WorkerRegistersAccount, WorkerConsumesEmail,
           WorkerFailsEmail, WorkerRecords, WorkerReleases, WorkerUnavailable, WorkerSpins, WorkerTimesOut,
           AbortWorkers
  <2>3. \/ WorkerTimesOut(r, w) \/ \E c : WorkerBecomes(r, w, c)
    BY <1>4 DEF Work, WorkerTakes, WorkerWakes, WorkerRegistersAccount, WorkerConsumesEmail,
           WorkerFailsEmail, WorkerRecords, WorkerReleases, WorkerUnavailable, Counted
  <2>4. \A q \in Runs \ {r} : worker'[q] = worker[q]
    BY <1>0, <2>3 DEF WorkerTimesOut, AbortWorkers, WorkerBecomes
  <2>5. next' = next \/ next' = [next EXCEPT ![r] = @ + 1]
    BY DEF Work, WorkerTakes, WorkerWakes, WorkerRegistersAccount, WorkerConsumesEmail,
           WorkerFailsEmail, WorkerRecords, WorkerReleases, WorkerUnavailable, WorkerSpins, WorkerTimesOut,
           OnlyRun
  <2>6. next \in [Runs -> Nat \ {0}]
    BY <1>0 DEF TypeOK, MemoryType
  <2>7. QED  BY <1>0, <2>1, <2>2, <2>4, <2>5, <2>6
<1>6. /\ \A x \in Emails :
            \/ db'.email[x] = db.email[x]
            \/ /\ worker[r][w].pc \in {"consume", "fail", "release"}
               /\ x = Job(r, w) /\ db.email[x] = r
      /\ worker[r][w].pc = "consume" =>
            \/ WorkerTimesOut(r, w)
            \/ db.email[Job(r, w)] = r => db'.email[Job(r, w)] = "deleted"
      /\ \/ db'.account = db.account
         \/ /\ worker[r][w].pc = "account" /\ worker'[r][w].pc = "consume"
            /\ worker'[r][w].job = worker[r][w].job /\ task' = task
            /\ db'.account = db.account \cup {Job(r, w)}
  BY <1>4, WorkEmails
<1>7. Holds(r, Finished(worker[r], next[r]))
  BY <1>0, <1>2 DEF HoldsPlans, HoldsPlan
<1>8. \A v \in Workers : worker[r][v].pc \in Handling =>
        /\ worker[r][v].job \in 1 .. Len(plan[r])
        /\ worker[r][v].job \notin Finished(worker[r], next[r])
        /\ v # w /\ worker[r][w].pc \in Handling => Job(r, v) # Job(r, w)
  <2>1. ASSUME NEW v \in Workers, worker[r][v].pc \in Handling
        PROVE  /\ worker[r][v].job \in 1 .. Len(plan[r])
               /\ worker[r][v].job \notin Finished(worker[r], next[r])
    BY <1>0, <2>1 DEF JobsReserved, Finished, Handles, Handling
  <2>2. ASSUME NEW v \in Workers, worker[r][v].pc \in Handling, v # w,
               worker[r][w].pc \in Handling
        PROVE  Job(r, v) # Job(r, w)
    <3>1. worker[r][v].job # worker[r][w].job
      BY <1>2, <2>2 DEF Gathering, InOrder
    <3>2. worker[r][v].job \in 1 .. Len(plan[r]) /\ worker[r][w].job \in 1 .. Len(plan[r])
      BY <2>1, <2>2
    <3>3. QED  BY <1>7, <3>1, <3>2 DEF Holds, Job
  <2>3. QED  BY <2>1, <2>2
<1>9. ~Planning(r)
  <2>1. StartsOne
    BY DEF Parts
  <2>2. QED  BY <1>2, <2>1 DEF StartsOne, Planning, Unstarted, NoTask
<1>10. HoldsPlan(r)'
  <2>1. CASE WorkerTimesOut(r, w)
    <3>1. task'[r].pc = "failing"
      BY <1>0, <2>1 DEF WorkerTimesOut, AbortWorkers, Call, Tasks
    <3>2. QED  BY <1>5, <1>9, <3>1 DEF HoldsPlan, Planning
  <2>2. CASE ~WorkerTimesOut(r, w)
    <3>1. Finished(worker'[r], next'[r]) =
            Finished(worker[r], next[r]) \cup
              (IF worker[r][w].pc \in {"consume", "fail", "release"}
               THEN {worker[r][w].job} ELSE {})
      BY <1>0, <1>4, <2>2, WorkHands
    <3> DEFINE D == Finished(worker[r], next[r])
               F == Finished(worker'[r], next'[r])
    <3>2. D \subseteq F /\ (worker[r][w].pc \in {"consume", "fail", "release"} =>
                               worker[r][w].job \in F)
      BY <3>1
    <3> HIDE DEF D, F
    <3>3. ASSUME NEW i \in 1 .. Len(plan[r]), i \notin F PROVE db'.email[plan[r][i]] = r
      <4>1. db.email[plan[r][i]] = r
        BY <1>7, <3>2, <3>3 DEF Holds, D
      <4>2. plan[r][i] \in Emails
        BY <1>0
      <4>3. ASSUME worker[r][w].pc \in {"consume", "fail", "release"}
            PROVE  plan[r][i] # Job(r, w)
        <5>1. worker[r][w].job # i /\ worker[r][w].job \in 1 .. Len(plan[r])
          BY <1>8, <3>2, <3>3, <4>3 DEF Handling
        <5>2. QED  BY <1>7, <5>1 DEF Holds, Job
      <4>4. QED  BY <1>6, <4>1, <4>2, <4>3
    <3>4. Holds(r, Finished(worker[r], next[r]))'
      BY <1>5, <1>7, <3>3 DEF Holds, F
    <3>5. QED  BY <1>5, <1>9, <3>4 DEF HoldsPlan, Planning
  <2>3. QED  BY <2>1, <2>2
<1>11. ASSUME NEW q \in Runs \ {r} PROVE HoldsPlan(q)'
  <2>1. HoldsPlan(q) /\ plan[q] \in Seq(Emails)
    BY <1>0 DEF HoldsPlans, TypeOK, MemoryType
  <2>2. \A e \in Emails : db.email[e] = q => db'.email[e] = q
    BY <1>6
  <2>3. Planning(q)' => Planning(q)
    BY <1>5 DEF Planning
  <2>4. QED  BY <1>5, <2>1, <2>2, <2>3, HoldsStays
<1>12. ASSUME NEW e \in db'.account PROVE Cared(e)'
  <2>1. CASE e \notin db.account
    <3>1. /\ worker[r][w].pc = "account" /\ worker'[r][w].pc = "consume"
          /\ worker'[r][w].job = worker[r][w].job /\ task' = task /\ e = Job(r, w)
      BY <1>6, <2>1
    <3>2. e \in Emails
      BY <1>0, <3>1, JobTypes
    <3>3. db.email[e] = r
      BY <1>7, <1>8, <3>1 DEF Handling, Holds, Job
    <3>4. db'.email[e] = r
      BY <1>6, <3>1, <3>2, <3>3
    <3>5. ByTask(r, e)'
      BY <1>2, <1>5, <3>1 DEF ByTask, OnConsume, Job
    <3>6. QED  BY <3>4, <3>5 DEF Cared
  <2>2. CASE e \in db.account /\ db.email[e] = "deleted"
    <3>1. db'.email[e] = "deleted"
      BY <1>0, <1>6, <2>2, NamesDistinct
    <3>2. QED  BY <3>1 DEF Cared
  <2>3. CASE e \in db.account /\ db.email[e] # "deleted"
    <3>1. db.email[e] = r /\ ByTask(r, e) /\ e \in Emails
      BY <1>0, <1>2, <2>3, RunOwnsStored
    <3>2. PICK v \in Workers : worker[r][v].pc = "consume" /\ Job(r, v) = e
      BY <1>2, <3>1 DEF ByTask, OnConsume
    <3>3. CASE WorkerTimesOut(r, w)
      <4>1. task'[r].pc = "failing" /\ mem'[r].status = mem[r].status /\ db' = db
        BY <1>0, <3>3 DEF WorkerTimesOut, AbortWorkers, WithStatus, Quietly, Call, Tasks, States
      <4>2. ByTask(r, e)'
        BY <1>2, <4>1 DEF ByTask, Gathering
      <4>3. QED  BY <3>1, <4>1, <4>2 DEF Cared
    <3>4. CASE v = w /\ ~WorkerTimesOut(r, w)
      <4>1. db'.email[e] = "deleted"
        BY <1>6, <3>1, <3>2, <3>4
      <4>2. QED  BY <4>1 DEF Cared
    <3>5. CASE v # w /\ ~WorkerTimesOut(r, w)
      <4>1. worker'[r][v] = worker[r][v] /\ task' = task /\ plan' = plan
        BY <1>0, <1>4, <3>5, WorkHands
      <4>2. ByTask(r, e)'
        BY <1>2, <3>2, <4>1 DEF ByTask, OnConsume, Job
      <4>3. worker[r][w].pc \in {"consume", "fail", "release"} => e # Job(r, w)
        BY <1>8, <3>2, <3>5 DEF Handling
      <4>4. db'.email[e] = r
        BY <1>6, <3>1, <4>3
      <4>5. QED  BY <4>2, <4>4 DEF Cared
    <3>6. QED  BY <3>3, <3>4, <3>5
  <2>4. QED  BY <2>1, <2>2, <2>3
<1>13. Listing'
  <2>1. \A q \in Runs : task'[q].pc # "none" => task[q].pc # "none"
    BY <1>2, <1>5
  <2>2. QED  BY <1>0, <1>5, <2>1, ListingStays
<1>14. ScansAll'
  BY <1>0, <1>5 DEF ScansAll
<1>15. QED  BY <1>10, <1>11, <1>12, <1>13, <1>14 DEF Tidy, HoldsPlans

LEMMA ExecuteTidies ==
  ASSUME TypeOK, Parts, Orderly, Tidy, faults' = 0, NEW r \in Runs, Execute(r)
  PROVE  Tidy'
<1>0. /\ faults \in Nat /\ db \in Databases /\ RunInv(r) /\ StartsOne /\ StopsAlone
      /\ task \in [Runs -> Tasks] /\ HoldsPlans /\ Listing /\ ScansAll
      /\ \A e \in db.account : Cared(e) /\ e \in Emails
  BY DEF TypeOK, ConnectionType, CoroutineType, Parts, Tidy, Databases
<1>1. task[r].pc # "none"
  BY DEF Execute, TaskGathered, TaskCompletes, TaskReleases, TaskCancelled, TaskUnavailable,
         TaskSpins, TaskTimesOut, TaskFails, TaskReconciled, TaskFailed, TaskReconciles
<1>2. online
  BY <1>1, OwnerIsActive
<1>3. (\A d : ~Raises(d)) /\ ~TaskSpins(r)
  BY <1>0, <1>2, NothingRaises, OnlineNothingSpins
<1>4. UNCHANGED <<listed, plan, next, worker, starter, recovery, stopper>>
  BY DEF Execute, TaskGathered, TaskCompletes, TaskReleases, TaskCancelled, TaskUnavailable,
         TaskSpins, TaskTimesOut, TaskFails, TaskReconciled, TaskFailed, TaskReconciles, OnlyTask
<1>5. /\ \A q \in Runs \ {r} : task'[q] = task[q]
      /\ task'[r].pc # "gather"
  <2>1. \E c : task' = [task EXCEPT ![r] = c] /\ c.pc # "gather"
    <3>1. CASE TaskEnds(r)
      <4>1. task' = [task EXCEPT ![r] = NoTask] /\ NoTask.pc # "gather"
        BY <3>1 DEF TaskEnds, NoTask
      <4>2. QED  BY <4>1
    <3>2. ASSUME NEW pc \in {"release", "complete", "cancelled", "failing", "failed"}, NEW s,
                 TaskGoto(r, pc, s)
          PROVE  <2>1!:
      <4>1. Call(task[r], pc, s).pc # "gather"
        BY <1>0, <3>2 DEF Call, Tasks
      <4>2. QED  BY <3>2, <4>1 DEF TaskGoto
    <3>3. CASE TaskFails(r)
      <4> DEFINE c == [task[r] EXCEPT !.pc = "reconcile", !.held = HeldBy(db, r)]
      <4>1. task' = [task EXCEPT ![r] = c]
        BY <1>2, <1>3, <3>3 DEF TaskFails
      <4>2. c.pc = "reconcile"
        BY <1>0 DEF Tasks
      <4>3. QED  BY <4>1, <4>2
    <3>4. ASSUME NEW e \in Emails, TaskReconciles(r, e) PROVE <2>1!:
      <4> DEFINE c == [task[r] EXCEPT !.held = @ \ {e}]
      <4>1. task' = [task EXCEPT ![r] = c]
        BY <1>0, <1>3, <3>4 DEF TaskReconciles
      <4>2. c.pc = "reconcile"
        BY <1>0, <3>4 DEF Tasks, TaskReconciles
      <4>3. QED  BY <4>1, <4>2
    <3>5. CASE TaskGathered(r) \/ TaskTimesOut(r)
      <4>1. \/ TaskGoto(r, "release", mem[r].status) \/ TaskGoto(r, "complete", "completed")
            \/ TaskGoto(r, "failing", mem[r].status)
        BY <3>5 DEF TaskGathered, TaskTimesOut
      <4>2. QED  BY <3>2, <4>1
    <3>6. CASE TaskReleases(r) \/ TaskReconciled(r)
      <4>1. \/ TaskGoto(r, "cancelled", "cancelled") \/ TaskGoto(r, "failed", "failed")
            \/ TaskEnds(r)
        BY <3>6 DEF TaskReleases, TaskReconciled
      <4>2. QED  BY <3>1, <3>2, <4>1
    <3>7. CASE TaskCompletes(r) \/ TaskCancelled(r) \/ TaskFailed(r)
      BY <3>1, <3>7 DEF TaskCompletes, TaskCancelled, TaskFailed
    <3>8. ~TaskUnavailable(r) /\ ~TaskSpins(r)
      BY <1>3 DEF TaskUnavailable
    <3>9. QED  BY <3>3, <3>4, <3>5, <3>6, <3>7, <3>8 DEF Execute
  <2>2. QED  BY <1>0, <2>1
<1>6. /\ db'.account = db.account
      /\ \A x \in Emails : db'.email[x] = db.email[x] \/ db.email[x] = r
      /\ \A x \in db.account : \/ db'.email[x] \in {db.email[x], "deleted"}
                               \/ task[r].pc = "release"
  <2>1. \/ db'.email = db.email /\ db'.account = db.account
        \/ db' = Released(db, HeldBy(db, r)) /\ task[r].pc = "release"
        \/ \E e \in Emails : db' = Reconciled(db, e, r)
    <3>1. CASE \/ TaskGathered(r) \/ TaskTimesOut(r) \/ TaskReconciled(r) \/ TaskFails(r)
      BY <1>3, <3>1 DEF TaskGathered, TaskTimesOut, TaskReconciled, TaskFails, Quietly, Returns
    <3>2. CASE TaskReleases(r) \/ \E e \in Emails : TaskReconciles(r, e)
      BY <1>3, <3>2 DEF TaskReleases, TaskReconciles, Returns
    <3>3. CASE TaskCompletes(r) \/ TaskCancelled(r) \/ TaskFailed(r)
      <4>1. \/ db' = Saved(db, r, Resumed(task[r], r), mem[r].cancel)
            \/ db' = Saved(db, r, "failed", mem[r].cancel)
        BY <1>3, <3>3 DEF TaskCompletes, TaskCancelled, TaskFailed, Returns
      <4>2. QED  BY <1>0, <4>1, RunWrites
    <3>4. ~TaskUnavailable(r) /\ ~TaskSpins(r)
      BY <1>3 DEF TaskUnavailable
    <3>5. QED  BY <3>1, <3>2, <3>3, <3>4 DEF Execute
  <2>2. CASE db' = Released(db, HeldBy(db, r)) /\ task[r].pc = "release"
    BY <1>0, <2>2 DEF Released, HeldBy, Databases
  <2>3. ASSUME NEW e \in Emails, db' = Reconciled(db, e, r) PROVE <1>6!:
    <3>1. /\ \A x \in Emails : db'.email[x] =
                IF x = e /\ db.email[e] = r
                THEN IF e \in db.account THEN "deleted" ELSE "available" ELSE db.email[x]
          /\ db'.account = db.account
      BY <1>0, <2>3, OwnAddresses
    <3>2. QED  BY <1>0, <3>1
  <2>4. QED  BY <2>1, <2>2, <2>3
<1>7. ~Planning(r)
  BY <1>0, <1>1 DEF StartsOne, Planning, Unstarted, NoTask
<1>8. HoldsPlans'
  <2>1. HoldsPlan(r)'
    BY <1>4, <1>5, <1>7 DEF HoldsPlan, Planning
  <2>2. ASSUME NEW q \in Runs \ {r} PROVE HoldsPlan(q)'
    <3>1. HoldsPlan(q) /\ plan[q] \in Seq(Emails)
      BY <1>0 DEF HoldsPlans, TypeOK, MemoryType
    <3>2. Planning(q)' => Planning(q)
      BY <1>4 DEF Planning
    <3>3. \A e \in Emails : db.email[e] = q => db'.email[e] = q
      BY <1>6
    <3>4. QED  BY <1>4, <1>5, <3>1, <3>2, <3>3, HoldsStays
  <2>3. QED  BY <2>1, <2>2 DEF HoldsPlans
<1>9. ASSUME NEW e \in db.account PROVE Cared(e)'
  <2>0. e \in Emails
    BY <1>0
  <2>1. CASE db.email[e] = "deleted"
    <3>1. db'.email[e] = "deleted"
      BY <1>6, <2>0, <2>1, NamesDistinct
    <3>2. QED  BY <3>1 DEF Cared
  <2>2. CASE db.email[e] # "deleted"
    <3>1. db.email[e] = r /\ ByTask(r, e)
      BY <1>0, <1>1, <2>2, RunOwnsStored
    <3>2. task[r].pc \in {"gather", "failing", "reconcile"}
      BY <3>1 DEF ByTask
    <3>3. ~TaskGathered(r)
      BY <3>1 DEF ByTask, OnConsume, TaskGathered, WorkerCall
    <3>4. ~TaskReconciled(r)
      <4>1. e \in HeldBy(db, r)
        BY <2>0, <3>1 DEF HeldBy
      <4>2. QED  BY <1>0, <4>1 DEF TaskReconciled, RunInv, Ending
    <3>5. TaskFails(r) \/ \E x \in Emails : TaskReconciles(r, x)
      BY <1>3, <3>2, <3>3, <3>4 DEF Execute, TaskCompletes, TaskReleases, TaskCancelled,
         TaskUnavailable, TaskTimesOut, TaskFailed
    <3>6. task'[r].pc = "reconcile" /\ mem' = mem
      BY <1>0, <1>2, <1>3, <3>5 DEF TaskFails, TaskReconciles, Tasks
    <3>7. mem[r].status \in Active /\ task[r].pc # "release"
      BY <3>1, <3>5 DEF ByTask, TaskFails, TaskReconciles
    <3>8. ByTask(r, e)'
      BY <3>6, <3>7 DEF ByTask
    <3>9. db'.email[e] \in {r, "deleted"}
      BY <1>6, <3>1, <3>7
    <3>10. QED  BY <3>8, <3>9 DEF Cared
  <2>3. QED  BY <2>1, <2>2
<1>10. Listing'
  <2>1. \A q \in Runs : task'[q].pc # "none" => task[q].pc # "none"
    BY <1>1, <1>5
  <2>2. QED  BY <1>0, <1>4, <2>1, ListingStays
<1>11. ScansAll'
  BY <1>0, <1>4 DEF ScansAll
<1>12. QED  BY <1>6, <1>8, <1>9, <1>10, <1>11 DEF Tidy

(* A step that leaves the coroutines, the pool and the statuses alone.     *)
LEMMA TidyStays ==
  ASSUME Tidy, SameRuns(db, db'), db'.email = db.email, db'.account = db.account,
         UNCHANGED <<serving, listed, plan, next, task, worker, starter, recovery, stopper>>,
         \A q \in Runs : mem'[q].status = mem[q].status
  PROVE  Tidy'
<1>1. HoldsPlans'
  BY DEF Tidy, HoldsPlans, HoldsPlan, Planning, Holds
<1>2. ASSUME NEW e \in db.account PROVE Cared(e)'
  <2>1. Cared(e)
    BY DEF Tidy
  <2>2. ASSUME NEW r \in Runs
        PROVE  /\ ByTask(r, e) => ByTask(r, e)'
               /\ ByStopper(r, e) => ByStopper(r, e)'
               /\ ByRecovery(r, e) => ByRecovery(r, e)'
    <3>1. OnConsume(r, e) => OnConsume(r, e)'
      BY DEF OnConsume, Job
    <3>2. ByTask(r, e) => ByTask(r, e)'
      BY <3>1 DEF ByTask
    <3>3. ByStopper(r, e) => ByStopper(r, e)'
      BY DEF ByStopper
    <3>4. ByRecovery(r, e) => ByRecovery(r, e)'
      BY DEF ByRecovery, SameRuns
    <3>5. QED  BY <3>2, <3>3, <3>4
  <2>3. QED  BY <2>1, <2>2 DEF Cared
<1>3. Listing' /\ ScansAll'
  BY DEF Tidy, Listing, Executing, ScansAll
<1>4. QED  BY <1>1, <1>2, <1>3 DEF Tidy

LEMMA CancelTidies ==
  ASSUME TypeOK, Orderly, Tidy, faults' = 0, NEW r \in Runs,
         CancelRequests(r) \/ CancelSignals(r)
  PROVE  Tidy'
<1>0. faults \in Nat /\ db \in Databases /\ mem \in [Runs -> States]
  BY DEF TypeOK, ConnectionType, MemoryType
<1>1. /\ SameRuns(db, db') /\ db'.email = db.email /\ db'.account = db.account
      /\ UNCHANGED connection
  <2>1. CASE CancelRequests(r)
    <3>1. online
      BY <2>1 DEF CancelRequests, Returns
    <3>2. \A d : ~Raises(d)
      BY <1>0, <3>1, NothingRaises
    <3>3. db' = CancelRequested(db, r) /\ UNCHANGED connection
      BY <2>1, <3>2 DEF CancelRequests, Returns
    <3>4. QED  BY <1>0, <3>3, FlagLeavesRuns, RunWrites
  <2>2. CASE CancelSignals(r)
    BY <2>2 DEF CancelSignals, Quietly, SameRuns
  <2>3. QED  BY <2>1, <2>2
<1>2. UNCHANGED <<listed, plan, next, task, worker, starter, recovery, stopper>>
  BY DEF CancelRequests, CancelSignals, memory
<1>3. mem' = mem \/ mem' = [mem EXCEPT ![r].cancel = TRUE]
  BY DEF CancelRequests, CancelSignals, memory
<1>4. \A q \in Runs : mem'[q].status = mem[q].status
  BY <1>0, <1>3 DEF States
<1>5. QED  BY <1>1, <1>2, <1>4, TidyStays DEF connection

LEMMA RecoverTidies ==
  ASSUME TypeOK, Parts, Orderly, Tidy, faults = 0, faults' = 0, Recover
  PROVE  Tidy'
<1>0. /\ faults \in Nat /\ db \in Databases /\ recovery \in Recoveries
      /\ Calm /\ StillActive /\ OneActive
      /\ \A e \in db.account : Cared(e) /\ e \in Emails
  BY DEF TypeOK, ConnectionType, CoroutineType, Orderly, Tidy, Databases
<1>1. ~online \/ recovery.pc # "idle"
  <2>1. ~ProbeFails
    BY <1>0 DEF ProbeFails
  <2>2. QED
    BY <2>1 DEF Recover, Probe, RecoverSnapshots, RecoverScans, RecoverReleasesOrphans, ProbeSucceeds,
                RecoverFails, RecoverFlushes, RecoverPicks, RecoverInterrupts, RecoverReconciles
<1>2. /\ ~serving /\ stopper.pc = "idle" /\ starter.pc = "idle"
      /\ \A q \in Runs : task[q].pc = "none"
  BY <1>0, <1>1 DEF Calm
<1>3. UNCHANGED <<task, starter, stopper>>
  BY DEF Recover, Probe, ProbeFails, RecoverSnapshots, RecoverScans, RecoverReleasesOrphans, ProbeSucceeds,
         RecoverFails, RecoverFlushes, RecoverPicks, RecoverInterrupts, RecoverReconciles,
         OnlyRecovery
<1>4. HoldsPlans' /\ Listing'
  BY <1>2, <1>3 DEF HoldsPlans, HoldsPlan, Planning, Listing, Executing, Starting
<1>5. \A e \in db.account : \/ db.email[e] = "deleted"
                            \/ \E r \in Runs : db.email[e] = r /\ ByRecovery(r, e)
  BY <1>0, <1>2 DEF Cared, ByTask, ByStopper
<1>6. ASSUME db'.account = db.account, ScansAll',
             \A e \in db.account :
               db'.email[e] = db.email[e] \/ db'.email[e] = "deleted",
             \A e \in db.account, r \in Runs :
               db.email[e] = r /\ ByRecovery(r, e) =>
                 ByRecovery(r, e)' \/ db'.email[e] = "deleted"
      PROVE  Tidy'
  BY <1>4, <1>5, <1>6 DEF Tidy, Cared
<1>7. ASSUME db' = db, ScansAll',
             \A e \in db.account, r \in Runs :
               db.email[e] = r /\ ByRecovery(r, e) => ByRecovery(r, e)'
      PROVE  Tidy'
  BY <1>6, <1>7
<1>8. CASE Probe
  <2>1. /\ db' = db /\ serving' = serving /\ recovery'.pc = "flush"
    BY <1>8 DEF Probe, NoRecovery
  <2>2. QED  BY <1>3, <1>7, <2>1 DEF ByRecovery, ScansAll
<1>9. ~ProbeFails
  BY <1>0 DEF ProbeFails
<1>10. ~RecoverFails
  <2>1. ~Fault
    BY <1>0 DEF Fault
  <2>2. recovery.pc = "flush" => recovery.seen = Listed
    BY <1>0 DEF Calm
  <2>3. recovery.pc # "idle" => online
    BY <1>0 DEF Calm
  <2>4. QED  BY <2>1, <2>2, <2>3 DEF RecoverFails
<1>11. ASSUME NEW r \in Runs PROVE ~RecoverFlushes(r)
  BY <1>0 DEF RecoverFlushes, Calm
<1>12. CASE RecoverSnapshots
  <2>1. /\ db' = db /\ serving' = serving
        /\ recovery' = [recovery EXCEPT !.pc = "scan", !.local = LocalActive]
    BY <1>12 DEF RecoverSnapshots, Quietly, connection
  <2>2. recovery'.pc = "scan" /\ recovery'.local = LocalActive
    BY <1>0, <2>1 DEF Recoveries
  <2>3. LocalActive = {}
    BY <1>2 DEF LocalActive
  <2>4. QED  BY <1>3, <1>7, <2>1, <2>2, <2>3 DEF ByRecovery, ScansAll
<1>13. CASE RecoverScans
  <2>1. /\ db' = db /\ serving' = serving /\ recovery.pc = "scan"
        /\ recovery' = [recovery EXCEPT !.pc = "pick", !.stale = ActiveDocs(db) \ recovery.local]
    BY <1>13 DEF RecoverScans, Returns, connection
  <2>2. recovery'.pc = "pick" /\ recovery'.stale = ActiveDocs(db) \ recovery.local
    BY <1>0, <2>1 DEF Recoveries
  <2>3. recovery'.stale = ActiveDocs(db)
    BY <2>1, <2>2 DEF Tidy, ScansAll
  <2>4. QED  BY <1>3, <1>7, <2>1, <2>2, <2>3 DEF ByRecovery, ScansAll, ActiveDocs
<1>14. ASSUME NEW r \in Runs, RecoverPicks(r) PROVE Tidy'
  <2> DEFINE H == HeldBy(db, r)
  <2>1. /\ db' = db /\ serving' = serving /\ recovery.pc = "pick"
        /\ recovery' = [recovery EXCEPT !.pc = "reconcile", !.run = r, !.held = H]
    BY <1>14 DEF RecoverPicks, Returns, connection
  <2>2. \A e \in db.account : db.email[e] = r => e \in H
    BY <1>0 DEF HeldBy
  <2> HIDE DEF H
  <2>3. /\ recovery'.pc = "reconcile" /\ recovery'.run = r /\ recovery'.held = H
        /\ recovery'.stale = recovery.stale
    BY <1>0, <2>1 DEF Recoveries
  <2>4. QED  BY <1>3, <1>7, <2>1, <2>2, <2>3 DEF ByRecovery, ScansAll
<1>15. ASSUME NEW r \in Runs, NEW x \in Emails, RecoverReconciles(r, x) PROVE Tidy'
  <2>1. /\ db' = Reconciled(db, x, r) /\ serving' = serving /\ recovery.pc = "reconcile"
        /\ recovery.run = r /\ recovery' = [recovery EXCEPT !.held = @ \ {x}]
    BY <1>15 DEF RecoverReconciles, Returns, connection
  <2>2. /\ recovery'.pc = "reconcile" /\ recovery'.run = r
        /\ recovery'.stale = recovery.stale /\ recovery'.held = recovery.held \ {x}
    BY <1>0, <2>1 DEF Recoveries
  <2>3. /\ \A e \in Emails : db'.email[e] =
             IF e = x /\ db.email[x] = r
             THEN IF x \in db.account THEN "deleted" ELSE "available" ELSE db.email[e]
        /\ db'.account = db.account
    BY <1>0, <2>1, OwnAddresses
  <2>4. SameRuns(db, db')
    BY <1>0, <2>1, PoolOperations
  <2>5. \A e \in db.account : db'.email[e] = db.email[e] \/ db'.email[e] = "deleted"
    BY <1>0, <2>3
  <2>6. ASSUME NEW e \in db.account, NEW q \in Runs, db.email[e] = q, ByRecovery(q, e)
        PROVE  ByRecovery(q, e)' \/ db'.email[e] = "deleted"
    <3>1. CASE q = r /\ e = x
      BY <1>0, <2>3, <2>6, <3>1
    <3>2. CASE ~(q = r /\ e = x)
      BY <1>3, <2>1, <2>2, <2>4, <2>6, <3>2 DEF ByRecovery, SameRuns
    <3>3. QED  BY <3>1, <3>2
  <2>7. QED  BY <1>6, <2>2, <2>3, <2>5, <2>6 DEF ScansAll
<1>16. ASSUME NEW r \in Runs, RecoverInterrupts(r) PROVE Tidy'
  <2>1. /\ db' = Saved(db, r, "interrupted", FALSE) /\ serving' = serving
        /\ recovery.pc = "reconcile" /\ recovery.run = r /\ recovery.held = {}
        /\ recovery' = [recovery EXCEPT !.pc = "pick", !.run = None, !.stale = @ \ {r}]
        /\ "interrupted" \in Statuses
    BY <1>16 DEF RecoverInterrupts, Returns, connection, Statuses, Terminal
  <2>2. recovery'.pc = "pick" /\ recovery'.stale = recovery.stale \ {r}
    BY <1>0, <2>1 DEF Recoveries
  <2>3. db.run[r].status \in Active /\ db.run[r].key
    BY <1>0, <2>1 DEF StillActive, Owned, OneActive
  <2>4. Writes(db, db', r, "interrupted")
    BY <1>0, <2>1, <2>3, SaveRewrites
  <2>5. db'.email = db.email /\ db'.account = db.account
    BY <1>0, <2>1 DEF Saved, Databases
  <2>6. ASSUME NEW e \in db.account, NEW q \in Runs, ByRecovery(q, e)
        PROVE  ByRecovery(q, e)'
    <3>1. q # r
      BY <2>1, <2>6 DEF ByRecovery
    <3>2. QED  BY <1>3, <2>1, <2>2, <2>4, <2>6, <3>1 DEF ByRecovery, Writes
  <2>7. QED  BY <1>6, <2>2, <2>5, <2>6 DEF ScansAll
<1>17. CASE RecoverReleasesOrphans
  <2> DEFINE E == {e \in ReservedEmails(db) : db.email[e] \notin recovery.local}
  <2>1. /\ recovery.pc = "pick" /\ recovery.stale = {} /\ db' = Released(db, E)
        /\ recovery'.pc = "indexes"
    BY <1>17 DEF RecoverReleasesOrphans, Returns, NoRecovery
  <2>2. E \in SUBSET Emails /\ \A e \in E : db.email[e] # "deleted"
    BY NamesDistinct DEF ReservedEmails
  <2> HIDE DEF E
  <2>3. /\ \A e \in Emails : db'.email[e] = IF e \in E THEN "available" ELSE db.email[e]
        /\ db'.account = db.account
    BY <1>0, <2>1, ReleasedAddresses
  <2>4. \A e \in db.account : db.email[e] = "deleted"
    BY <1>5, <2>1 DEF ByRecovery
  <2>5. \A e \in db.account : db'.email[e] = "deleted"
    BY <1>0, <2>2, <2>3, <2>4
  <2>6. QED  BY <1>4, <2>1, <2>3, <2>5 DEF Tidy, Cared, ScansAll
<1>18. CASE ProbeSucceeds
  <2>1. db' = db /\ recovery.pc = "indexes" /\ recovery'.pc = "idle"
    BY <1>18 DEF ProbeSucceeds, NoRecovery
  <2>2. \A e \in db.account : db'.email[e] = "deleted"
    BY <1>5, <2>1 DEF ByRecovery
  <2>3. QED  BY <1>4, <2>1, <2>2 DEF Tidy, Cared, ScansAll
<1>19. QED
  BY <1>8, <1>9, <1>10, <1>11, <1>12, <1>13, <1>14, <1>15, <1>16, <1>17, <1>18 DEF Recover

LEMMA ShutdownTidies ==
  ASSUME TypeOK, Parts, Orderly, Tidy, faults' = 0, Shutdown
  PROVE  Tidy'
<1>0. /\ faults \in Nat /\ db \in Databases /\ stopper \in Stoppers /\ task \in [Runs -> Tasks]
      /\ Calm /\ StillActive /\ OneActive /\ StopsAlone
      /\ HoldsPlans /\ Listing /\ ScansAll /\ DOMAIN worker = Runs
      /\ \A e \in db.account : Cared(e) /\ e \in Emails
  BY DEF TypeOK, ConnectionType, CoroutineType, Orderly, Parts, Tidy, Databases
<1>1. CASE ShutdownExits
  BY <1>1, NewProcessTidies DEF ShutdownExits
<1>2. ASSUME NEW r \in Runs, ShutdownCancelsTask(r) PROVE Tidy'
  <2>1. /\ db' = db /\ UNCHANGED <<mem, listed, plan, next, starter, recovery>>
        /\ task' = [task EXCEPT ![r] = NoTask] /\ task[r].pc # "none"
        /\ worker' = [worker EXCEPT ![r] = [w \in Workers |-> NoWorker]]
        /\ stopper'.run = r /\ starter.pc = "idle"
        /\ ListedStatus(r) \in Active => stopper'.pc = "find"
    BY <1>0, <1>2 DEF ShutdownCancelsTask, NoStopper, StopsAlone
  <2>2. HoldsPlans'
    <3>1. task'[r].pc = "none" /\ \A q \in Runs \ {r} : /\ task'[q] = task[q]
                                                        /\ worker'[q] = worker[q]
      BY <1>0, <2>1 DEF NoTask
    <3>2. ASSUME NEW q \in Runs PROVE HoldsPlan(q)'
      <4>1. HoldsPlan(q) /\ plan[q] \in Seq(Emails) /\ ~Planning(q)'
        BY <1>0, <2>1 DEF HoldsPlans, TypeOK, MemoryType, Planning
      <4>2. task'[q].pc = "gather" => q # r
        BY <3>1
      <4>3. QED  BY <2>1, <3>1, <4>1, <4>2, HoldsStays
    <3>3. QED  BY <3>2 DEF HoldsPlans
  <2>3. ASSUME NEW e \in db.account PROVE Cared(e)'
    <3>1. CASE db.email[e] = "deleted"
      BY <2>1, <3>1 DEF Cared
    <3>2. CASE db.email[e] # "deleted"
      <4>1. db.email[e] = r /\ ByTask(r, e)
        BY <1>0, <2>1, <3>2, RunOwnsStored
      <4>2. mem[r].status \in Active
        BY <4>1 DEF ByTask, Parts, RunInv, Working, Gathering
      <4>3. ListedStatus(r) \in Active
        BY <1>0, <2>1, <4>2 DEF Listing, Executing, ListedStatus
      <4>4. ByStopper(r, e)'
        BY <2>1, <4>3 DEF ByStopper
      <4>5. QED  BY <2>1, <4>1, <4>4 DEF Cared
    <3>3. QED  BY <3>1, <3>2
  <2>4. \A q \in Runs : task'[q].pc # "none" => task[q].pc # "none"
    BY <1>0, <2>1 DEF NoTask
  <2>5. Listing' /\ ScansAll'
    BY <1>0, <2>1, <2>4, ListingStays DEF ScansAll
  <2>6. QED  BY <2>1, <2>2, <2>3, <2>5 DEF Tidy
<1>3. ASSUME NEW r \in Runs,
             \/ ShutdownFinds(r) \/ ShutdownSaves(r)
             \/ \E e \in Emails : ShutdownReconciles(r, e)
      PROVE  Tidy'
  <2>1. /\ stopper.pc \in {"find", "reconcile"} /\ stopper.run = r
        /\ UNCHANGED <<listed, plan, next, task, worker, starter, recovery>>
    BY <1>3 DEF ShutdownFinds, ShutdownSaves, ShutdownReconciles, OnlyStopper
  <2>2. /\ online /\ db.run[r].status \in Active /\ db.run[r].key
        /\ ~serving /\ task[r].pc = "none" /\ starter.pc = "idle"
    BY <1>0, <2>1, WhileServing DEF StillActive, Owned, OneActive, StopsAlone
  <2>3. \A d : ~Raises(d)
    BY <1>0, <2>2, NothingRaises
  <2>4. \A e \in db.account : \/ db.email[e] = "deleted"
                              \/ db.email[e] = r /\ ByStopper(r, e)
    <3> SUFFICES ASSUME NEW e \in db.account, db.email[e] # "deleted"
                 PROVE  db.email[e] = r /\ ByStopper(r, e)
      OBVIOUS
    <3>1. db.email[e] = r /\ (ByTask(r, e) \/ ByStopper(r, e) \/ ByRecovery(r, e))
      BY <1>0, <2>2, OthersAreDeleted
    <3>2. ~ByTask(r, e) /\ ~ByRecovery(r, e)
      BY <2>1, <2>2 DEF ByTask, ByRecovery
    <3>3. QED  BY <3>1, <3>2
  <2>5. ASSUME db'.account = db.account,
               \A e \in Emails : db'.email[e] = db.email[e] \/ db.email[e] = r,
               \A e \in db.account : db.email[e] = "deleted" \/ Cared(e)'
        PROVE  Tidy'
    <3>1. ASSUME NEW q \in Runs PROVE HoldsPlan(q)'
      <4>1. HoldsPlan(q) /\ plan[q] \in Seq(Emails) /\ ~Planning(q)'
        BY <1>0, <2>1, <2>2 DEF HoldsPlans, TypeOK, MemoryType, Planning
      <4>2. CASE q = r
        BY <2>1, <2>2, <4>1, <4>2 DEF HoldsPlan
      <4>3. CASE q # r
        <5>1. \A e \in Emails : db.email[e] = q => db'.email[e] = q
          BY <2>5, <4>3
        <5>2. QED  BY <2>1, <4>1, <5>1, HoldsStays
      <4>4. QED  BY <4>2, <4>3
    <3>2. ASSUME NEW e \in db.account PROVE Cared(e)'
      <4>1. e \in Emails
        BY <1>0
      <4>2. db.email[e] = "deleted" => db'.email[e] = "deleted"
        BY <2>5, <4>1, NamesDistinct
      <4>3. QED  BY <2>5, <4>2 DEF Cared
    <3>3. Listing' /\ ScansAll'
      BY <1>0, <2>1, ListingStays DEF ScansAll
    <3>4. QED  BY <2>5, <3>1, <3>2, <3>3 DEF Tidy, HoldsPlans
  <2>6. CASE ShutdownFinds(r)
    <3> DEFINE H == HeldBy(db, r)
    <3>1. db' = db /\ stopper' = [stopper EXCEPT !.pc = "reconcile", !.held = H]
      BY <2>2, <2>3, <2>6 DEF ShutdownFinds, Returns
    <3>2. \A e \in db.account : db.email[e] = r => e \in H
      BY <1>0 DEF HeldBy
    <3> HIDE DEF H
    <3>3. stopper'.pc = "reconcile" /\ stopper'.run = r /\ stopper'.held = H
      BY <1>0, <2>1, <3>1 DEF Stoppers
    <3>4. \A e \in db.account : db.email[e] = "deleted" \/ Cared(e)'
      BY <2>4, <3>1, <3>2, <3>3 DEF Cared, ByStopper
    <3>5. QED  BY <2>5, <3>1, <3>4
  <2>7. ASSUME NEW x \in Emails, ShutdownReconciles(r, x) PROVE Tidy'
    <3>1. /\ db' = Reconciled(db, x, r) /\ stopper.pc = "reconcile"
          /\ stopper' = [stopper EXCEPT !.held = @ \ {x}]
      BY <2>3, <2>7 DEF ShutdownReconciles, Returns
    <3>2. stopper'.pc = "reconcile" /\ stopper'.run = r /\ stopper'.held = stopper.held \ {x}
      BY <1>0, <2>1, <3>1 DEF Stoppers
    <3>3. /\ \A e \in Emails : db'.email[e] =
               IF e = x /\ db.email[x] = r
               THEN IF x \in db.account THEN "deleted" ELSE "available" ELSE db.email[e]
          /\ db'.account = db.account
      BY <1>0, <3>1, OwnAddresses
    <3>4. ASSUME NEW e \in db.account, db.email[e] # "deleted" PROVE Cared(e)'
      <4>1. db.email[e] = r /\ e \in stopper.held /\ e \in Emails
        BY <1>0, <2>4, <3>1, <3>4 DEF ByStopper
      <4>2. CASE e = x
        BY <3>3, <4>1, <4>2 DEF Cared
      <4>3. CASE e # x
        <5>1. db'.email[e] = r /\ ByStopper(r, e)'
          BY <3>2, <3>3, <4>1, <4>3 DEF ByStopper
        <5>2. QED  BY <5>1 DEF Cared
      <4>4. QED  BY <4>2, <4>3
    <3>5. \A e \in Emails : db'.email[e] = db.email[e] \/ db.email[e] = r
      BY <3>3
    <3>6. QED  BY <2>5, <3>3, <3>4, <3>5
  <2>8. CASE ShutdownSaves(r)
    <3>1. /\ db' = Saved(db, r, "interrupted", FALSE) /\ stopper.held = {}
          /\ stopper.pc = "reconcile"
      BY <2>3, <2>8 DEF ShutdownSaves, Returns
    <3>2. db'.email = db.email /\ db'.account = db.account
      BY <1>0, <3>1 DEF Saved, Databases
    <3>3. \A e \in db.account : db.email[e] = "deleted"
      BY <2>4, <3>1 DEF ByStopper
    <3>4. QED  BY <2>5, <3>2, <3>3
  <2>9. QED  BY <1>3, <2>6, <2>7, <2>8
<1>4. QED  BY <1>1, <1>2, <1>3 DEF Shutdown

TidyInv == faults = 0 => Tidy

LEMMA TidyNext ==
  ASSUME IInv, IInv', Parts, Parts', Undisturbed, TidyInv, [Next]_vars
  PROVE  TidyInv'
<1> SUFFICES ASSUME faults' = 0 PROVE Tidy'
  BY DEF TidyInv
<1>0. TypeOK
  BY DEF IInv
<1>1. faults = 0
  BY <1>0, FaultsStay
<1>2. Orderly /\ Tidy
  BY <1>1 DEF Undisturbed, TidyInv
<1>3. CASE UNCHANGED vars
  <2>1. SameRuns(db, db')
    BY <1>3 DEF vars, SameRuns
  <2>2. QED  BY <1>2, <1>3, <2>1, TidyStays DEF vars, connection, memory
<1>4. CASE Crash
  BY <1>2, <1>4, NewProcessTidies DEF Crash
<1>5. QED
  BY <1>0, <1>1, <1>2, <1>3, <1>4, StartTidies, WorkTidies, ExecuteTidies, CancelTidies,
     RecoverTidies, ShutdownTidies DEF Next

(* "成功邮箱从邮箱池物理删除" (app/README.md:137): until an operation fails,  *)
(* an address whose account is stored is never lent again, and it is       *)
(* deleted once nothing is under way, wherever a crash, a shutdown or a    *)
(* timeout stopped a worker between the two operations of                  *)
(* complete_mock_success.                                                  *)
StoredLeavesPool ==
  faults = 0 => \A e \in db.account : /\ db.email[e] # "available"
                                      /\ Quiescent => db.email[e] = "deleted"

THEOREM StoredAddressesLeaveThePool == Spec => []StoredLeavesPool
<1>1. Init => TidyInv
  <2> SUFFICES ASSUME Init PROVE Tidy
    BY DEF TidyInv
  <2>1. /\ starter.pc = "idle" /\ recovery.pc = "idle" /\ db.account = {}
        /\ \A q \in Runs : task[q].pc = "none"
    BY DEF Init, NoStarter, NoRecovery, NoTask, EmptyDatabase
  <2>2. QED
    BY <2>1 DEF Tidy, HoldsPlans, HoldsPlan, Planning, Listing, Executing, Starting, ScansAll
<1>2. IInv /\ Parts /\ Undisturbed /\ [Next]_vars => Undisturbed'
  BY UndisturbedNext DEF IInv
<1>3. IInv /\ IInv' /\ Parts /\ Parts' /\ Undisturbed /\ TidyInv /\ [Next]_vars => TidyInv'
  BY TidyNext
<1>4. Parts /\ TidyInv => StoredLeavesPool
  <2> SUFFICES ASSUME Parts, Tidy, NEW e \in db.account
               PROVE  /\ db.email[e] # "available"
                      /\ Quiescent => db.email[e] = "deleted"
    BY DEF TidyInv, StoredLeavesPool
  <2>1. Cared(e)
    BY DEF Tidy
  <2>2. db.email[e] # "available"
    BY <2>1, NamesDistinct DEF Cared
  <2>3. ASSUME Quiescent, NEW r \in Runs, ByTask(r, e) \/ ByStopper(r, e) \/ ByRecovery(r, e)
        PROVE  FALSE
    <3>1. /\ online /\ stopper.pc = "idle" /\ task[r].pc = "none" /\ recovery.pc = "idle"
          /\ starter.pc \notin Starting
      BY <2>3 DEF Quiescent, LocalActive, Starting
    <3>2. Leaves(r)
      BY <2>3, <3>1 DEF ByTask, ByStopper, ByRecovery, Leaves
    <3>3. QED  BY <3>1, <3>2 DEF Parts, Tended, ToBeRecovered
  <2>4. QED  BY <2>1, <2>2, <2>3 DEF Cared
<1>5. QED
  BY <1>1, <1>2, <1>3, <1>4, UndisturbedInit, PartsInvariant, PTL DEF Spec
==============================================================================
