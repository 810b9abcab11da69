----------------------------- MODULE TaskManager -----------------------------
(***************************************************************************)
(* TaskManager (app/backend/oai_payment_extractor/web/tasks.py): tasks run *)
(* by the threads of a pool, with a number of slots that can be changed,   *)
(* cancelled, retried and deleted by requests, and one stream of events    *)
(* for every connection.                                                   *)
(*                                                                         *)
(* A step is one critical section of self._lock, one request to the        *)
(* extractor, or one operation of a queue.  A critical section that        *)
(* publishes keeps the lock until every connection's queue is served, and  *)
(* only the receivers of the queues act meanwhile (Deliver, Displace,      *)
(* Receive).                                                               *)
(***************************************************************************)
EXTENDS Naturals, Sequences, FiniteSets

CONSTANTS Tasks,        \* task ids (uuid4): a bounded supply
          Threads,      \* the pool's threads; max_workers of them
          Connections,  \* the subscribers
          QueueSize,    \* maxsize of a subscriber's queue (256 in the code)
          HistorySize,  \* history_size
          None          \* no task

Capacity == Cardinality(Threads)

ASSUME TaskManagerAssumption == /\ IsFiniteSet(Tasks)
                                /\ IsFiniteSet(Threads) /\ Threads # {}
                                /\ QueueSize \in Nat \ {0} /\ HistorySize \in Nat \ {0}
                                /\ None \notin Tasks

VARIABLES
  record,       \* task -> its TaskRecord; "gone" once it left self._tasks
  pending,      \* the futures no thread has taken, in order
  thread,       \* thread -> where it is in _run, and for which task
  activeSlots, concurrency,
  resolving,    \* the task of a resolve_paypal that follows the redirect
  closing,      \* "no", "cancelling" (close() of the service) or "closed"
  toCancel,     \* the tasks close() still has to cancel
  history,      \* the last events
  subscribed,   \* the connections in self._subscribers
  queue,        \* connection -> its queue
  unserved,     \* connection -> events that _publish_locked still has to put
  displacing,   \* connection -> put_nowait has raised Full for a terminal event
  told,         \* connection -> task -> what the events received so far say
  overflowed    \* not in the code: the connections whose queue has been full

tasks == <<record, pending, thread, activeSlots, concurrency, resolving, closing, toCancel>>
stream == <<history, subscribed, queue, unserved, displacing, told, overflowed>>
vars == <<tasks, stream>>

Terminal == {"succeeded", "failed", "cancelled"}
Held == {"start", "extract", "release"}   \* a thread here has its slot

NoRecord == [status |-> "none", cancel |-> FALSE, nonzero |-> FALSE, old |-> FALSE,
             retryOf |-> None]
NoThread == [pc |-> "idle", task |-> None]

Present(R) == {t \in Tasks : R[t].status \notin {"none", "gone"}}

Init ==
  /\ record = [t \in Tasks |-> NoRecord] /\ pending = <<>>
  /\ thread = [h \in Threads |-> NoThread]
  /\ activeSlots = 0 /\ concurrency \in 1 .. Capacity
  /\ resolving = None /\ closing = "no" /\ toCancel = {}
  /\ history = <<>> /\ subscribed = {}
  /\ queue = [c \in Connections |-> <<>>] /\ unserved = [c \in Connections |-> <<>>]
  /\ displacing = [c \in Connections |-> FALSE]
  /\ told = [c \in Connections |-> [t \in Tasks |-> "none"]]
  /\ overflowed = {}

-----------------------------------------------------------------------------
(* Events.                                                                 *)

(* status: what a page that follows the events shows after this one; "log" *)
(* and "checkout_detected" carry none.                                     *)
Event(t, type, s) == [task |-> t, type |-> type, status |-> s]

IsTerminal(e) == e.type \in Terminal

(* ensureTask and reduceTaskEvent of the page.                             *)
Reduced(shown, e) ==
  [shown EXCEPT ![e.task] =
     IF e.status # "none" THEN e.status ELSE IF @ = "none" THEN "queued" ELSE @]

(* The page after the events of evs at the places I, in order: the last    *)
(* event with a status decides (ReplayIsReduction of MCTaskManager).       *)
Replayed(shown, evs, I) ==
  [t \in Tasks |->
     LET telling == {i \in I : evs[i].task = t /\ evs[i].status # "none"} IN
     IF telling # {} THEN evs[CHOOSE i \in telling : \A j \in telling : j <= i].status
     ELSE IF shown[t] = "none" /\ \E i \in I : evs[i].task = t THEN "queued"
     ELSE shown[t]]

LastOf(s, n) == IF Len(s) <= n THEN s ELSE SubSeq(s, Len(s) - n + 1, Len(s))

Unlocked == \A c \in Connections : unserved[c] = <<>>

(* _publish_locked, once per event.                                        *)
Publish(evs) ==
  /\ history' = LastOf(history \o evs, HistorySize)
  /\ unserved' = [c \in Connections |-> IF c \in subscribed THEN evs ELSE <<>>]
  /\ UNCHANGED <<subscribed, queue, displacing, told, overflowed>>

Silent == UNCHANGED stream

Served(c) == unserved' = [unserved EXCEPT ![c] = Tail(@)]

(* put_nowait: a full queue drops the event, unless it is a terminal one.  *)
Deliver(c) ==
  /\ unserved[c] # <<>> /\ ~displacing[c]
  /\ UNCHANGED <<tasks, history, subscribed, told>>
  /\ overflowed' = IF Len(queue[c]) = QueueSize THEN overflowed \cup {c} ELSE overflowed
  /\ \/ /\ Len(queue[c]) < QueueSize
        /\ queue' = [queue EXCEPT ![c] = Append(@, Head(unserved[c]))]
        /\ Served(c) /\ UNCHANGED displacing
     \/ /\ Len(queue[c]) = QueueSize /\ ~IsTerminal(Head(unserved[c]))
        /\ Served(c) /\ UNCHANGED <<queue, displacing>>
     \/ /\ Len(queue[c]) = QueueSize /\ IsTerminal(Head(unserved[c]))
        /\ displacing' = [displacing EXCEPT ![c] = TRUE]
        /\ UNCHANGED <<queue, unserved>>

(* get_nowait and put_nowait of the except clause; if the receiver has     *)
(* emptied the queue meanwhile, get_nowait raises Empty.                   *)
Displace(c) ==
  /\ displacing[c] /\ displacing' = [displacing EXCEPT ![c] = FALSE]
  /\ queue' = IF queue[c] = <<>> THEN queue
              ELSE [queue EXCEPT ![c] = Append(Tail(@), Head(unserved[c]))]
  /\ Served(c)
  /\ UNCHANGED <<tasks, history, subscribed, told, overflowed>>

(* The connection's thread takes an event and sends it; it needs no lock.  *)
Receive(c) ==
  /\ queue[c] # <<>>
  /\ told' = [told EXCEPT ![c] = Reduced(@, Head(queue[c]))]
  /\ queue' = [queue EXCEPT ![c] = Tail(@)]
  /\ UNCHANGED <<tasks, history, subscribed, unserved, displacing, overflowed>>

-----------------------------------------------------------------------------
(* Requests.                                                               *)

Serving == closing = "no" /\ Unlocked

(* _cleanup_locked removes the terminal records older than the limit.      *)
Cleaned == [t \in Tasks |-> IF record[t].old THEN [record[t] EXCEPT !.status = "gone"]
                            ELSE record[t]]

(* The retention time of a terminal record passes.                         *)
Age(t) ==
  /\ record[t].status \in Terminal /\ ~record[t].old
  /\ record' = [record EXCEPT ![t].old = TRUE]
  /\ UNCHANGED <<pending, thread, activeSlots, concurrency, resolving, closing, toCancel>>
  /\ Silent

OnlyRecords == UNCHANGED <<thread, activeSlots, concurrency, resolving, closing, toCancel>>

NewRecord(t) == [NoRecord EXCEPT !.status = "queued", !.retryOf = t]

(* get, list: only the cleanup changes state.                              *)
List ==
  /\ Serving
  /\ record' = Cleaned
  /\ OnlyRecords /\ Silent /\ UNCHANGED pending

Create(t) ==
  /\ Serving
  /\ record[t].status = "none"
  /\ record' = [Cleaned EXCEPT ![t] = NewRecord(None)]
  /\ pending' = Append(pending, t)
  /\ Publish(<<Event(t, "created", "queued")>>)
  /\ OnlyRecords

Retry(t, u) ==
  /\ Serving
  /\ \/ Cleaned[t].status \in {"failed", "cancelled"}
     \/ Cleaned[t].status = "succeeded" /\ record[t].nonzero
  /\ record[u].status = "none"
  /\ record' = [Cleaned EXCEPT ![t].status = "gone", ![u] = NewRecord(t)]
  /\ pending' = Append(pending, u)
  /\ Publish(<<Event(t, "deleted", "gone"), Event(u, "created", "queued")>>)
  /\ OnlyRecords

(* A cancellation that leaves a queued record as it is.                    *)
CancelRecordKeepingQueued(R) ==
  [R EXCEPT !.cancel = TRUE, !.status = IF @ = "running" THEN "cancel_requested" ELSE @]

(* The change a cancellation makes to a record R that is not terminal.     *)
CancelRecord(R) ==
  [R EXCEPT !.cancel = TRUE,
            !.status = CASE @ = "queued" -> "cancelled"
                         [] @ = "running" -> "cancel_requested"
                         [] OTHER -> @]

(* Future.cancel takes out the future of t if no thread has taken it.      *)
Withdraws(t) ==
  IF \E i \in DOMAIN pending : pending[i] = t
  THEN LET i == CHOOSE i \in DOMAIN pending : pending[i] = t
       IN  pending' = [j \in 1 .. Len(pending) - 1 |-> pending[IF j < i THEN j ELSE j + 1]]
  ELSE UNCHANGED pending

CancelEffect(t, R) ==
  /\ record' = [R EXCEPT ![t] = CancelRecord(@)]
  /\ IF R[t].status = "queued" THEN Withdraws(t) ELSE UNCHANGED pending
  /\ CASE R[t].status = "queued"  -> Publish(<<Event(t, "cancelled", "cancelled")>>)
       [] R[t].status = "running" -> Publish(<<Event(t, "cancel_requested",
                                                       "cancel_requested")>>)
       [] OTHER -> Silent

Cancel(t) ==
  /\ Serving
  /\ Cleaned[t].status \in {"queued", "running", "cancel_requested"}
  /\ CancelEffect(t, Cleaned)
  /\ OnlyRecords

(* delete, and delete_by_statuses with the statuses bulk_delete asks for.  *)
Delete(D) ==
  /\ Serving
  /\ record' = [t \in Tasks |-> IF t \in D THEN [Cleaned[t] EXCEPT !.status = "gone"]
                                ELSE Cleaned[t]]
  /\ UNCHANGED pending /\ OnlyRecords

DeleteOne(t) ==
  /\ Cleaned[t].status \in Terminal
  /\ Delete({t}) /\ Publish(<<Event(t, "deleted", "gone")>>)

(* One of the orders in which the records of a dictionary may stand.       *)
Orders(D) == {s \in [1 .. Cardinality(D) -> D] : \A i, j \in DOMAIN s : s[i] = s[j] => i = j}

BulkDelete(S) ==
  LET D == {t \in Tasks : Cleaned[t].status \in S} IN
  /\ Delete(D)
  /\ \E s \in Orders(D) :
       Publish([i \in DOMAIN s |-> Event(s[i], "deleted", "gone")])

(* resolve_paypal: the redirect is followed without the lock; nothing of   *)
(* the record read before is used after.                                   *)
ResolveBegins(t) ==
  /\ Serving /\ resolving = None
  /\ record[t].status = "succeeded"
  /\ resolving' = t
  /\ UNCHANGED <<record, pending, thread, activeSlots, concurrency, closing, toCancel>>
  /\ Silent

ResolveEnds ==
  /\ resolving # None /\ Unlocked
  /\ resolving' = None
  /\ UNCHANGED <<record, pending, thread, activeSlots, concurrency, closing, toCancel>>
  /\ \/ Silent
     \/ /\ resolving \in Present(record)
        /\ Publish(<<Event(resolving, "succeeded", "succeeded")>>)

SetConcurrency(n) ==
  /\ Serving
  /\ concurrency' = n
  /\ UNCHANGED <<record, pending, thread, activeSlots, resolving, closing, toCancel>> /\ Silent

(* A replay that keeps the wrong half of a finished task's events.         *)
RelevantProgress(R) ==
  {i \in DOMAIN history : /\ history[i].task \in Present(R)
                          /\ R[history[i].task].status \in Terminal => ~IsTerminal(history[i])}

(* The events subscribe() replays: those of present tasks, and of finished *)
(* ones only how they finished.                                            *)
Relevant(R) ==
  {i \in DOMAIN history : /\ history[i].task \in Present(R)
                          /\ R[history[i].task].status \in Terminal => IsTerminal(history[i])}

Subscribe(c) ==
  /\ Serving /\ c \notin subscribed
  /\ record' = Cleaned
  /\ subscribed' = subscribed \cup {c}
  /\ told' = [told EXCEPT ![c] = Replayed(@, history, Relevant(Cleaned))]
  /\ UNCHANGED <<pending, history, queue, unserved, displacing, overflowed>> /\ OnlyRecords

Unsubscribe(c) ==
  /\ Unlocked /\ c \in subscribed
  /\ subscribed' = subscribed \ {c}
  /\ queue' = [queue EXCEPT ![c] = <<>>]
  /\ told' = [told EXCEPT ![c] = [t \in Tasks |-> "none"]]
  /\ overflowed' = overflowed \ {c}
  /\ UNCHANGED <<tasks, history, unserved, displacing>>

Requests ==
  \/ List \/ ResolveEnds
  \/ \E t \in Tasks : Create(t) \/ Cancel(t) \/ DeleteOne(t) \/ ResolveBegins(t) \/ Age(t)
  \/ \E t \in Tasks, u \in Tasks : Retry(t, u)
  \/ BulkDelete({"failed", "cancelled"}) \/ BulkDelete({"succeeded"})
  \/ \E n \in 1 .. Capacity : SetConcurrency(n)
  \/ \E c \in Connections : Subscribe(c) \/ Unsubscribe(c)

-----------------------------------------------------------------------------
(* A thread of the pool: _run, _acquire_slot, _run_with_slot.              *)

Goto(h, pc) == thread' = [thread EXCEPT ![h].pc = pc]
Leaves(h) == thread' = [thread EXCEPT ![h] = NoThread]
OnlyThread == UNCHANGED <<concurrency, resolving, closing, toCancel>>

TakesFuture(h) ==
  /\ thread[h].pc = "idle" /\ pending # <<>>
  /\ thread' = [thread EXCEPT ![h] = [pc |-> "slot", task |-> Head(pending)]]
  /\ pending' = Tail(pending)
  /\ UNCHANGED <<record, activeSlots>> /\ OnlyThread /\ Silent

(* One round of _acquire_slot.                                             *)
AcquiresSlot(h) ==
  /\ thread[h].pc = "slot" /\ Unlocked
  /\ UNCHANGED <<record, pending>> /\ OnlyThread /\ Silent
  /\ \/ /\ record[thread[h].task].status \in {"gone", "cancelled"}
        /\ Leaves(h) /\ UNCHANGED activeSlots
     \/ /\ record[thread[h].task].status \notin {"gone", "cancelled"}
        /\ IF activeSlots < concurrency
           THEN Goto(h, "start") /\ activeSlots' = activeSlots + 1
           ELSE Goto(h, "wait") /\ UNCHANGED activeSlots

(* A wait that gives up when its time is over.                             *)
WaitsOnce(h) ==
  /\ thread[h].pc = "wait"
  /\ Leaves(h)
  /\ UNCHANGED <<record, pending, activeSlots>> /\ OnlyThread /\ Silent

(* record.cancel_event.wait(0.1), on the record read before.               *)
WaitsForSlot(h) ==
  /\ thread[h].pc = "wait"
  /\ IF record[thread[h].task].cancel THEN Leaves(h) ELSE Goto(h, "slot")
  /\ UNCHANGED <<record, pending, activeSlots>> /\ OnlyThread /\ Silent

(* A cancelled task that leaves _run without giving its slot back.         *)
StartsLeakingSlot(h) ==
  LET t == thread[h].task IN
  /\ thread[h].pc = "start" /\ Unlocked
  /\ UNCHANGED <<pending, activeSlots>> /\ OnlyThread
  /\ IF record[t].status \in {"gone", "cancelled"}
     THEN Leaves(h) /\ UNCHANGED record /\ Silent
     ELSE /\ record' = [record EXCEPT ![t].status = "running"]
          /\ Publish(<<Event(t, "started", "running"), Event(t, "log", "none")>>)
          /\ Goto(h, "extract")

(* The task may be cancelled, or even retried, since the slot was taken.   *)
Starts(h) ==
  LET t == thread[h].task IN
  /\ thread[h].pc = "start" /\ Unlocked
  /\ UNCHANGED <<pending, activeSlots>> /\ OnlyThread
  /\ IF record[t].status \in {"gone", "cancelled"}
     THEN Goto(h, "release") /\ UNCHANGED record /\ Silent
     ELSE /\ record' = [record EXCEPT ![t].status = "running"]
          /\ Publish(<<Event(t, "started", "running"), Event(t, "log", "none")>>)
          /\ Goto(h, "extract")

(* _stage, called by the extractor.                                        *)
Stage(h) ==
  LET t == thread[h].task IN
  /\ thread[h].pc = "extract" /\ Unlocked
  /\ record[t].status \notin {"gone"} \cup Terminal
  /\ \/ Publish(<<Event(t, "stage", record[t].status)>>)
     \/ Publish(<<Event(t, "checkout_detected", "none")>>)
  /\ UNCHANGED tasks

Finishes(h, s) ==
  LET t == thread[h].task IN
  /\ record' = [record EXCEPT ![t].status = s]
  /\ Publish(<<Event(t, s, s)>>)

(* A result that arrives after a cancellation and is kept.                 *)
ReturnsResultAnyway(h) ==
  /\ thread[h].pc = "extract" /\ Unlocked
  /\ UNCHANGED <<pending, activeSlots>> /\ OnlyThread /\ Goto(h, "release")
  /\ IF record[thread[h].task].status = "gone" THEN UNCHANGED record /\ Silent
     ELSE Finishes(h, "succeeded")

(* The extractor returns.                                                  *)
ReturnsResult(h) ==
  LET t == thread[h].task IN
  /\ thread[h].pc = "extract" /\ Unlocked
  /\ UNCHANGED <<pending, activeSlots>> /\ OnlyThread /\ Goto(h, "release")
  /\ IF record[t].status = "gone" THEN UNCHANGED record /\ Silent
     ELSE IF record[t].cancel \/ record[t].status = "cancel_requested"
     THEN Finishes(h, "cancelled")
     ELSE \E n \in BOOLEAN :
            /\ record' = [record EXCEPT ![t].status = "succeeded", ![t].nonzero = n]
            /\ Publish(<<Event(t, "succeeded", "succeeded")>>)

(* It raises: ExtractionCancelled if it saw the event, or an error.        *)
Raises(h) ==
  LET t == thread[h].task IN
  /\ thread[h].pc = "extract" /\ Unlocked
  /\ UNCHANGED <<pending, activeSlots>> /\ OnlyThread /\ Goto(h, "release")
  /\ IF record[t].status = "gone" THEN UNCHANGED record /\ Silent
     ELSE \/ record[t].cancel /\ Finishes(h, "cancelled")
          \/ Finishes(h, "failed")

ReleasesSlot(h) ==
  /\ thread[h].pc = "release" /\ Unlocked
  /\ activeSlots' = IF activeSlots = 0 THEN 0 ELSE activeSlots - 1
  /\ Leaves(h)
  /\ UNCHANGED <<record, pending>> /\ OnlyThread /\ Silent

Finish(h) == ReturnsResult(h) \/ Raises(h)

Runs(h) == \/ TakesFuture(h) \/ AcquiresSlot(h) \/ WaitsForSlot(h) \/ Starts(h)
           \/ Stage(h) \/ Finish(h) \/ ReleasesSlot(h)

-----------------------------------------------------------------------------
(* close() of the service, after the last request: every task of the list  *)
(* is cancelled, then the pool is shut down.                               *)

CloseBegins ==
  /\ Serving /\ resolving = None
  /\ record' = Cleaned
  /\ closing' = "cancelling"
  /\ toCancel' = {t \in Present(record) : record[t].status \notin Terminal}
  /\ UNCHANGED <<pending, thread, activeSlots, concurrency, resolving>> /\ Silent

CloseCancels(t) ==
  /\ closing = "cancelling" /\ Unlocked /\ t \in toCancel
  /\ toCancel' = toCancel \ {t}
  /\ IF Cleaned[t].status \in Terminal \cup {"gone"}
     THEN record' = Cleaned /\ UNCHANGED pending /\ Silent
     ELSE CancelEffect(t, Cleaned)
  /\ UNCHANGED <<thread, activeSlots, concurrency, resolving, closing>>

CloseEnds ==
  /\ closing = "cancelling" /\ toCancel = {}
  /\ closing' = "closed" /\ pending' = <<>>
  /\ UNCHANGED <<record, thread, activeSlots, concurrency, resolving, toCancel>> /\ Silent

Close == CloseBegins \/ CloseEnds \/ \E t \in Tasks : CloseCancels(t)

-----------------------------------------------------------------------------
Next == \/ Requests
        \/ \E h \in Threads : Runs(h)
        \/ Close
        \/ \E c \in Connections : Deliver(c) \/ Displace(c) \/ Receive(c)

Spec == Init /\ [][Next]_vars

(* Every thread gets on, an extraction ends (its requests have timeouts),  *)
(* and a close() that has begun goes on.  Requests, stages and receivers   *)
(* are free.                                                               *)
Fairness ==
  /\ \A h \in Threads :
       /\ WF_vars(TakesFuture(h)) /\ WF_vars(AcquiresSlot(h)) /\ WF_vars(WaitsForSlot(h))
       /\ WF_vars(Starts(h)) /\ WF_vars(Finish(h)) /\ WF_vars(ReleasesSlot(h))
  /\ WF_vars(CloseEnds) /\ \A t \in Tasks : WF_vars(CloseCancels(t))

FairSpec == Spec /\ Fairness

-----------------------------------------------------------------------------
Statuses == Terminal \cup {"none", "queued", "running", "cancel_requested", "gone"}

Events == [task : Tasks, status : Statuses,
           type : Terminal \cup {"created", "started", "log", "stage", "checkout_detected",
                                 "cancel_requested", "deleted"}]

(* The slots in use are the threads that have one: none leaks when a task  *)
(* is cancelled or deleted between its slot and its start.                 *)
SlotsExact == activeSlots = Cardinality({h \in Threads : thread[h].pc \in Held})

(* A task that says it runs is run, by one thread; one that says it is     *)
(* queued will be: its future waits, or a thread has it on the way.        *)
WorkedOn ==
  \A t \in Tasks :
    /\ record[t].status \in {"running", "cancel_requested"} <=>
         Cardinality({h \in Threads : thread[h].pc = "extract" /\ thread[h].task = t}) = 1
    /\ record[t].status = "queued" =>
         \/ \E i \in 1 .. Len(pending) : pending[i] = t
         \/ \E h \in Threads : thread[h].task = t /\ thread[h].pc \in {"slot", "wait", "start"}

(* The tasks follow their life cycle.                                      *)
Lifecycle == INSTANCE TaskLifecycle WITH
  status <- [t \in Tasks |-> record[t].status],
  origin <- [t \in Tasks |-> record[t].retryOf]

LifecycleSpec == Lifecycle!Spec

(* What a connection will have been told when its queue is read.           *)
WillShow(c) ==
  LET evs == queue[c] \o unserved[c] IN Replayed(told[c], evs, DOMAIN evs)

(* What a connection is told of a finished task is how it finished.        *)
TellsOutcome(c) ==
  \A t \in Tasks : record[t].status \in Terminal =>
    WillShow(c)[t] \in {"none", record[t].status}

(* A reader that keeps up is told how each task finished: nothing is       *)
(* missed between the replay and the subscription, whatever is deleted,    *)
(* retried or expires in between.                                          *)
FinishedIsTold == \A c \in subscribed \ overflowed : TellsOutcome(c)

(* Every submitted task ends, or is closed with the service.               *)
EveryTaskEnds ==
  \A t \in Tasks : record[t].status = "queued" ~> record[t].status \in Terminal \cup {"gone"}
=============================================================================
