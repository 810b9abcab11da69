---------------------------- MODULE ProbeExecutor ----------------------------
(***************************************************************************)
(* BrowserProbeRunExecutor (app/backend/run_manager.py) and the processes  *)
(* it spawns, one for every email: the launch window, the event queue, the *)
(* circuit breaker, cancellation, the deadline, and the cleanup of a dead  *)
(* worker; before it the preparation in start_browser_probe, after it what *)
(* RunManager does with the result, or a new process with what is left.    *)
(*                                                                         *)
(* A worker is the contract that ProbeWorker implements: its stages are    *)
(* the points at which it holds something others can see.  The parent is   *)
(* one coroutine; a step is what it does between two answers of the        *)
(* database.  A worker id stands for its email too.                        *)
(***************************************************************************)
EXTENDS Integers, Sequences, FiniteSets

CONSTANTS Workers,       \* the emails of the run, one worker for each
          Concurrency,   \* settings.concurrency
          Threshold,     \* ROXY_CIRCUIT_FAILURE_THRESHOLD (5 in the code)
          HasDeadline,   \* settings.taskTimeoutSeconds # 0
          MaxRetries,    \* bound: attempts after the first, in a whole run
          MaxFaults      \* bound: processes that die, calls that fail

ASSUME ProbeAssumption ==
  /\ IsFiniteSet(Workers) /\ Workers # {}
  /\ Concurrency \in Nat \ {0} /\ Threshold \in Nat \ {0}
  /\ HasDeadline \in BOOLEAN /\ MaxRetries \in Nat /\ MaxFaults \in Nat

VARIABLES
  parent,    \* where execute is: pc, the worker it deals with, those it still has to
  pending,   \* the emails no worker was launched for
  active,    \* the workers with a BrowserProcessHandle
  handle,    \* worker -> final_status of its handle, and whether its cancel_event is set
  doc,       \* worker -> its document in run_workers: status, and dirId (0: none)
  proc,      \* worker -> its process: stage, number and result of its attempt
  window,    \* the temporary windows in Roxy: <<worker, attempt>>
  proxy,     \* the workers that lease a proxy
  email,     \* worker -> its address in the pool: "available", "reserved" or "deleted"
  account,   \* the workers whose account is stored
  queue,     \* event_queue
  run,       \* what ends the run, the breaker and the counters
  faults,    \* not in the code: processes that died, calls that failed
  retries,   \* not in the code: attempts repeated
  arrived,   \* not in the code: the results counted for the breaker, in order
  skipped    \* not in the code: workers whose cleanup failed or was never reached

resources == <<window, proxy, email, account>>
scheduler == <<parent, pending, active, handle, doc, run, arrived, skipped>>
vars == <<resources, scheduler, proc, queue, faults, retries>>

Infrastructure == {"infra", "auth"}
Errors == {"failed"} \cup Infrastructure
TerminalDoc == {"success", "failed", "cancelled"}

NoHandle == [final |-> "none", cancel |-> FALSE]
NoProcess == [stage |-> "off", try |-> 1, result |-> "none"]
NewRun == [stopping |-> FALSE, timeout |-> FALSE, circuit |-> FALSE,
           failures |-> 0, succeeded |-> 0, failed |-> 0, outcome |-> "running"]

Alive == {w \in Workers : proc[w].stage \notin {"off", "dead"}}
DocsIn(S) == {w \in Workers : doc[w].status \in S}

(* Windows of an earlier run that nobody could close.                      *)
Stale == Workers \X {0}

Init ==
  /\ parent = [pc |-> "preflight", worker |-> {}, todo |-> {}]
  /\ pending = Workers /\ active = {}
  /\ handle = [w \in Workers |-> NoHandle]
  /\ doc = [w \in Workers |-> [status |-> "none", dir |-> 0]]
  /\ proc = [w \in Workers |-> NoProcess]
  /\ window \in {{}, Stale} /\ proxy = {} /\ account = {} /\ queue = <<>>
  /\ email = [w \in Workers |-> "available"]
  /\ run = NewRun
  /\ faults = 0 /\ retries = 0 /\ arrived = <<>> /\ skipped = {}

Fault == faults < MaxFaults /\ faults' = faults + 1
Goto(pc) == parent' = [parent EXCEPT !.pc = pc]

Released(E) == [w \in Workers |-> IF w \in E /\ email[w] = "reserved" THEN "available"
                                  ELSE email[w]]
Reconciled == [w \in Workers |-> IF email[w] # "reserved" THEN email[w]
                                 ELSE IF w \in account THEN "deleted" ELSE "available"]

-----------------------------------------------------------------------------
(* The worker processes.                                                   *)
At(w, stage) == proc[w].stage = stage
Becomes(w, stage) == proc' = [proc EXCEPT ![w].stage = stage]
ResultsIn(w, stage, r) == proc' = [proc EXCEPT ![w].stage = stage, ![w].result = r]
Window(w) == <<w, proc[w].try>>

(* A proxy is leased, then a window created that goes through it.          *)
OpensWindow(w) ==
  /\ At(w, "boot") /\ Becomes(w, "window")
  /\ proxy' = proxy \cup {w} /\ window' = window \cup {Window(w)}
  /\ UNCHANGED <<scheduler, email, account, queue, faults, retries>>

(* assign, of a queued worker; finish; stage, while it runs.               *)
Assigned(w) == [doc EXCEPT ![w].status = IF @ = "queued" THEN "running" ELSE @]
Finished(S, status) ==
  [v \in Workers |-> IF v \in S THEN [doc[v] EXCEPT !.status = status] ELSE doc[v]]
WithWindow(w, n) == [doc EXCEPT ![w].dir = IF doc[w].status = "running" THEN n ELSE @]

(* progress: the dirId goes to the parent as an event and, unless that     *)
(* write fails, straight into the worker's document.                       *)
ReportsWindow(w) ==
  /\ At(w, "window") /\ Becomes(w, "open")
  /\ queue' = Append(queue, <<w, "dir", proc[w].try>>)
  /\ \/ doc' = WithWindow(w, proc[w].try) /\ UNCHANGED faults
     \/ Fault /\ UNCHANGED doc
  /\ UNCHANGED <<resources, parent, pending, active, handle, run, arrived, skipped,
                 retries>>

(* complete_probe_profile_success: the account, then the address.          *)
StoresAccount(w) ==
  /\ At(w, "open") /\ Becomes(w, "stored")
  /\ account' = account \cup {w}
  /\ UNCHANGED <<scheduler, window, proxy, email, queue, faults, retries>>

(* What follows the registration (token, plan, two-factor) may still fail. *)
ConsumesEmail(w) ==
  /\ At(w, "stored") /\ \E r \in {"success", "error"} : ResultsIn(w, "closing", r)
  /\ email' = [email EXCEPT ![w] = IF @ = "reserved" THEN "deleted" ELSE @]
  /\ UNCHANGED <<scheduler, window, proxy, account, queue, faults, retries>>

(* Where an error or a cancellation leads from each stage: a finally       *)
(* clause, or past it when it strikes inside.                              *)
Unwound(stage) == IF stage \in {"window", "open", "stored"} THEN "closing"
                  ELSE "closed"

(* Which error it is shows when the result is posted.                      *)
Fails(w) ==
  /\ proc[w].stage \in {"boot", "open", "stored"}
  /\ ResultsIn(w, Unwound(proc[w].stage), "error")
  /\ UNCHANGED <<scheduler, resources, queue, faults, retries>>

(* CancelledError at the await the process is in.                          *)
CancelStrikes(w) ==
  /\ handle[w].cancel /\ proc[w].result # "cancelled"
  /\ proc[w].stage \notin {"off", "dead"}
  /\ ResultsIn(w, Unwound(proc[w].stage), "cancelled")
  /\ UNCHANGED <<scheduler, resources, queue, faults, retries>>

ClosesWindow(w) ==
  /\ At(w, "closing") /\ Becomes(w, "closed")
  /\ window' = window \ {Window(w)}
  /\ UNCHANGED <<scheduler, proxy, email, account, queue, faults, retries>>

(* The window is not confirmed gone: browser_cleanup_failed, unless        *)
(* another error is already on its way.                                    *)
CloseFails(w) ==
  /\ At(w, "closing") /\ Fault
  /\ ResultsIn(w, "closed", IF proc[w].result = "success" THEN "infra" ELSE proc[w].result)
  /\ UNCHANGED <<scheduler, resources, queue, retries>>

(* Another attempt, with a new window, whatever became of the old one.     *)
Retries(w) ==
  /\ At(w, "closed") /\ proc[w].result = "error" /\ w \notin account
  /\ retries < MaxRetries /\ retries' = retries + 1
  /\ proc' = [proc EXCEPT ![w] = [stage |-> "boot", try |-> @.try + 1, result |-> "none"]]
  /\ UNCHANGED <<scheduler, resources, queue, faults>>

PostsIn(w, extra) ==
  /\ At(w, "closed") /\ Becomes(w, "dead")
  /\ proxy' = proxy \ {w}
  /\ email' = Released({w})
  /\ \E r \in IF proc[w].result = "error" THEN Errors ELSE {proc[w].result} :
       queue' = Append(queue, <<w, r, 0>>) \o extra
  /\ UNCHANGED <<scheduler, window, account, retries>>

(* The proxy and the address go back, then the result is posted.           *)
Posts(w) == PostsIn(w, <<>>) /\ UNCHANGED faults

(* The event loop fails to close after the result was posted:              *)
(* worker_process_main posts worker_bootstrap_failed behind it.            *)
PostsTwice(w) == PostsIn(w, <<<<w, "failed", 0>>>>) /\ Fault

Dies(w) ==
  /\ w \in Alive /\ Becomes(w, "dead") /\ Fault
  /\ UNCHANGED <<scheduler, resources, queue, retries>>

Worker(w) ==
  \/ OpensWindow(w) \/ ReportsWindow(w) \/ StoresAccount(w)
  \/ ConsumesEmail(w) \/ Fails(w) \/ CancelStrikes(w) \/ ClosesWindow(w)
  \/ Retries(w) \/ Posts(w)

-----------------------------------------------------------------------------
(* start_browser_probe, before the run has a task of its own.              *)
Processes == <<proc, queue, retries>>
Prepared == <<pending, active, handle, proc, queue, retries, run, arrived, skipped,
              window, proxy, account>>

(* _cleanup_stale_managed_browsers: every window with the name and remark  *)
(* of this program, before the controller lock is asked for.               *)
ClosesManaged == window' = {}

Preflights ==
  /\ parent.pc = "preflight" /\ Goto("prepare") /\ ClosesManaged
  /\ UNCHANGED <<pending, active, handle, doc, run, arrived, skipped, email, proxy, account,
                 Processes, faults>>

(* 30 seconds without three equal answers, or a window that stays.         *)
PreflightFails ==
  /\ parent.pc = "preflight" /\ Goto("quiet") /\ Fault
  /\ window' \in SUBSET window
  /\ run' = [run EXCEPT !.outcome = "refused"]
  /\ UNCHANGED <<pending, active, handle, doc, arrived, skipped, email, proxy, account,
                 Processes>>

ReservesEmails ==
  /\ parent.pc = "prepare" /\ Goto("workers")
  /\ email' = [w \in Workers |-> "reserved"]
  /\ UNCHANGED <<Prepared, doc, faults>>

CreatesWorkers ==
  /\ parent.pc = "workers" /\ Goto("round")
  /\ doc' = [w \in Workers |-> [status |-> "queued", dir |-> 0]]
  /\ UNCHANGED <<Prepared, email, faults>>

PreparationFails ==
  /\ parent.pc \in {"prepare", "workers"} /\ Goto("quiet") /\ Fault
  /\ email' = Released(Workers)
  /\ run' = [run EXCEPT !.outcome = "refused"]
  /\ UNCHANGED <<pending, active, handle, doc, arrived, skipped, Processes, window,
                 proxy, account>>

-----------------------------------------------------------------------------
(* Mutant: <= for <.                                                       *)
CanLaunchOneMore == pending # {} /\ Cardinality(active) <= Concurrency /\ ~run.stopping

(* execute.  Its rounds have one location: a process or an event it missed *)
(* in one is one that came after it looked, and is found in a later one.   *)
CanLaunch == pending # {} /\ Cardinality(active) < Concurrency /\ ~run.stopping

Launches(w) ==
  /\ parent.pc = "round" /\ CanLaunch /\ w \in pending
  /\ parent' = [parent EXCEPT !.pc = "pid", !.worker = {w}]
  /\ pending' = pending \ {w}
  /\ doc' = Assigned(w)
  /\ proc' = [proc EXCEPT ![w].stage = "boot"]
  /\ UNCHANGED <<resources, active, handle, run, arrived, skipped, queue, retries, faults>>

SpawnFails(w) ==
  /\ parent.pc = "round" /\ CanLaunch /\ w \in pending /\ Fault
  /\ pending' = pending \ {w}
  /\ doc' = Finished({w}, "failed")
  /\ email' = Released({w})
  /\ run' = [run EXCEPT !.failed = @ + 1]
  /\ UNCHANGED <<parent, active, handle, arrived, skipped, Processes, window, proxy,
                 account>>

RegistersHandle ==
  /\ parent.pc = "pid"
  /\ parent' = [parent EXCEPT !.pc = "round", !.worker = {}]
  /\ active' = active \cup parent.worker
  /\ UNCHANGED <<resources, pending, handle, doc, run, arrived, skipped, Processes, faults>>

-----------------------------------------------------------------------------
(* record_event, and the breaker at its end.                               *)
Cancelled(S) == [w \in Workers |-> IF w \in S THEN [handle[w] EXCEPT !.cancel = TRUE]
                                   ELSE handle[w]]

(* Mutant: another result in between does not reset the count.             *)
CountedInAll(r, status) ==
  CASE status = "cancelled" -> r
    [] status = "success" -> [r EXCEPT !.succeeded = @ + 1]
    [] status = "failed" -> [r EXCEPT !.failed = @ + 1]
    [] status \in Infrastructure -> [r EXCEPT !.failed = @ + 1, !.failures = @ + 1]

Counted(r, status) ==
  CASE status = "cancelled" -> r
    [] status = "success" -> [r EXCEPT !.succeeded = @ + 1, !.failures = 0]
    [] status = "failed" -> [r EXCEPT !.failed = @ + 1, !.failures = 0]
    [] status \in Infrastructure -> [r EXCEPT !.failed = @ + 1, !.failures = @ + 1]

Opens(r, status) == /\ ~r.circuit /\ status # "cancelled"
                    /\ status = "auth" \/ r.failures >= Threshold

RecordsWindow(w, n) ==
  /\ doc' = WithWindow(w, n)
  /\ UNCHANGED <<handle, run, arrived>>

RecordsFinal(w, result) ==
  LET status == IF run.circuit /\ result # "success" THEN "cancelled" ELSE result
      final == IF status \in Infrastructure THEN "failed" ELSE status
      r == Counted(run, status)
      opens == Opens(r, status)
      others == {v \in active \ {w} : handle[v].final = "none"}
  IN /\ doc' = Finished({w}, final)
     /\ handle' = [Cancelled(IF opens THEN others ELSE {}) EXCEPT ![w].final = final]
     /\ run' = [r EXCEPT !.circuit = @ \/ opens, !.stopping = @ \/ opens]
     /\ arrived' = IF status = "cancelled" THEN arrived ELSE Append(arrived, status)

IgnoresEvent == UNCHANGED <<doc, handle, run, arrived>>

(* Mutant: final_received is not looked at.                                *)
RecordsAgain(w, kind, n) ==
  IF w \notin active THEN IgnoresEvent
  ELSE IF kind = "dir" THEN RecordsWindow(w, n)
  ELSE RecordsFinal(w, kind)

record_event(w, kind, n) ==
  IF w \notin active THEN IgnoresEvent
  ELSE IF kind = "dir" THEN RecordsWindow(w, n)
  ELSE IF handle[w].final # "none" THEN IgnoresEvent
  ELSE RecordsFinal(w, kind)

Drains ==
  /\ parent.pc = "round" /\ queue # <<>>
  /\ queue' = Tail(queue)
  /\ record_event(Head(queue)[1], Head(queue)[2], Head(queue)[3])
  /\ UNCHANGED <<resources, parent, pending, active, proc, retries, faults, skipped>>

-----------------------------------------------------------------------------
(* The deadline, the cancellation, the kill 15 seconds after either.       *)
Stops(timeout) ==
  /\ parent.pc = "round" /\ pending \cup active # {} /\ ~run.stopping
  /\ run' = [run EXCEPT !.stopping = TRUE, !.timeout = timeout]
  /\ handle' = Cancelled(active)
  /\ UNCHANGED <<resources, parent, pending, active, doc, arrived, skipped, Processes,
                 faults>>

DeadlinePasses == HasDeadline /\ Stops(TRUE)
(* POST /runs/{id}/cancel, at any time; only a round reads it.             *)
CancelIsSeen == Stops(FALSE)

Killed(S) == [w \in Workers |-> IF w \in S \cap Alive THEN [proc[w] EXCEPT !.stage = "dead"]
                                ELSE proc[w]]

(* Mutant: only a worker that has answered the cancellation is killed.     *)
KillsAnswered ==
  LET answered == {w \in active : handle[w].final # "none"}
  IN /\ parent.pc = "round" /\ run.stopping /\ answered \cap Alive # {}
     /\ proc' = Killed(answered)
     /\ UNCHANGED <<resources, scheduler, queue, retries, faults>>

Kills ==
  /\ parent.pc = "round" /\ run.stopping /\ active \cap Alive # {}
  /\ proc' = Killed(active)
  /\ UNCHANGED <<resources, scheduler, queue, retries, faults>>

(* Mutant: only a worker that named its window is cleaned up.              *)
CleansWindowOnly(w) ==
  /\ IF doc[w].dir = 0 THEN UNCHANGED <<window, proxy, email>>
     ELSE /\ window' = window \ {<<w, doc[w].dir>>} /\ proxy' = proxy \ {w}
          /\ email' = Released({w})
  /\ UNCHANGED <<account, skipped, faults>>

(* cleanup_handle: each part may fail, and none stops the next.            *)
cleanup_handle(w) ==
  /\ \/ /\ window' = window \ {<<w, doc[w].dir>>}
        /\ proxy' = proxy \ {w}
        /\ email' = Released({w})
        /\ UNCHANGED <<skipped, faults>>
     \/ /\ Fault /\ skipped' = skipped \cup {w}
        /\ window' \in {window, window \ {<<w, doc[w].dir>>}}
        /\ proxy' \in {proxy, proxy \ {w}}
        /\ email' \in {email, Released({w})}
  /\ UNCHANGED account

(* A dead process: its last event is in the queue, or it died without one. *)
Reaps(w) ==
  /\ parent.pc = "round" /\ w \in active \ Alive
  /\ handle[w].final # "none" \/ queue = <<>>
  /\ IF handle[w].final # "none" THEN UNCHANGED <<doc, run>>
     ELSE /\ doc' = Finished({w}, IF run.stopping THEN "cancelled" ELSE "failed")
          /\ run' = IF run.stopping THEN run ELSE [run EXCEPT !.failed = @ + 1]
  /\ cleanup_handle(w)
  /\ active' = active \ {w}
  /\ UNCHANGED <<parent, pending, handle, arrived, Processes>>

Completes ==
  /\ parent.pc = "round" /\ ~run.stopping /\ pending \cup active = {} /\ Goto("finally")
  /\ run' = [run EXCEPT !.outcome = "completed"]
  /\ UNCHANGED <<resources, pending, active, handle, doc, arrived, skipped, Processes,
                 faults>>

Settles ==
  /\ parent.pc = "round" /\ run.stopping /\ active = {} /\ Goto("finally")
  /\ doc' = Finished(pending, "cancelled")
  /\ email' = Released(Workers)
  /\ run' = [run EXCEPT !.outcome = IF run.timeout THEN "timeout"
                                    ELSE IF run.circuit THEN "circuit" ELSE "cancelled"]
  /\ UNCHANGED <<pending, active, handle, arrived, skipped, Processes, window, proxy,
                 account, faults>>

(* A call of the database raises: RunNotFoundError when a repeated assign  *)
(* finds the document running, a lease that was lost, a timeout; or        *)
(* _RunCancellationRequested, offline.  A process without a handle yet is  *)
(* left to job.close.                                                      *)
Aborts ==
  /\ parent.pc \in {"round", "pid"} /\ pending \cup active \cup parent.worker # {} /\ Fault
  /\ parent' = [pc |-> "finally", worker |-> {}, todo |-> active]
  /\ \E outcome \in {"aborted", "offline"} : run' = [run EXCEPT !.outcome = outcome]
  /\ skipped' = skipped \cup parent.worker
  /\ UNCHANGED <<resources, pending, active, handle, doc, arrived, Processes>>

FinallyReaps(w) ==
  /\ parent.pc = "finally" /\ w \in parent.todo
  /\ parent' = [parent EXCEPT !.todo = @ \ {w}]
  /\ handle' = Cancelled({w}) /\ proc' = Killed({w})
  /\ cleanup_handle(w)
  /\ UNCHANGED <<pending, active, doc, run, arrived, queue, retries>>

(* job.close ends what is left of the processes.                           *)
FinallyEnds ==
  /\ parent.pc = "finally" /\ parent.todo = {} /\ Goto("over")
  /\ proc' = Killed(Workers) /\ queue' = <<>>
  /\ UNCHANGED <<resources, pending, active, handle, doc, run, arrived, skipped, retries,
                 faults>>

-----------------------------------------------------------------------------
(* _execute: what becomes of the addresses still reserved; offline, what   *)
(* the next recover does.                                                  *)
Ends(newEmail) ==
  /\ parent.pc = "over" /\ Goto("quiet")
  /\ email' = newEmail
  /\ UNCHANGED <<pending, active, handle, doc, run, arrived, skipped, Processes, window,
                 proxy, account>>

RunEnds ==
  /\ UNCHANGED faults
  /\ Ends(CASE run.outcome = "completed" -> email
            [] run.outcome \in {"cancelled", "offline"} -> Released(Workers)
            [] run.outcome \in {"timeout", "circuit", "aborted"} -> Reconciled)

(* The failed run is saved by recover first, so its addresses are orphans. *)
RunEndsOffline ==
  /\ run.outcome \in {"timeout", "circuit", "aborted"} /\ Fault
  /\ Ends(Released(Workers))

-----------------------------------------------------------------------------
(* The parent dies, its processes with it (WindowsChildJob); the next one  *)
(* recovers the run, except the workers whose document is terminal.        *)
ParentDies ==
  /\ parent.pc \in {"round", "pid", "finally"} /\ Fault
  /\ parent' = [pc |-> "recover", worker |-> {}, todo |-> DocsIn({"queued", "running"})]
  /\ proc' = Killed(Workers) /\ queue' = <<>>
  /\ run' = [run EXCEPT !.outcome = "interrupted"]
  /\ skipped' = skipped \cup DocsIn(TerminalDoc)
  /\ pending' = {} /\ active' = {}
  /\ UNCHANGED <<resources, handle, doc, arrived, retries>>

RecoversWorker(w) ==
  /\ parent.pc = "recover" /\ w \in parent.todo
  /\ parent' = [parent EXCEPT !.todo = @ \ {w}]
  /\ \/ /\ window' = window \ {<<w, doc[w].dir>>} /\ proxy' = proxy \ {w}
        /\ UNCHANGED <<skipped, faults>>
     \/ Fault /\ skipped' = skipped \cup {w} /\ UNCHANGED <<window, proxy>>
  /\ UNCHANGED <<pending, active, handle, doc, run, arrived, Processes, email,
                 account>>

RecoverEnds ==
  /\ parent.pc = "recover" /\ parent.todo = {} /\ Goto("quiet")
  /\ doc' = Finished(DocsIn({"queued", "running"}), "failed")
  /\ email' = Reconciled
  /\ UNCHANGED <<pending, active, handle, run, arrived, skipped, Processes, window,
                 proxy, account, faults>>

-----------------------------------------------------------------------------
Parent ==
  \/ Preflights \/ ReservesEmails \/ CreatesWorkers \/ RegistersHandle
  \/ Drains \/ Completes \/ Settles
  \/ FinallyEnds \/ RunEnds \/ RecoverEnds
  \/ \E w \in Workers : Launches(w) \/ Reaps(w) \/ FinallyReaps(w) \/ RecoversWorker(w)

Clock == DeadlinePasses \/ Kills

Environment ==
  \/ CancelIsSeen \/ PreflightFails \/ PreparationFails \/ Aborts \/ RunEndsOffline \/ ParentDies
  \/ \E w \in Workers : CloseFails(w) \/ PostsTwice(w) \/ Dies(w)
                        \/ SpawnFails(w)

Rests == parent.pc = "quiet" /\ UNCHANGED vars

Next == \/ Parent \/ Clock \/ Environment \/ Rests
        \/ \E w \in Workers : Worker(w)

Spec == Init /\ [][Next]_vars

-----------------------------------------------------------------------------
(* Fairness: the parent runs on, and kills 15 seconds after it began to    *)
(* stop; nothing is asked of a worker, which may hang.                     *)
FairSpec == Spec /\ WF_vars(Parent) /\ SF_vars(Kills) /\ SF_vars(DeadlinePasses)

(* What the run reports is what its documents say: as many successes, and  *)
(* as many failures, whatever the order in which events, deaths and the    *)
(* breaker came.                                                           *)
CountsMatch ==
  run.outcome \notin {"interrupted", "refused"} =>
    /\ run.succeeded = Cardinality(DocsIn({"success"}))
    /\ run.failed = Cardinality(DocsIn({"failed"}))

(* app/README.md:134: no more processes than Concurrency, counting any    *)
(* whose window and leases nobody has cleaned up.                          *)
SlotsBounded ==
  Cardinality(Alive \cup {w \in Workers : \E n \in 1 .. MaxRetries + 1 :
                            w \notin skipped /\ <<w, n>> \in window /\ doc[w].dir = n})
    <= Concurrency

(* app/README.md:135: the breaker opens at an authentication failure or at *)
(* Threshold infrastructure failures in a row, and only then.              *)
TrailingFailures(s) ==
  Cardinality({i \in 1 .. Len(s) : \A j \in i .. Len(s) : s[j] \in Infrastructure})
Trips(s) == /\ s # <<>>
            /\ s[Len(s)] = "auth" \/ TrailingFailures(s) >= Threshold
BreakerExact == run.circuit <=> \E n \in 1 .. Len(arrived) : Trips(SubSeq(arrived, 1, n))

(* Once the run is over nothing of it is alive; what its cleanup reached   *)
(* holds no address, no proxy and no window its document names; windows of *)
(* an earlier run are gone too, unless the start was refused.              *)
NothingLeft ==
  parent.pc = "quiet" =>
    /\ Alive = {}
    /\ {w \in Workers : email[w] = "reserved"} \cup proxy \subseteq skipped
    /\ run.outcome # "refused" =>
         \A w \in Workers \ skipped : {<<w, 0>>, <<w, doc[w].dir>>} \cap window = {}
    /\ run.outcome \in {"aborted", "offline"} \/ DocsIn({"queued", "running"}) = {}

(* A run with a deadline ends even if every worker hangs.                  *)
EveryRunReturns == <>(parent.pc = "quiet")

=============================================================================
