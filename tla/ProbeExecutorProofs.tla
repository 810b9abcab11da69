------------------------- MODULE ProbeExecutorProofs -------------------------
(***************************************************************************)
(* Proofs about ProbeExecutor, for any number of emails, any concurrency,  *)
(* threshold and number of faults: the bound on what runs, what is left    *)
(* when a run is over, its counters and its circuit breaker.               *)
(***************************************************************************)
EXTENDS ProbeExecutor, FiniteSetTheorems, SequenceTheorems, TLAPS

Before == {"preflight", "prepare", "workers"}
Scheduling == {"round", "pid"}
Places == Before \cup Scheduling \cup {"finally", "over", "recover", "quiet"}

Stages == {"off", "boot", "window", "open", "stored", "closing", "closed", "dead"}
Results == {"success", "cancelled"} \cup Errors   \* what a process posts
Ended == {"completed", "timeout", "circuit", "cancelled", "aborted", "offline"}

DocStatuses == {"none", "queued", "running"} \cup TerminalDoc
Docs == [status : DocStatuses, dir : Nat]
Procs == [stage : Stages, try : Nat \ {0},
          result : {"none", "success", "error", "infra", "cancelled"}]
Handles == [final : TerminalDoc \cup {"none"}, cancel : BOOLEAN]
Runs == [stopping : BOOLEAN, timeout : BOOLEAN, circuit : BOOLEAN,
         failures : Nat, succeeded : Nat, failed : Nat,
         outcome : Ended \cup {"running", "refused", "interrupted"}]
Parents == [pc : Places, worker : SUBSET Workers, todo : SUBSET Workers]
Addresses == {"available", "reserved", "deleted"}
Events == Workers \X (Results \cup {"dir"}) \X Nat

Typed ==
  /\ parent \in Parents /\ run \in Runs
  /\ pending \in SUBSET Workers /\ active \in SUBSET Workers /\ skipped \in SUBSET Workers
  /\ handle \in [Workers -> Handles]
  /\ doc \in [Workers -> Docs]
  /\ proc \in [Workers -> Procs]
  /\ window \in SUBSET (Workers \X Nat)
  /\ proxy \in SUBSET Workers /\ account \in SUBSET Workers
  /\ email \in [Workers -> Addresses]
  /\ queue \in Seq(Events) /\ arrived \in Seq({"success"} \cup Errors)
  /\ faults \in Nat /\ retries \in Nat

(* A process that closes its window knows how its attempt ended.           *)
ResultKnown ==
  \A w \in Workers : proc[w].stage \in {"closing", "closed"} => proc[w].result # "none"

(* The workers whose document names a window that is open and that some    *)
(* cleanup still has to reach; those launched and not yet reaped.          *)
Named == {w \in Workers \ skipped : doc[w].dir # 0 /\ <<w, doc[w].dir>> \in window}
Launched == active \cup parent.worker
Occupied == Alive \cup Named \cup Launched

Reserved == {w \in Workers : email[w] = "reserved"}
Open == DocsIn({"queued", "running"})

(* Where the parent is decides who may still hold what.                    *)
NotBegun ==
  parent.pc \in Before =>
    /\ Occupied = {} /\ proxy = {} /\ pending = Workers /\ queue = <<>>
    /\ parent.todo = {} /\ run.outcome = "running"
    /\ \A w \in Workers : doc[w].status = "none" /\ handle[w].final = "none"
    /\ parent.pc = "preflight" => Reserved = {}

Launching ==
  parent.pc \in Scheduling =>
    /\ Alive \cup Named \subseteq Launched
    /\ proxy \subseteq Launched \cup skipped
    /\ Reserved \subseteq pending \cup Launched \cup skipped
    /\ pending \cap Launched = {} /\ active \cap parent.worker = {}
    /\ parent.todo = {} /\ run.outcome = "running"
    /\ parent.pc = "round" => parent.worker = {}
    /\ parent.pc = "pid" => /\ \E w \in Workers : parent.worker = {w}
                            /\ Cardinality(active) < Concurrency

(* The document of a worker, by what the parent still has to do for it.    *)
Documents ==
  /\ parent.pc \notin Before /\ run.outcome # "refused" =>
       \A w \in Workers : doc[w].status # "none"
  /\ parent.pc \in Scheduling =>
       \A w \in Workers :
         /\ w \in pending => doc[w].status = "queued"
         /\ w \in Launched /\ handle[w].final = "none" => doc[w].status = "running"
         /\ handle[w].final # "none" => /\ w \notin pending \cup parent.worker
                                        /\ doc[w].status \in TerminalDoc
         /\ w \notin pending \cup Launched => doc[w].status \in TerminalDoc

Finishing ==
  /\ parent.pc \in {"finally", "over"} =>
       /\ parent.worker = {} /\ run.outcome \in Ended
       /\ run.outcome = "completed" => Reserved \subseteq skipped
       /\ run.outcome \notin {"aborted", "offline"} => Open = {}
  /\ parent.pc \in {"finally", "recover"} =>
       /\ proxy \subseteq parent.todo \cup skipped
       /\ Named \subseteq parent.todo
       /\ Alive \subseteq parent.todo \cup skipped
  /\ parent.pc \in {"over", "quiet"} => proxy \subseteq skipped
  /\ parent.pc = "over" => Named = {}
  /\ parent.pc = "recover" => run.outcome = "interrupted"
  /\ parent.pc \in {"over", "recover", "quiet"} => Alive = {} /\ parent.worker = {}

(* No window of an earlier run outlives the preparation.                   *)
OldWindowsGone ==
  parent.pc # "preflight" /\ run.outcome # "refused" =>
    \A w \in Workers : <<w, 0>> \notin window

Shape == NotBegun /\ Launching /\ Documents /\ Finishing /\ OldWindowsGone /\ ResultKnown

SlotsKept == Cardinality(Occupied) <= Concurrency

Breaker ==
  /\ run.failures = TrailingFailures(arrived)
  /\ BreakerExact

IInv == Typed /\ Shape /\ SlotsKept /\ NothingLeft /\ CountsMatch /\ Breaker

-----------------------------------------------------------------------------
(* Types.                                                                  *)

LEMMA TypedInit == Init => Typed
<1> SUFFICES ASSUME Init PROVE Typed OBVIOUS
<1>1. NoHandle \in Handles BY DEF NoHandle, Handles
<1>2. NoProcess \in Procs BY DEF NoProcess, Procs, Stages
<1>3. NewRun \in Runs BY DEF NewRun, Runs
<1>4. parent \in Parents BY DEF Init, Parents, Places, Before
<1>5. [status |-> "none", dir |-> 0] \in Docs BY DEF Docs, DocStatuses
<1> QED BY <1>1, <1>2, <1>3, <1>4, <1>5 DEF Init, Typed, Stale, Addresses

(* What a release, a cleanup or a cancellation does to what it reaches.    *)
LEMMA ReleaseTyped ==
  ASSUME Typed, NEW E \in SUBSET Workers
  PROVE  /\ Released(E) \in [Workers -> Addresses]
         /\ \A w \in Workers : Released(E)[w] = "reserved" => email[w] = "reserved" /\ w \notin E
BY DEF Typed, Released, Addresses

LEMMA ReconcileTyped ==
  ASSUME Typed
  PROVE  /\ Reconciled \in [Workers -> Addresses]
         /\ \A w \in Workers : Reconciled[w] # "reserved"
BY DEF Typed, Reconciled, Addresses

LEMMA KilledTyped ==
  ASSUME Typed, NEW S \in SUBSET Workers, proc' = Killed(S)
  PROVE  /\ proc' \in [Workers -> Procs]
         /\ Alive' = Alive \ S
         /\ \A w \in Workers : proc'[w].stage \in {"closing", "closed"} => proc'[w] = proc[w]
<1>1. \A w \in Workers : proc'[w] = IF w \in S \cap Alive THEN [proc[w] EXCEPT !.stage = "dead"]
                                    ELSE proc[w]
  BY DEF Killed
<1>2. \A p \in Procs : [p EXCEPT !.stage = "dead"] \in Procs
                         /\ [p EXCEPT !.stage = "dead"].stage = "dead"
  BY DEF Procs, Stages
<1>3. \A w \in Workers : proc[w] \in Procs BY DEF Typed
<1>4. proc' \in [Workers -> Procs]
  BY <1>2, <1>3 DEF Killed
<1>5. \A w \in Workers : w \in S \cap Alive => proc'[w].stage = "dead"
  BY <1>1, <1>2, <1>3
<1>6. \A w \in Workers : w \notin S \cap Alive => proc'[w] = proc[w] BY <1>1
<1> QED BY <1>4, <1>5, <1>6 DEF Alive

LEMMA FinishedTyped ==
  ASSUME Typed, NEW S \in SUBSET Workers, NEW s \in TerminalDoc
  PROVE  /\ Finished(S, s) \in [Workers -> Docs]
         /\ \A w \in Workers : /\ Finished(S, s)[w].dir = doc[w].dir
                               /\ Finished(S, s)[w].status = IF w \in S THEN s ELSE doc[w].status
<1>1. \A d \in Docs : /\ [d EXCEPT !.status = s] \in Docs
                      /\ [d EXCEPT !.status = s].status = s /\ [d EXCEPT !.status = s].dir = d.dir
  BY DEF Docs, DocStatuses
<1>2. \A w \in Workers : doc[w] \in Docs BY DEF Typed
<1> QED BY <1>1, <1>2 DEF Finished

LEMMA FinishedSome ==
  ASSUME Typed, NEW S \in SUBSET Workers, NEW s \in TerminalDoc, doc' = Finished(S, s)
  PROVE  /\ doc' \in [Workers -> Docs]
         /\ \A v \in Workers : /\ doc'[v].dir = doc[v].dir
                               /\ doc'[v].status = IF v \in S THEN s ELSE doc[v].status
BY FinishedTyped

LEMMA FinishedOne ==
  ASSUME Typed, NEW w \in Workers, NEW s \in TerminalDoc, doc' = Finished({w}, s)
  PROVE  /\ doc' \in [Workers -> Docs]
         /\ \A v \in Workers : /\ doc'[v].dir = doc[v].dir
                               /\ doc'[v].status = IF v = w THEN s ELSE doc[v].status
<1>1. {w} \in SUBSET Workers OBVIOUS
<1> QED BY <1>1, FinishedTyped

LEMMA WindowTyped ==
  ASSUME Typed, NEW w \in Workers, NEW n \in Nat
  PROVE  /\ WithWindow(w, n) \in [Workers -> Docs]
         /\ \A v \in Workers : /\ WithWindow(w, n)[v].status = doc[v].status
                               /\ v # w => WithWindow(w, n)[v] = doc[v]
<1>1. doc \in [Workers -> Docs] /\ doc[w] \in Docs BY DEF Typed
<1>2. [doc[w] EXCEPT !.dir = IF doc[w].status = "running" THEN n ELSE @] \in Docs
        /\ [doc[w] EXCEPT !.dir = IF doc[w].status = "running" THEN n ELSE @].status = doc[w].status
  BY <1>1 DEF Docs
<1>3. WithWindow(w, n) = [doc EXCEPT ![w] =
                           [doc[w] EXCEPT !.dir = IF doc[w].status = "running" THEN n ELSE @]]
  BY <1>1 DEF WithWindow
<1> QED BY <1>1, <1>2, <1>3

LEMMA CleanupTyped ==
  ASSUME Typed, NEW w \in Workers, cleanup_handle(w)
  PROVE  /\ window' \in SUBSET (Workers \X Nat) /\ window' \subseteq window
         /\ proxy' \subseteq proxy /\ account' = account
         /\ skipped' \in SUBSET Workers /\ skipped \subseteq skipped' /\ faults' \in Nat
         /\ email' \in [Workers -> Addresses]
         /\ \A v \in Workers : email'[v] = "reserved" => email[v] = "reserved"
         /\ w \notin skipped' => /\ <<w, doc[w].dir>> \notin window' /\ w \notin proxy'
                                 /\ email'[w] # "reserved"
<1>1. {w} \in SUBSET Workers OBVIOUS
<1>2. CASE /\ window' = window \ {<<w, doc[w].dir>>} /\ proxy' = proxy \ {w}
           /\ email' = Released({w}) /\ UNCHANGED <<skipped, faults, account>>
  BY <1>1, <1>2, ReleaseTyped DEF Typed
<1>3. CASE /\ Fault /\ skipped' = skipped \cup {w} /\ UNCHANGED account
           /\ window' \in {window, window \ {<<w, doc[w].dir>>}}
           /\ proxy' \in {proxy, proxy \ {w}}
           /\ email' \in {email, Released({w})}
  <2>1. /\ email' \in [Workers -> Addresses]
        /\ \A v \in Workers : email'[v] = "reserved" => email[v] = "reserved"
    BY <1>1, <1>3, ReleaseTyped DEF Typed
  <2> QED BY <1>3, <2>1 DEF Fault, Typed
<1> QED BY <1>2, <1>3 DEF cleanup_handle

-----------------------------------------------------------------------------
(* What a step of a process may do: the process is alive, the parent and   *)
(* the other processes see nothing of it but what it reports.              *)
WorkerMoves(w) ==
  /\ w \in Alive
  /\ UNCHANGED <<parent, pending, active, handle, run, arrived, skipped>>
  /\ \A v \in Workers : v # w => proc'[v] = proc[v]
  /\ \A v \in Workers : doc'[v].status = doc[v].status /\ (v # w => doc'[v] = doc[v])
  /\ proxy' \subseteq proxy \cup {w}
  /\ \A v \in Workers, n \in Nat :
       v # w \/ n = 0 => (<<v, n>> \in window' => <<v, n>> \in window)
  /\ \A v \in Workers : email'[v] = "reserved" => email[v] = "reserved"
  /\ proc'[w].stage \in {"closing", "closed"} => proc'[w].result # "none"

(* The process of w goes on to a stage, with a result.                     *)
LEMMA ProcessGoes ==
  ASSUME Typed, ResultKnown, NEW w \in Workers, NEW s \in Stages, w \in Alive,
         \/ Becomes(w, s) /\ (s = "closed" => proc[w].stage = "closing")
            /\ s # "closing"
         \/ \E r \in {"success", "error", "infra", "cancelled"} : ResultsIn(w, s, r)
  PROVE  /\ proc' \in [Workers -> Procs]
         /\ \A v \in Workers : v # w => proc'[v] = proc[v]
         /\ proc'[w].stage \in {"closing", "closed"} => proc'[w].result # "none"
<1>1. proc \in [Workers -> Procs] /\ proc[w] \in Procs BY DEF Typed
<1>2. CASE Becomes(w, s) /\ (s = "closed" => proc[w].stage = "closing") /\ s # "closing"
  <2>1. proc' = [proc EXCEPT ![w] = [proc[w] EXCEPT !.stage = s]] BY <1>1, <1>2 DEF Becomes
  <2>2. [proc[w] EXCEPT !.stage = s] \in Procs /\ [proc[w] EXCEPT !.stage = s].stage = s
          /\ [proc[w] EXCEPT !.stage = s].result = proc[w].result
    BY <1>1 DEF Procs
  <2> QED BY <1>1, <1>2, <2>1, <2>2 DEF ResultKnown
<1>3. ASSUME NEW r \in {"success", "error", "infra", "cancelled"}, ResultsIn(w, s, r)
      PROVE  /\ proc' \in [Workers -> Procs]
             /\ \A v \in Workers : v # w => proc'[v] = proc[v]
             /\ proc'[w].result # "none"
  <2>1. proc' = [proc EXCEPT ![w] = [proc[w] EXCEPT !.stage = s, !.result = r]]
    BY <1>1, <1>3 DEF ResultsIn
  <2>2. [proc[w] EXCEPT !.stage = s, !.result = r] \in Procs
          /\ [proc[w] EXCEPT !.stage = s, !.result = r].result = r
    BY <1>1 DEF Procs
  <2> QED BY <1>1, <2>1, <2>2
<1> QED BY <1>2, <1>3

LEMMA WithWindowMoves ==
  ASSUME Typed, ResultKnown, NEW w \in Workers, ReportsWindow(w)
  PROVE  Typed' /\ WorkerMoves(w)
<1>1. w \in Alive BY DEF ReportsWindow, At, Alive
<1>2. /\ proc' \in [Workers -> Procs] /\ \A v \in Workers : v # w => proc'[v] = proc[v]
      /\ proc'[w].stage \in {"closing", "closed"} => proc'[w].result # "none"
  BY <1>1, ProcessGoes DEF ReportsWindow, Stages
<1>3. proc[w].try \in Nat /\ doc \in [Workers -> Docs] BY DEF Typed, Procs
<1>4. doc' \in [Workers -> Docs]
        /\ \A v \in Workers : doc'[v].status = doc[v].status /\ (v # w => doc'[v] = doc[v])
  BY <1>3, WindowTyped DEF ReportsWindow
<1>5. queue' \in Seq(Events) /\ faults' \in Nat
  BY <1>3 DEF Typed, ReportsWindow, Events, Fault
<1>6. Typed'
  BY <1>2, <1>4, <1>5 DEF Typed, ReportsWindow, resources
<1>7. WorkerMoves(w)
  BY <1>1, <1>2, <1>4 DEF WorkerMoves, ReportsWindow, resources
<1> QED BY <1>6, <1>7

LEMMA PostMoves ==
  ASSUME Typed, ResultKnown, NEW w \in Workers, Posts(w) \/ PostsTwice(w)
  PROVE  Typed' /\ WorkerMoves(w)
<1>1. PICK extra \in {<<>>, <<<<w, "failed", 0>>>>} :
        PostsIn(w, extra) /\ faults' \in Nat
  BY DEF Posts, PostsTwice, Fault, Typed
<1>2. w \in Alive BY <1>1 DEF PostsIn, At, Alive
<1>3. /\ proc' \in [Workers -> Procs] /\ \A v \in Workers : v # w => proc'[v] = proc[v]
      /\ proc'[w].stage \in {"closing", "closed"} => proc'[w].result # "none"
  BY <1>1, <1>2, ProcessGoes DEF PostsIn, Stages
<1>4. /\ email' \in [Workers -> Addresses]
      /\ \A v \in Workers : email'[v] = "reserved" => email[v] = "reserved"
  BY <1>1, ReleaseTyped DEF PostsIn
<1>5. /\ proc[w].stage = "closed" /\ proc[w].result # "none"
      /\ proc[w].result \in {"none", "success", "error", "infra", "cancelled"}
  BY <1>1 DEF PostsIn, At, ResultKnown, Typed, Procs
<1>6. PICK r \in IF proc[w].result = "error" THEN Errors ELSE {proc[w].result} :
        queue' = Append(queue, <<w, r, 0>>) \o extra
  BY <1>1 DEF PostsIn
<1>7. r \in Results BY <1>5, <1>6 DEF Results, Errors, Infrastructure
<1>8. /\ <<w, r, 0>> \in Events /\ <<w, "failed", 0>> \in Events
      /\ queue \in Seq(Events)
  BY <1>7 DEF Events, Results, Errors, Typed
<1>9. queue' \in Seq(Events)
  <2>1. Append(queue, <<w, r, 0>>) \in Seq(Events) BY <1>8
  <2>2. <<>> \in Seq(Events) /\ <<<<w, "failed", 0>>>> \in Seq(Events) BY <1>8
  <2>3. extra \in Seq(Events) BY <2>2, extra \in {<<>>, <<<<w, "failed", 0>>>>}
  <2> QED BY <2>1, <2>3, <1>6
<1>10. Typed'
  BY <1>1, <1>3, <1>4, <1>9 DEF Typed, PostsIn, scheduler
<1>11. WorkerMoves(w)
  BY <1>1, <1>2, <1>3, <1>4 DEF WorkerMoves, PostsIn, scheduler
<1> QED BY <1>10, <1>11

(* Every step of a process is such a step, and keeps the types.            *)
LEMMA StepMoves ==
  ASSUME Typed, ResultKnown, NEW w \in Workers,
         Worker(w) \/ CloseFails(w) \/ PostsTwice(w) \/ Dies(w)
  PROVE  Typed' /\ WorkerMoves(w)
<1>1. /\ proc \in [Workers -> Procs] /\ proc[w].try \in Nat \ {0} /\ proc[w].stage \in Stages
      /\ proc[w].result \in {"none", "success", "error", "infra", "cancelled"}
  BY DEF Typed, Procs
<1> DEFINE Goes == /\ proc' \in [Workers -> Procs]
                   /\ \A v \in Workers : v # w => proc'[v] = proc[v]
                   /\ proc'[w].stage \in {"closing", "closed"} => proc'[w].result # "none"
<1>2. Unwound(proc[w].stage) \in Stages BY DEF Unwound, Stages
<1>3. CASE OpensWindow(w)
  <2>1. w \in Alive BY <1>3 DEF OpensWindow, At, Alive
  <2>2. Goes BY <1>3, <2>1, ProcessGoes DEF OpensWindow, Stages
  <2>3. Typed' BY <1>1, <1>3, <2>2 DEF Typed, OpensWindow, scheduler, Window
  <2>4. WorkerMoves(w)
    BY <1>1, <1>3, <2>1, <2>2 DEF WorkerMoves, OpensWindow, scheduler, Window
  <2> QED BY <2>3, <2>4
<1>4. CASE ReportsWindow(w) BY <1>4, WithWindowMoves
<1>5. CASE StoresAccount(w)
  <2>1. w \in Alive BY <1>5 DEF StoresAccount, At, Alive
  <2>2. Goes BY <1>5, <2>1, ProcessGoes DEF StoresAccount, Stages
  <2>3. Typed' BY <1>5, <2>2 DEF Typed, StoresAccount, scheduler
  <2>4. WorkerMoves(w)
    BY <1>5, <2>1, <2>2 DEF WorkerMoves, StoresAccount, scheduler
  <2> QED BY <2>3, <2>4
<1>6. CASE ConsumesEmail(w)
  <2>1. w \in Alive BY <1>6 DEF ConsumesEmail, At, Alive
  <2>2. Goes BY <1>6, <2>1, ProcessGoes DEF ConsumesEmail, Stages
  <2>3. /\ email' \in [Workers -> Addresses]
        /\ \A v \in Workers : email'[v] = "reserved" => email[v] = "reserved"
    BY <1>6 DEF ConsumesEmail, Typed, Addresses
  <2>4. Typed' BY <1>6, <2>2, <2>3 DEF Typed, ConsumesEmail, scheduler
  <2>5. WorkerMoves(w)
    BY <1>6, <2>1, <2>2, <2>3 DEF WorkerMoves, ConsumesEmail, scheduler
  <2> QED BY <2>4, <2>5
<1>7. CASE Fails(w)
  <2>1. w \in Alive BY <1>7 DEF Fails, Alive
  <2>2. Goes BY <1>2, <1>7, <2>1, ProcessGoes DEF Fails
  <2>3. Typed' BY <1>7, <2>2 DEF Typed, Fails, scheduler, resources
  <2>4. WorkerMoves(w)
    BY <1>7, <2>1, <2>2 DEF WorkerMoves, Fails, scheduler, resources
  <2> QED BY <2>3, <2>4
<1>8. CASE CancelStrikes(w)
  <2>1. w \in Alive BY <1>8 DEF CancelStrikes, Alive
  <2>2. Goes BY <1>2, <1>8, <2>1, ProcessGoes DEF CancelStrikes
  <2>3. Typed' BY <1>8, <2>2 DEF Typed, CancelStrikes, scheduler, resources
  <2>4. WorkerMoves(w)
    BY <1>8, <2>1, <2>2 DEF WorkerMoves, CancelStrikes, scheduler, resources
  <2> QED BY <2>3, <2>4
<1>9. CASE ClosesWindow(w)
  <2>1. w \in Alive BY <1>9 DEF ClosesWindow, At, Alive
  <2>2. Goes BY <1>9, <2>1, ProcessGoes DEF ClosesWindow, Stages, At
  <2>3. Typed' BY <1>9, <2>2 DEF Typed, ClosesWindow, scheduler
  <2>4. WorkerMoves(w)
    BY <1>9, <2>1, <2>2 DEF WorkerMoves, ClosesWindow, scheduler
  <2> QED BY <2>3, <2>4
<1>10. CASE Retries(w)
  <2>1. w \in Alive BY <1>10 DEF Retries, At, Alive
  <2>2. proc' = [proc EXCEPT ![w] = [stage |-> "boot", try |-> proc[w].try + 1,
                                     result |-> "none"]]
    BY <1>10 DEF Retries
  <2>3. [stage |-> "boot", try |-> proc[w].try + 1, result |-> "none"] \in Procs
    BY <1>1 DEF Procs, Stages
  <2>4. Goes BY <1>1, <2>2, <2>3
  <2>5. Typed' BY <1>10, <2>4 DEF Typed, Retries, scheduler, resources
  <2>6. WorkerMoves(w)
    BY <1>10, <2>1, <2>4 DEF WorkerMoves, Retries, scheduler, resources
  <2> QED BY <2>5, <2>6
<1>11. CASE Posts(w) \/ PostsTwice(w) BY <1>11, PostMoves
<1>12. CASE CloseFails(w)
  <2>1. w \in Alive BY <1>12 DEF CloseFails, At, Alive
  <2>2. proc[w].result \in {"success", "error", "infra", "cancelled"}
    BY <1>1, <1>12 DEF CloseFails, At, ResultKnown
  <2>3. Goes BY <1>12, <2>1, <2>2, ProcessGoes DEF CloseFails, Stages
  <2>4. Typed' BY <1>12, <2>3 DEF Typed, CloseFails, Fault, scheduler, resources
  <2>5. WorkerMoves(w)
    BY <1>12, <2>1, <2>3 DEF WorkerMoves, CloseFails, scheduler, resources
  <2> QED BY <2>4, <2>5
<1>13. CASE Dies(w)
  <2>1. Goes BY <1>13, ProcessGoes DEF Dies, Stages
  <2>2. Typed' BY <1>13, <2>1 DEF Typed, Dies, Fault, scheduler, resources
  <2>3. WorkerMoves(w)
    BY <1>13, <2>1 DEF WorkerMoves, Dies, scheduler, resources
  <2> QED BY <2>2, <2>3
<1> QED
  BY <1>3, <1>4, <1>5, <1>6, <1>7, <1>8, <1>9, <1>10, <1>11, <1>12, <1>13 DEF Worker

-----------------------------------------------------------------------------
(* What a step may leave of the bound and of the counters.                 *)

LEMMA OccupiedFinite ==
  ASSUME Typed
  PROVE  IsFiniteSet(Occupied) /\ Cardinality(Occupied) \in Nat
<1>1. Occupied \subseteq Workers
  BY DEF Typed, Occupied, Alive, Named, Launched, Parents
<1> QED BY <1>1, FS_Subset, FS_CardinalityType, ProbeAssumption

(* A step after which nothing more is occupied keeps the bound.            *)
LEMMA FewerOccupied ==
  ASSUME Typed, SlotsKept, Occupied' \subseteq Occupied
  PROVE  SlotsKept'
<1>1. IsFiniteSet(Occupied) /\ Cardinality(Occupied) \in Nat BY OccupiedFinite
<1>2. Cardinality(Occupied') <= Cardinality(Occupied) /\ Cardinality(Occupied') \in Nat
  BY <1>1, FS_Subset, FS_CardinalityType
<1> QED BY <1>1, <1>2, ProbeAssumption DEF SlotsKept

(* The counters and the breaker, when neither they nor a status changes.   *)
LEMMA SameCounts ==
  ASSUME CountsMatch, Breaker,
         run'.circuit = run.circuit, run'.failures = run.failures, arrived' = arrived,
         run'.succeeded = run.succeeded, run'.failed = run.failed,
         run.outcome \in {"interrupted", "refused"} => run'.outcome \in {"interrupted", "refused"},
         DocsIn({"success"})' = DocsIn({"success"}), DocsIn({"failed"})' = DocsIn({"failed"})
  PROVE  CountsMatch' /\ Breaker'
<1>1. TrailingFailures(arrived)' = TrailingFailures(arrived) /\ BreakerExact'
  BY DEF TrailingFailures, BreakerExact, Breaker, Trips
<1>2. CountsMatch' BY DEF CountsMatch
<1> QED BY <1>1, <1>2 DEF Breaker

(* A step of a process keeps the whole invariant.                          *)
LEMMA WorkerKeeps ==
  ASSUME IInv, NEW w \in Workers, WorkerMoves(w), Typed'
  PROVE  IInv'
<1> USE DEF IInv, Shape
<1>1. w \in Alive /\ parent' = parent /\ run' = run BY DEF WorkerMoves
<1>2. Alive' \subseteq Alive BY DEF WorkerMoves, Alive
<1>3. Named' \subseteq Named \cup ({w} \ skipped)
  BY DEF WorkerMoves, Named, Typed, Docs
<1>4. /\ Launched' = Launched /\ Reserved' \subseteq Reserved
      /\ \A S : DocsIn(S)' = DocsIn(S)
  BY DEF WorkerMoves, Launched, Reserved, DocsIn
<1>5. Occupied' \subseteq Occupied BY <1>1, <1>2, <1>3, <1>4 DEF Occupied
<1>6. SlotsKept' BY <1>5, FewerOccupied
<1>7. parent.pc \notin Before BY <1>1 DEF NotBegun, Occupied
<1>8. parent.pc \notin {"over", "recover", "quiet"} BY <1>1 DEF Finishing
<1>9. NotBegun' /\ NothingLeft' BY <1>1, <1>7, <1>8 DEF NotBegun, NothingLeft
<1>10. proxy' \subseteq proxy \cup {w} /\ UNCHANGED <<pending, active, handle, skipped, arrived>>
  BY DEF WorkerMoves
<1>11. Launching'
  BY <1>1, <1>2, <1>3, <1>4, <1>10 DEF Launching
<1>12. \A v \in Workers : doc'[v].status = doc[v].status BY DEF WorkerMoves
<1>13. Documents'
  BY <1>1, <1>4, <1>10, <1>12 DEF Documents
<1>14. Finishing'
  BY <1>1, <1>2, <1>3, <1>4, <1>8, <1>10 DEF Finishing, Open
<1>15. OldWindowsGone' /\ ResultKnown'
  BY <1>1 DEF OldWindowsGone, ResultKnown, WorkerMoves
<1>16. CountsMatch' /\ Breaker' BY <1>1, <1>4, <1>10, SameCounts
<1> QED BY <1>6, <1>9, <1>11, <1>13, <1>14, <1>15, <1>16

-----------------------------------------------------------------------------
(* The preparation: nothing of the run is there yet.                       *)

LEMMA SetsTyped ==
  ASSUME Typed, NEW pc \in Places, Goto(pc)
  PROVE  parent' \in Parents /\ parent'.pc = pc /\ parent'.worker = parent.worker
           /\ parent'.todo = parent.todo
BY DEF Typed, Parents, Goto

LEMMA OutcomeTyped ==
  ASSUME Typed, NEW o \in Ended \cup {"running", "refused", "interrupted"},
         run' = [run EXCEPT !.outcome = o]
  PROVE  /\ run' \in Runs /\ run'.outcome = o
         /\ run'.stopping = run.stopping /\ run'.timeout = run.timeout
         /\ run'.circuit = run.circuit /\ run'.failures = run.failures
         /\ run'.succeeded = run.succeeded /\ run'.failed = run.failed
BY DEF Typed, Runs

LEMMA PreflightsKeeps == IInv /\ Preflights => IInv'
<1> SUFFICES ASSUME IInv, Preflights PROVE IInv' OBVIOUS
<1> USE DEF IInv, Shape
<1>1. parent.pc = "preflight" /\ parent'.pc = "prepare" /\ parent' \in Parents
        /\ parent'.worker = parent.worker /\ parent'.todo = parent.todo
  BY SetsTyped DEF Preflights, Places, Before
<1>2. window' = {} /\ UNCHANGED <<pending, active, handle, doc, run, arrived, skipped, email,
                                  proxy, account, proc, queue, retries, faults>>
  BY DEF Preflights, ClosesManaged, Processes
<1>3. Typed' BY <1>1, <1>2 DEF Typed
<1>4. Alive' = Alive /\ Named' = {} /\ Launched' = Launched
        /\ \A S : DocsIn(S)' = DocsIn(S)
  BY <1>1, <1>2 DEF Alive, Named, Launched, DocsIn
<1>5. SlotsKept' /\ Occupied' \subseteq Occupied BY <1>4, FewerOccupied DEF Occupied
<1>6. NotBegun' BY <1>1, <1>2, <1>5 DEF NotBegun, Before
<1>7. Launching' /\ Documents' /\ Finishing' /\ NothingLeft'
  BY <1>1 DEF Launching, Documents, Finishing, NothingLeft, Before, Scheduling
<1>8. OldWindowsGone' /\ ResultKnown' BY <1>2 DEF OldWindowsGone, ResultKnown
<1>9. CountsMatch' /\ Breaker' BY <1>2, <1>4, SameCounts
<1> QED BY <1>3, <1>5, <1>6, <1>7, <1>8, <1>9

(* A start that is refused leaves nothing behind.                          *)
LEMMA RefusedKeeps ==
  ASSUME IInv, parent.pc \in Before, Goto("quiet"), run' = [run EXCEPT !.outcome = "refused"],
         window' \in SUBSET window, email' \in [Workers -> Addresses], Reserved' = {},
         faults' \in Nat,
         UNCHANGED <<pending, active, handle, doc, arrived, skipped, Processes, proxy, account>>
  PROVE  IInv'
<1> USE DEF IInv, Shape
<1>1. parent'.pc = "quiet" /\ parent' \in Parents
        /\ parent'.worker = parent.worker /\ parent'.todo = parent.todo
  BY SetsTyped DEF Places
<1>2. run' \in Runs /\ run'.outcome = "refused" /\ run'.circuit = run.circuit
        /\ run'.failures = run.failures /\ run'.succeeded = run.succeeded
        /\ run'.failed = run.failed
  BY OutcomeTyped
<1>3. Typed' BY <1>1, <1>2 DEF Typed, Processes
<1>4. Alive' = Alive /\ Named' \subseteq Named /\ Launched' = Launched
        /\ \A S : DocsIn(S)' = DocsIn(S)
  BY <1>1 DEF Alive, Named, Launched, DocsIn, Processes
<1>5. SlotsKept' /\ Occupied' \subseteq Occupied BY <1>4, FewerOccupied DEF Occupied
<1>6. Occupied = {} /\ proxy = {} /\ Open = {}
  BY DEF NotBegun, Open, DocsIn
<1>7. Alive' = {} /\ parent'.worker = {} /\ proxy' = {} /\ Open' = {}
  BY <1>1, <1>4, <1>6 DEF Occupied, Launched, Open
<1>8. NotBegun' /\ Launching' /\ Documents'
  BY <1>1, <1>2 DEF NotBegun, Launching, Documents, Before, Scheduling
<1>9. Finishing' BY <1>1, <1>7 DEF Finishing
<1>10. OldWindowsGone' /\ ResultKnown'
  BY <1>2 DEF OldWindowsGone, ResultKnown, Processes
<1>11. NothingLeft' BY <1>2, <1>7 DEF NothingLeft, Reserved, Open
<1>12. CountsMatch' /\ Breaker' BY <1>2, <1>4, SameCounts
<1> QED BY <1>3, <1>5, <1>8, <1>9, <1>10, <1>11, <1>12

LEMMA PreparationFailsKeeps == IInv /\ (PreflightFails \/ PreparationFails) => IInv'
<1>1. ASSUME IInv, PreflightFails PROVE IInv'
  <2>1. email' \in [Workers -> Addresses] /\ Reserved' = {} /\ faults' \in Nat
    BY <1>1 DEF IInv, Shape, NotBegun, Before, PreflightFails, Typed, Fault, Reserved
  <2> QED BY <1>1, <2>1, RefusedKeeps DEF PreflightFails, Before
<1>2. ASSUME IInv, PreparationFails PROVE IInv'
  <2>1. Workers \in SUBSET Workers OBVIOUS
  <2>2. email' \in [Workers -> Addresses] /\ Reserved' = {} /\ faults' \in Nat
    BY <1>2, <2>1, ReleaseTyped DEF IInv, PreparationFails, Typed, Fault, Reserved
  <2> QED BY <1>2, <2>2, RefusedKeeps DEF PreparationFails, Before
<1> QED BY <1>1, <1>2

LEMMA ReservesEmailsKeeps == IInv /\ ReservesEmails => IInv'
<1> SUFFICES ASSUME IInv, ReservesEmails PROVE IInv' OBVIOUS
<1> USE DEF IInv, Shape
<1>1. parent.pc = "prepare" /\ parent'.pc = "workers" /\ parent' \in Parents
        /\ parent'.worker = parent.worker /\ parent'.todo = parent.todo
  BY SetsTyped DEF ReservesEmails, Places, Before
<1>2. /\ UNCHANGED <<pending, active, handle, doc, run, arrived, skipped, window,
                     proxy, account, proc, queue, retries, faults>>
      /\ email' \in [Workers -> Addresses]
  BY DEF ReservesEmails, Prepared, Addresses
<1>3. Typed' BY <1>1, <1>2 DEF Typed
<1>4. Alive' = Alive /\ Named' = Named /\ Launched' = Launched
        /\ \A S : DocsIn(S)' = DocsIn(S)
  BY <1>1, <1>2 DEF Alive, Named, Launched, DocsIn
<1>5. SlotsKept' /\ Occupied' \subseteq Occupied BY <1>4, FewerOccupied DEF Occupied
<1>6. NotBegun' BY <1>1, <1>2, <1>5 DEF NotBegun, Before
<1>7. Launching' /\ Documents' /\ Finishing' /\ NothingLeft'
  BY <1>1 DEF Launching, Documents, Finishing, NothingLeft, Before, Scheduling
<1>8. OldWindowsGone' /\ ResultKnown' BY <1>1, <1>2 DEF OldWindowsGone, ResultKnown
<1>9. CountsMatch' /\ Breaker' BY <1>2, <1>4, SameCounts
<1> QED BY <1>3, <1>5, <1>6, <1>7, <1>8, <1>9

LEMMA CreatesWorkersKeeps == IInv /\ CreatesWorkers => IInv'
<1> SUFFICES ASSUME IInv, CreatesWorkers PROVE IInv' OBVIOUS
<1> USE DEF IInv, Shape
<1>1. parent.pc = "workers" /\ parent'.pc = "round" /\ parent' \in Parents
        /\ parent'.worker = parent.worker /\ parent'.todo = parent.todo
  BY SetsTyped DEF CreatesWorkers, Places, Scheduling
<1>2. /\ UNCHANGED <<pending, active, handle, run, arrived, skipped, window,
                     proxy, account, proc, queue, retries, faults, email>>
      /\ doc' = [w \in Workers |-> [status |-> "queued", dir |-> 0]]
  BY DEF CreatesWorkers, Prepared
<1>3. [status |-> "queued", dir |-> 0] \in Docs BY DEF Docs, DocStatuses
<1>4. Typed' BY <1>1, <1>2, <1>3 DEF Typed
<1>5. \A w \in Workers : doc'[w].status = "queued" /\ doc'[w].dir = 0 BY <1>2
<1>6. Alive' = Alive /\ Named' = {} /\ Launched' = Launched
  BY <1>1, <1>2, <1>5 DEF Alive, Named, Launched
<1>7. SlotsKept' /\ Occupied' \subseteq Occupied BY <1>6, FewerOccupied DEF Occupied
<1>8. /\ Occupied = {} /\ proxy = {} /\ pending = Workers /\ parent.todo = {}
      /\ run.outcome = "running"
      /\ \A w \in Workers : doc[w].status = "none" /\ handle[w].final = "none"
  BY <1>1 DEF NotBegun, Before
<1>9. Alive = {} /\ active = {} /\ parent.worker = {} BY <1>8 DEF Occupied, Launched
<1>10. Launching'
  BY <1>1, <1>2, <1>6, <1>8, <1>9 DEF Launching, Scheduling, Launched, Reserved
<1>11. Documents'
  BY <1>1, <1>2, <1>5, <1>8, <1>9 DEF Documents, Launched, TerminalDoc
<1>12. NotBegun' /\ Finishing' /\ NothingLeft'
  BY <1>1 DEF NotBegun, Finishing, NothingLeft, Before
<1>13. OldWindowsGone' /\ ResultKnown' BY <1>1, <1>2 DEF OldWindowsGone, ResultKnown
<1>14. DocsIn({"success"})' = DocsIn({"success"}) /\ DocsIn({"failed"})' = DocsIn({"failed"})
  BY <1>5, <1>8 DEF DocsIn
<1>15. CountsMatch' /\ Breaker' BY <1>2, <1>14, SameCounts
<1> QED BY <1>4, <1>7, <1>10, <1>11, <1>12, <1>13, <1>15

-----------------------------------------------------------------------------
(* The rounds.  While the parent schedules, what follows a run is no       *)
(* concern.                                                                *)
LEMMA InScheduling ==
  ASSUME parent'.pc \in Scheduling
  PROVE  NotBegun' /\ Finishing' /\ NothingLeft'
BY DEF Scheduling, NotBegun, Finishing, NothingLeft, Before

(* One more document is final, and the counters say so.                    *)
LEMMA FinishedCounts ==
  ASSUME Typed, CountsMatch, NEW w \in Workers, NEW s \in TerminalDoc,
         doc[w].status \in {"queued", "running"}, doc' = Finished({w}, s),
         run.outcome \notin {"interrupted", "refused"},
         run'.succeeded = run.succeeded + (IF s = "success" THEN 1 ELSE 0),
         run'.failed = run.failed + (IF s = "failed" THEN 1 ELSE 0)
  PROVE  CountsMatch'
<1>1. \A v \in Workers : doc'[v].status = IF v = w THEN s ELSE doc[v].status
  BY FinishedOne
<1>2. \A S : DocsIn(S) \subseteq Workers /\ IsFiniteSet(DocsIn(S))
  BY FS_Subset, ProbeAssumption DEF DocsIn
<1>3. ASSUME NEW x \in {"success", "failed"}
      PROVE  Cardinality(DocsIn({x})') = Cardinality(DocsIn({x})) + (IF s = x THEN 1 ELSE 0)
  <2>1. w \notin DocsIn({x}) BY DEF DocsIn
  <2>2. CASE s = x
    <3>1. DocsIn({x})' = DocsIn({x}) \cup {w} BY <1>1, <2>2 DEF DocsIn
    <3> QED BY <1>2, <2>1, <2>2, <3>1, FS_AddElement
  <2>3. CASE s # x
    <3>1. DocsIn({x})' = DocsIn({x}) BY <1>1, <2>1, <2>3 DEF DocsIn
    <3>2. Cardinality(DocsIn({x})) \in Nat BY <1>2, FS_CardinalityType
    <3> QED BY <2>3, <3>1, <3>2
  <2> QED BY <2>2, <2>3
<1> QED BY <1>3 DEF CountsMatch

LEMMA LaunchesKeeps == ASSUME NEW w \in Workers PROVE IInv /\ Launches(w) => IInv'
<1> SUFFICES ASSUME IInv, Launches(w) PROVE IInv' OBVIOUS
<1> USE DEF IInv, Shape
<1>1. /\ parent.pc = "round" /\ w \in pending /\ parent'.pc = "pid" /\ parent' \in Parents
      /\ parent'.worker = {w} /\ parent'.todo = parent.todo
  BY DEF Launches, Typed, Parents, Places, Scheduling
<1>2. /\ pending' = pending \ {w} /\ doc' = Assigned(w)
      /\ proc' = [proc EXCEPT ![w].stage = "boot"]
      /\ UNCHANGED <<active, handle, run, arrived, skipped, window, proxy, account, queue,
                     retries, faults, email>>
  BY DEF Launches, resources
<1>3. Cardinality(active) < Concurrency BY DEF Launches, CanLaunch
<1>4. \A d \in Docs : [d EXCEPT !.status = IF @ = "queued" THEN "running" ELSE @] \in Docs
                      /\ [d EXCEPT !.status = IF @ = "queued" THEN "running" ELSE @].dir = d.dir
                      /\ [d EXCEPT !.status = IF @ = "queued" THEN "running" ELSE @].status
                           = IF d.status = "queued" THEN "running" ELSE d.status
  BY DEF Docs, DocStatuses
<1>5. doc \in [Workers -> Docs] /\ doc[w] \in Docs BY DEF Typed
<1>6. doc' = [doc EXCEPT ![w] =
               [doc[w] EXCEPT !.status = IF @ = "queued" THEN "running" ELSE @]]
  BY <1>2, <1>5 DEF Assigned
<1>7. doc[w].status = "queued" /\ handle[w].final = "none" BY <1>1 DEF Documents, Scheduling
<1>8. doc' \in [Workers -> Docs] /\ doc'[w].status = "running" /\ doc'[w].dir = doc[w].dir
        /\ \A v \in Workers : v # w => doc'[v] = doc[v]
  BY <1>4, <1>5, <1>6, <1>7
<1>9. proc' \in [Workers -> Procs] /\ proc'[w].stage = "boot"
        /\ \A v \in Workers : v # w => proc'[v] = proc[v]
  <2>1. proc \in [Workers -> Procs] /\ proc[w] \in Procs BY DEF Typed
  <2>2. [proc[w] EXCEPT !.stage = "boot"] \in Procs
          /\ [proc[w] EXCEPT !.stage = "boot"].stage = "boot"
    BY <2>1 DEF Procs, Stages
  <2>3. proc' = [proc EXCEPT ![w] = [proc[w] EXCEPT !.stage = "boot"]] BY <1>2, <2>1
  <2> QED BY <2>1, <2>2, <2>3
<1>10. Typed' BY <1>1, <1>2, <1>8, <1>9 DEF Typed
<1>11. /\ Alive' \subseteq Alive \cup {w} /\ Named' = Named
       /\ Launched' = Launched \cup {w} /\ Launched = active /\ Reserved' = Reserved
  BY <1>1, <1>2, <1>8, <1>9 DEF Alive, Named, Launched, Reserved, Launching, Scheduling
<1>12. /\ Alive \cup Named \subseteq Launched /\ proxy \subseteq Launched \cup skipped
       /\ Reserved \subseteq pending \cup Launched \cup skipped
       /\ pending \cap Launched = {} /\ parent.todo = {} /\ run.outcome = "running"
  BY <1>1 DEF Launching, Scheduling
<1>13. Launching'
  BY <1>1, <1>2, <1>3, <1>11, <1>12 DEF Launching, Scheduling
<1>14. SlotsKept'
  <2>1. Occupied' \subseteq active \cup {w} BY <1>11, <1>12 DEF Occupied
  <2>2. IsFiniteSet(active) BY FS_Subset, ProbeAssumption DEF Typed
  <2>3. IsFiniteSet(active \cup {w}) /\ Cardinality(active \cup {w}) <= Cardinality(active) + 1
          /\ Cardinality(active) \in Nat
    BY <2>2, FS_AddElement, FS_CardinalityType
  <2>4. Cardinality(Occupied') <= Cardinality(active \cup {w}) /\ Cardinality(Occupied') \in Nat
          /\ Cardinality(active \cup {w}) \in Nat
    BY <2>1, <2>3, FS_Subset, FS_CardinalityType
  <2> QED BY <1>3, <2>3, <2>4, ProbeAssumption DEF SlotsKept
<1>15. Documents'
  BY <1>1, <1>2, <1>7, <1>8, <1>11, <1>12 DEF Documents, Scheduling, Before
<1>16. OldWindowsGone' /\ ResultKnown'
  BY <1>1, <1>2, <1>9 DEF OldWindowsGone, ResultKnown
<1>17. DocsIn({"success"})' = DocsIn({"success"}) /\ DocsIn({"failed"})' = DocsIn({"failed"})
  BY <1>7, <1>8 DEF DocsIn
<1>18. CountsMatch' /\ Breaker' BY <1>2, <1>17, SameCounts
<1> QED BY <1>1, <1>10, <1>13, <1>14, <1>15, <1>16, <1>18, InScheduling DEF Scheduling

LEMMA SpawnFailsKeeps == ASSUME NEW w \in Workers PROVE IInv /\ SpawnFails(w) => IInv'
<1> SUFFICES ASSUME IInv, SpawnFails(w) PROVE IInv' OBVIOUS
<1> USE DEF IInv, Shape
<1>1. /\ parent.pc = "round" /\ w \in pending /\ pending' = pending \ {w}
      /\ doc' = Finished({w}, "failed") /\ email' = Released({w})
      /\ run' = [run EXCEPT !.failed = @ + 1] /\ faults' \in Nat
      /\ UNCHANGED <<parent, active, handle, arrived, skipped, proc, queue, retries, window,
                     proxy, account>>
  BY DEF SpawnFails, Fault, Processes, Typed
<1>a. \A r \in Runs : LET q == [r EXCEPT !.failed = @ + 1] IN
        /\ q \in Runs /\ q.failed = r.failed + 1 /\ q.succeeded = r.succeeded
        /\ q.circuit = r.circuit /\ q.failures = r.failures /\ q.outcome = r.outcome
  BY DEF Runs
<1>2. run' \in Runs /\ run'.failed = run.failed + 1 /\ run'.succeeded = run.succeeded
        /\ run'.circuit = run.circuit /\ run'.failures = run.failures
        /\ run'.outcome = run.outcome
  BY <1>1, <1>a DEF Typed
<1>3. {w} \in SUBSET Workers /\ "failed" \in TerminalDoc BY DEF TerminalDoc
<1>4. /\ doc' \in [Workers -> Docs]
      /\ \A v \in Workers : /\ doc'[v].dir = doc[v].dir
                            /\ doc'[v].status = IF v = w THEN "failed" ELSE doc[v].status
  BY <1>1, <1>3, FinishedOne
<1>5. email' \in [Workers -> Addresses] /\ Reserved' \subseteq Reserved \ {w}
  BY <1>1, <1>3, ReleaseTyped DEF Reserved
<1>6. Typed' BY <1>1, <1>2, <1>4, <1>5 DEF Typed
<1>7. Alive' = Alive /\ Named' = Named /\ Launched' = Launched
  BY <1>1, <1>4 DEF Alive, Named, Launched
<1>8. SlotsKept' BY <1>7, FewerOccupied DEF Occupied
<1>9. doc[w].status = "queued" /\ handle[w].final = "none" /\ w \notin Launched
  BY <1>1 DEF Documents, Launching, Scheduling
<1>10. Launching' BY <1>1, <1>2, <1>5, <1>7 DEF Launching
<1>11. Documents'
  BY <1>1, <1>2, <1>3, <1>4, <1>7, <1>9 DEF Documents, Scheduling, Before
<1>12. OldWindowsGone' /\ ResultKnown'
  BY <1>1, <1>2 DEF OldWindowsGone, ResultKnown
<1>13. run.outcome = "running" BY <1>1 DEF Launching, Scheduling
<1>14. run.succeeded \in Nat /\ run.failed \in Nat BY DEF Typed, Runs
<1>15. CountsMatch' BY <1>1, <1>2, <1>3, <1>9, <1>13, <1>14, FinishedCounts
<1>16. Breaker' BY <1>1, <1>2 DEF Breaker, BreakerExact, TrailingFailures, Trips
<1> QED BY <1>1, <1>6, <1>8, <1>10, <1>11, <1>12, <1>15, <1>16, InScheduling DEF Scheduling

LEMMA RegistersHandleKeeps == IInv /\ RegistersHandle => IInv'
<1> SUFFICES ASSUME IInv, RegistersHandle PROVE IInv' OBVIOUS
<1> USE DEF IInv, Shape
<1>1. /\ parent.pc = "pid" /\ parent'.pc = "round" /\ parent' \in Parents
      /\ parent'.worker = {} /\ parent'.todo = parent.todo
  BY DEF RegistersHandle, Typed, Parents, Places, Scheduling
<1>2. /\ active' = active \cup parent.worker
      /\ UNCHANGED <<pending, handle, doc, run, arrived, skipped, window, proxy, account,
                     email, proc, queue, retries, faults>>
  BY DEF RegistersHandle, resources, Processes
<1>3. Typed' BY <1>1, <1>2 DEF Typed, Parents
<1>4. Alive' = Alive /\ Named' = Named /\ Launched' = Launched /\ Reserved' = Reserved
        /\ \A S : DocsIn(S)' = DocsIn(S)
  BY <1>1, <1>2 DEF Alive, Named, Launched, Reserved, DocsIn
<1>5. SlotsKept' BY <1>4, FewerOccupied DEF Occupied
<1>6. Launching' BY <1>1, <1>2, <1>4 DEF Launching, Scheduling
<1>7. Documents' BY <1>1, <1>2, <1>4 DEF Documents, Scheduling, Before
<1>8. OldWindowsGone' /\ ResultKnown' BY <1>1, <1>2 DEF OldWindowsGone, ResultKnown
<1>9. CountsMatch' /\ Breaker' BY <1>2, <1>4, SameCounts
<1> QED BY <1>1, <1>3, <1>5, <1>6, <1>7, <1>8, <1>9, InScheduling DEF Scheduling

-----------------------------------------------------------------------------
(* The breaker: what one more result does to the failures in a row, and to *)
(* the prefixes of what arrived.                                           *)
Outcomes == {"success"} \cup Errors
Tripped(s) == \E n \in 1 .. Len(s) : Trips(SubSeq(s, 1, n))

LEMMA TrailingAppend ==
  ASSUME NEW s \in Seq(Outcomes), NEW x \in Outcomes
  PROVE  TrailingFailures(Append(s, x)) =
           IF x \in Infrastructure THEN TrailingFailures(s) + 1 ELSE 0
<1> DEFINE t == Append(s, x)
           Run(q) == {i \in 1 .. Len(q) : \A j \in i .. Len(q) : q[j] \in Infrastructure}
<1>1. /\ Len(s) \in Nat /\ Len(t) = Len(s) + 1 /\ t[Len(s) + 1] = x
      /\ \A i \in 1 .. Len(s) : t[i] = s[i]
  BY AppendProperties
<1> HIDE DEF t
<1>2. Run(s) \subseteq 1 .. Len(s) /\ IsFiniteSet(1 .. Len(s))
  BY <1>1, FS_Interval
<1>3. IsFiniteSet(Run(s)) BY <1>2, FS_Subset
<1>4. CASE x \in Infrastructure
  <2>1. Run(t) = Run(s) \cup {Len(s) + 1} BY <1>1, <1>4
  <2>2. Len(s) + 1 \notin Run(s) BY <1>1
  <2> HIDE DEF Run
  <2>3. Cardinality(Run(t)) = Cardinality(Run(s)) + 1 BY <1>3, <2>1, <2>2, FS_AddElement
  <2> QED BY <1>4, <2>3 DEF TrailingFailures, t, Run
<1>5. CASE x \notin Infrastructure
  <2>1. Run(t) = {}
    <3> SUFFICES ASSUME NEW i \in Run(t) PROVE FALSE OBVIOUS
    <3>1. i \in 1 .. Len(t) /\ Len(t) \in i .. Len(t) BY <1>1
    <3> QED BY <1>1, <1>5, <3>1
  <2> HIDE DEF Run
  <2>2. Cardinality(Run(t)) = 0 BY <2>1, FS_EmptySet
  <2> QED BY <1>5, <2>2 DEF TrailingFailures, t, Run
<1> QED BY <1>4, <1>5

LEMMA TrippedAppend ==
  ASSUME NEW s \in Seq(Outcomes), NEW x \in Outcomes
  PROVE  Tripped(Append(s, x)) <=> Tripped(s) \/ Trips(Append(s, x))
<1> DEFINE t == Append(s, x)
<1>1. t \in Seq(Outcomes) /\ Len(s) \in Nat /\ Len(t) = Len(s) + 1
        /\ \A i \in 1 .. Len(s) : t[i] = s[i]
  BY AppendProperties
<1>2. SubSeq(t, 1, Len(t)) = t BY <1>1, SubSeqFull
<1>3. t = s \o <<x>> BY AppendIsConcat
<1>4. ASSUME NEW n \in 1 .. Len(s) PROVE SubSeq(t, 1, n) = SubSeq(s, 1, n)
  <2>1. <<x>> \in Seq(Outcomes) /\ 1 \in 1 .. Len(s) BY <1>1
  <2> QED BY <1>3, <2>1, SubSeqOfConcat1
<1>5. 1 .. Len(t) = (1 .. Len(s)) \cup {Len(t)} BY <1>1
<1> HIDE DEF t
<1>6. Tripped(t) <=> Tripped(s) \/ Trips(t) BY <1>2, <1>4, <1>5 DEF Tripped
<1> QED BY <1>6 DEF t

LEMMA CountedTyped ==
  ASSUME NEW r \in Runs, NEW s \in Results
  PROVE  /\ Counted(r, s) \in Runs
         /\ Counted(r, s).circuit = r.circuit /\ Counted(r, s).stopping = r.stopping
         /\ Counted(r, s).timeout = r.timeout /\ Counted(r, s).outcome = r.outcome
         /\ Counted(r, s).succeeded = r.succeeded + (IF s = "success" THEN 1 ELSE 0)
         /\ Counted(r, s).failed = r.failed + (IF s \in Errors THEN 1 ELSE 0)
         /\ Counted(r, s).failures = IF s = "cancelled" THEN r.failures
                                     ELSE IF s \in Infrastructure THEN r.failures + 1 ELSE 0
<1>1. CASE s = "cancelled"
  BY <1>1 DEF Counted, Runs, Errors, Infrastructure
<1>2. r.succeeded + 1 \in Nat /\ r.failed + 1 \in Nat /\ r.failures + 1 \in Nat
        /\ r.succeeded \in Nat /\ r.failed \in Nat
  BY DEF Runs
<1>3. ASSUME NEW a \in Nat, NEW b \in Nat
      PROVE  /\ [r EXCEPT !.succeeded = a, !.failures = b] \in Runs
             /\ [r EXCEPT !.failed = a, !.failures = b] \in Runs
  BY DEF Runs
<1>4. CASE s = "success"
  <2>1. Counted(r, s) = [r EXCEPT !.succeeded = r.succeeded + 1, !.failures = 0]
    BY <1>4 DEF Counted, Runs, Infrastructure
  <2>2. Counted(r, s) \in Runs BY <1>2, <1>3, <2>1
  <2>3. s \notin Errors /\ s \notin Infrastructure /\ s # "cancelled"
    BY <1>4 DEF Errors, Infrastructure
  <2>4. /\ Counted(r, s).circuit = r.circuit /\ Counted(r, s).stopping = r.stopping
        /\ Counted(r, s).timeout = r.timeout /\ Counted(r, s).outcome = r.outcome
        /\ Counted(r, s).succeeded = r.succeeded + 1
        /\ Counted(r, s).failed = r.failed /\ Counted(r, s).failures = 0
    BY <2>1 DEF Runs
  <2> QED BY <1>2, <1>4, <2>2, <2>3, <2>4
<1>5. CASE s = "failed"
  <2>1. Counted(r, s) = [r EXCEPT !.failed = r.failed + 1, !.failures = 0]
    BY <1>5 DEF Counted, Runs, Infrastructure
  <2>2. Counted(r, s) \in Runs BY <1>2, <1>3, <2>1
  <2>3. s \in Errors /\ s \notin Infrastructure /\ s \notin {"success", "cancelled"}
    BY <1>5 DEF Errors, Infrastructure
  <2>4. /\ Counted(r, s).circuit = r.circuit /\ Counted(r, s).stopping = r.stopping
        /\ Counted(r, s).timeout = r.timeout /\ Counted(r, s).outcome = r.outcome
        /\ Counted(r, s).failed = r.failed + 1
        /\ Counted(r, s).succeeded = r.succeeded /\ Counted(r, s).failures = 0
    BY <2>1 DEF Runs
  <2> QED BY <1>2, <2>2, <2>3, <2>4
<1>6. CASE s \in Infrastructure
  <2>1. Counted(r, s) = [r EXCEPT !.failed = r.failed + 1, !.failures = r.failures + 1]
    BY <1>6 DEF Counted, Runs, Infrastructure
  <2>2. Counted(r, s) \in Runs BY <1>2, <1>3, <2>1
  <2>3. s \in Errors /\ s \notin {"success", "cancelled"}
    BY <1>6 DEF Errors, Infrastructure
  <2>4. /\ Counted(r, s).circuit = r.circuit /\ Counted(r, s).stopping = r.stopping
        /\ Counted(r, s).timeout = r.timeout /\ Counted(r, s).outcome = r.outcome
        /\ Counted(r, s).failed = r.failed + 1
        /\ Counted(r, s).succeeded = r.succeeded
        /\ Counted(r, s).failures = r.failures + 1
    BY <2>1 DEF Runs
  <2> QED BY <1>2, <1>6, <2>2, <2>3, <2>4
<1> QED BY <1>1, <1>4, <1>5, <1>6 DEF Results, Errors

(* What RecordsFinal does to the counters and the breaker, given the       *)
(* status it settles on.                                                   *)
LEMMA BreakerCounts ==
  ASSUME Typed, Breaker, NEW s \in Results,
         run' = [Counted(run, s) EXCEPT !.circuit = @ \/ Opens(Counted(run, s), s),
                                        !.stopping = @ \/ Opens(Counted(run, s), s)],
         arrived' = IF s = "cancelled" THEN arrived ELSE Append(arrived, s)
  PROVE  /\ run' \in Runs /\ run'.outcome = run.outcome
         /\ run'.succeeded = run.succeeded + (IF s = "success" THEN 1 ELSE 0)
         /\ run'.failed = run.failed + (IF s \in Errors THEN 1 ELSE 0)
         /\ arrived' \in Seq({"success"} \cup Errors)
         /\ Breaker'
<1> DEFINE r == Counted(run, s)
           o == Opens(r, s)
<1>1. run \in Runs /\ arrived \in Seq(Outcomes) BY DEF Typed, Outcomes
<1>2. /\ r \in Runs /\ r.circuit = run.circuit /\ r.outcome = run.outcome
      /\ r.succeeded = run.succeeded + (IF s = "success" THEN 1 ELSE 0)
      /\ r.failed = run.failed + (IF s \in Errors THEN 1 ELSE 0)
      /\ r.failures = IF s = "cancelled" THEN run.failures
                      ELSE IF s \in Infrastructure THEN run.failures + 1 ELSE 0
  BY <1>1, CountedTyped
<1>3. o \in BOOLEAN BY DEF Opens
<1>4. o <=> ~run.circuit /\ s # "cancelled" /\ (s = "auth" \/ r.failures >= Threshold)
  BY <1>2 DEF Opens
<1>5. run' = [r EXCEPT !.circuit = r.circuit \/ o, !.stopping = r.stopping \/ o]
  BY <1>2 DEF Runs
<1> HIDE DEF r, o
<1>6. /\ run' \in Runs /\ run'.circuit = (r.circuit \/ o)
      /\ run'.failures = r.failures /\ run'.succeeded = r.succeeded
      /\ run'.failed = r.failed /\ run'.outcome = r.outcome
  BY <1>2, <1>3, <1>5 DEF Runs
<1>7. run.circuit \in BOOLEAN /\ run'.circuit \in BOOLEAN BY <1>1, <1>6 DEF Runs
<1>8. run.failures = TrailingFailures(arrived) /\ (run.circuit <=> Tripped(arrived))
  BY DEF Breaker, BreakerExact, Tripped
<1>9. CASE s = "cancelled"
  <2>1. arrived' = arrived /\ ~o /\ r.failures = run.failures BY <1>2, <1>4, <1>9
  <2>2. run'.failures = TrailingFailures(arrived') BY <1>6, <1>8, <2>1
  <2>3. run'.circuit <=> Tripped(arrived') BY <1>2, <1>6, <1>7, <1>8, <2>1
  <2> QED BY <1>1, <1>2, <1>6, <2>1, <2>2, <2>3
      DEF Breaker, BreakerExact, Tripped, TrailingFailures, Outcomes, Trips
<1>10. CASE s # "cancelled"
  <2>1. s \in Outcomes /\ arrived' = Append(arrived, s)
    BY <1>10 DEF Results, Outcomes
  <2>2. arrived' \in Seq(Outcomes) /\ arrived' # <<>> /\ arrived'[Len(arrived')] = s
    BY <1>1, <2>1, AppendProperties
  <2>3. run'.failures = TrailingFailures(arrived')
    BY <1>1, <1>2, <1>6, <1>8, <1>10, <2>1, TrailingAppend
  <2>4. Trips(arrived') <=> s = "auth" \/ run'.failures >= Threshold
    BY <2>2, <2>3 DEF Trips
  <2>5. Tripped(arrived') <=> Tripped(arrived) \/ Trips(arrived')
    BY <1>1, <2>1, TrippedAppend
  <2>6. run'.circuit <=> Tripped(arrived')
    BY <1>2, <1>4, <1>6, <1>7, <1>8, <1>10, <2>4, <2>5
  <2> QED BY <1>2, <1>6, <2>2, <2>3, <2>6
      DEF Breaker, BreakerExact, Tripped, TrailingFailures, Outcomes, Trips
<1> QED BY <1>9, <1>10

-----------------------------------------------------------------------------
(* An event is taken out of the queue.                                     *)
Drained ==
  /\ parent.pc = "round" /\ queue' \in Seq(Events)
  /\ UNCHANGED <<resources, parent, pending, active, proc, retries, faults, skipped>>

LEMMA IgnoredKeeps == ASSUME IInv, Drained, IgnoresEvent PROVE IInv'
<1> USE DEF IInv, Shape
<1>1. /\ parent.pc = "round" /\ queue' \in Seq(Events)
      /\ UNCHANGED <<parent, pending, active, handle, doc, run, arrived, skipped, proc,
                     retries, faults, window, proxy, account, email>>
  BY DEF Drained, IgnoresEvent, resources
<1>2. Typed' BY <1>1 DEF Typed
<1>3. /\ Alive' = Alive /\ Named' = Named /\ Launched' = Launched /\ Reserved' = Reserved
      /\ \A S : DocsIn(S)' = DocsIn(S)
  BY <1>1 DEF Alive, Named, Launched, Reserved, DocsIn
<1>4. SlotsKept' BY <1>3, FewerOccupied DEF Occupied
<1>5. Launching' BY <1>1, <1>3 DEF Launching
<1>6. Documents' BY <1>1, <1>3 DEF Documents
<1>7. OldWindowsGone' /\ ResultKnown' BY <1>1 DEF OldWindowsGone, ResultKnown
<1>8. CountsMatch' /\ Breaker' BY <1>1, <1>3, SameCounts
<1> QED BY <1>1, <1>2, <1>4, <1>5, <1>6, <1>7, <1>8, InScheduling DEF Scheduling

LEMMA RecordsWindowKeeps ==
  ASSUME IInv, Drained, NEW w \in active, NEW n \in Nat, RecordsWindow(w, n)
  PROVE  IInv'
<1> USE DEF IInv, Shape
<1>1. /\ parent.pc = "round" /\ queue' \in Seq(Events)
      /\ UNCHANGED <<parent, pending, active, handle, run, arrived, skipped, proc,
                     retries, faults, window, proxy, account, email>>
  BY DEF Drained, RecordsWindow, resources
<1>2. w \in Workers /\ w \in Launched BY DEF Typed, Launched
<1>3. /\ doc' \in [Workers -> Docs]
      /\ \A v \in Workers : /\ doc'[v].status = doc[v].status
                            /\ v # w => doc'[v] = doc[v]
  BY <1>2, WindowTyped DEF RecordsWindow
<1>4. Typed' BY <1>1, <1>3 DEF Typed
<1>5. /\ Alive' = Alive /\ Named' \subseteq Named \cup {w} /\ Launched' = Launched
      /\ Reserved' = Reserved /\ \A S : DocsIn(S)' = DocsIn(S)
  BY <1>1, <1>3 DEF Alive, Named, Launched, Reserved, DocsIn
<1>6. SlotsKept' BY <1>2, <1>5, FewerOccupied DEF Occupied
<1>7. Launching' BY <1>1, <1>2, <1>5 DEF Launching
<1>8. Documents' BY <1>1, <1>3, <1>5 DEF Documents
<1>9. OldWindowsGone' /\ ResultKnown' BY <1>1 DEF OldWindowsGone, ResultKnown
<1>10. CountsMatch' /\ Breaker' BY <1>1, <1>5, SameCounts
<1> QED BY <1>1, <1>4, <1>6, <1>7, <1>8, <1>9, <1>10, InScheduling DEF Scheduling

(* A cancellation sets flags and nothing else.                             *)
LEMMA CancelledTyped ==
  ASSUME Typed, NEW S \in SUBSET Workers
  PROVE  /\ Cancelled(S) \in [Workers -> Handles]
         /\ \A v \in Workers : Cancelled(S)[v].final = handle[v].final
<1>1. \A h \in Handles : /\ [h EXCEPT !.cancel = TRUE] \in Handles
                         /\ [h EXCEPT !.cancel = TRUE].final = h.final
  BY DEF Handles
<1>2. \A v \in Workers : handle[v] \in Handles BY DEF Typed
<1> QED BY <1>1, <1>2 DEF Cancelled

LEMMA RecordsFinalKeeps ==
  ASSUME IInv, Drained, NEW w \in active, NEW k \in Results,
         handle[w].final = "none", RecordsFinal(w, k)
  PROVE  IInv'
<1> USE DEF IInv, Shape
<1> DEFINE s == IF run.circuit /\ k # "success" THEN "cancelled" ELSE k
           f == IF s \in Infrastructure THEN "failed" ELSE s
           others == IF Opens(Counted(run, s), s)
                     THEN {v \in active \ {w} : handle[v].final = "none"} ELSE {}
<1>1. /\ parent.pc = "round" /\ queue' \in Seq(Events)
      /\ UNCHANGED <<parent, pending, active, skipped, proc,
                     retries, faults, window, proxy, account, email>>
  BY DEF Drained, resources
<1>2. /\ doc' = Finished({w}, f)
      /\ handle' = [Cancelled(others) EXCEPT ![w].final = f]
      /\ run' = [Counted(run, s) EXCEPT !.circuit = @ \/ Opens(Counted(run, s), s),
                                        !.stopping = @ \/ Opens(Counted(run, s), s)]
      /\ arrived' = IF s = "cancelled" THEN arrived ELSE Append(arrived, s)
  BY DEF RecordsFinal
<1>3. w \in Workers /\ w \in Launched BY DEF Typed, Launched
<1>4. s \in Results /\ f \in TerminalDoc /\ others \in SUBSET Workers
        /\ (f = "success" <=> s = "success") /\ (f = "failed" <=> s \in Errors)
  BY DEF Typed, Results, Errors, Infrastructure, TerminalDoc
<1> HIDE DEF s, f, others
<1>5. /\ run' \in Runs /\ run'.outcome = run.outcome
      /\ run'.succeeded = run.succeeded + (IF f = "success" THEN 1 ELSE 0)
      /\ run'.failed = run.failed + (IF f = "failed" THEN 1 ELSE 0)
      /\ arrived' \in Seq({"success"} \cup Errors) /\ Breaker'
  BY <1>2, <1>4, BreakerCounts
<1>6. /\ doc' \in [Workers -> Docs]
      /\ \A v \in Workers : /\ doc'[v].dir = doc[v].dir
                            /\ doc'[v].status = IF v = w THEN f ELSE doc[v].status
  BY <1>2, <1>3, <1>4, FinishedOne
<1>7. /\ handle' \in [Workers -> Handles]
      /\ \A v \in Workers : handle'[v].final = IF v = w THEN f ELSE handle[v].final
  <2>1. /\ Cancelled(others) \in [Workers -> Handles]
        /\ \A v \in Workers : Cancelled(others)[v].final = handle[v].final
    BY <1>4, CancelledTyped
  <2>2. \A h \in Handles : [h EXCEPT !.final = f] \in Handles /\ [h EXCEPT !.final = f].final = f
    BY <1>4 DEF Handles
  <2>3. handle' = [Cancelled(others) EXCEPT ![w] = [Cancelled(others)[w] EXCEPT !.final = f]]
    BY <1>2, <1>3, <2>1
  <2>4. Cancelled(others)[w] \in Handles BY <1>3, <2>1
  <2> QED BY <1>3, <2>1, <2>2, <2>3, <2>4
<1>8. Typed' BY <1>1, <1>5, <1>6, <1>7 DEF Typed
<1>9. /\ Alive' = Alive /\ Named' = Named /\ Launched' = Launched /\ Reserved' = Reserved
  BY <1>1, <1>6 DEF Alive, Named, Launched, Reserved
<1>10. SlotsKept' BY <1>9, FewerOccupied DEF Occupied
<1>11. Launching' BY <1>1, <1>5, <1>9 DEF Launching
<1>12. doc[w].status = "running" /\ w \notin pending \cup parent.worker
  BY <1>1, <1>3 DEF Documents, Launching, Scheduling
<1>13. Documents'
  <2>1. f # "none" /\ f # "queued" BY <1>4 DEF TerminalDoc
  <2>2. "none" \notin TerminalDoc BY DEF TerminalDoc
  <2> QED BY <1>1, <1>3, <1>4, <1>5, <1>6, <1>7, <1>9, <1>12, <2>1, <2>2
          DEF Documents, Scheduling, Before
<1>14. OldWindowsGone' /\ ResultKnown' BY <1>1, <1>5 DEF OldWindowsGone, ResultKnown
<1>15. run.outcome = "running" BY <1>1 DEF Launching, Scheduling
<1>16. CountsMatch' BY <1>2, <1>3, <1>4, <1>5, <1>12, <1>15, FinishedCounts
<1> QED BY <1>1, <1>5, <1>8, <1>10, <1>11, <1>13, <1>14, <1>16, InScheduling DEF Scheduling

LEMMA DrainsKeeps == IInv /\ Drains => IInv'
<1> SUFFICES ASSUME IInv, Drains PROVE IInv' OBVIOUS
<1>1. queue \in Seq(Events) /\ queue # <<>> /\ queue' = Tail(queue)
  BY DEF IInv, Typed, Drains
<1>2. Head(queue) \in Events /\ queue' \in Seq(Events) BY <1>1, HeadTailProperties
<1>3. PICK w \in Workers, k \in Results \cup {"dir"}, n \in Nat : Head(queue) = <<w, k, n>>
  <2>1. \A e \in Events : /\ e[1] \in Workers /\ e[2] \in Results \cup {"dir"} /\ e[3] \in Nat
                          /\ e = <<e[1], e[2], e[3]>>
    BY DEF Events
  <2> QED BY <1>2, <2>1
<1>4. Drained BY <1>2 DEF Drains, Drained
<1>5. record_event(w, k, n) BY <1>3 DEF Drains
<1>6. CASE IgnoresEvent BY <1>4, <1>6, IgnoredKeeps
<1>7. CASE w \in active /\ RecordsWindow(w, n) BY <1>4, <1>7, RecordsWindowKeeps
<1>8. CASE w \in active /\ k # "dir" /\ handle[w].final = "none" /\ RecordsFinal(w, k)
  BY <1>4, <1>8, RecordsFinalKeeps
<1> QED BY <1>5, <1>6, <1>7, <1>8 DEF record_event

-----------------------------------------------------------------------------
(* The deadline, a cancellation, the kill.                                 *)

LEMMA StopsKeeps == ASSUME NEW timeout \in BOOLEAN PROVE IInv /\ Stops(timeout) => IInv'
<1> SUFFICES ASSUME IInv, Stops(timeout) PROVE IInv' OBVIOUS
<1> USE DEF IInv, Shape
<1>1. /\ parent.pc = "round" /\ handle' = Cancelled(active)
      /\ run' = [run EXCEPT !.stopping = TRUE, !.timeout = timeout]
      /\ UNCHANGED <<parent, pending, active, doc, arrived, skipped, proc, queue, retries,
                     faults, window, proxy, account, email>>
  BY DEF Stops, resources, Processes
<1>2. /\ run' \in Runs /\ run'.outcome = run.outcome /\ run'.circuit = run.circuit
      /\ run'.failures = run.failures /\ run'.succeeded = run.succeeded
      /\ run'.failed = run.failed
  BY <1>1 DEF Typed, Runs
<1>3. /\ handle' \in [Workers -> Handles]
      /\ \A v \in Workers : handle'[v].final = handle[v].final
  BY <1>1, CancelledTyped DEF Typed
<1>4. Typed' BY <1>1, <1>2, <1>3 DEF Typed
<1>5. /\ Alive' = Alive /\ Named' = Named /\ Launched' = Launched /\ Reserved' = Reserved
      /\ \A S : DocsIn(S)' = DocsIn(S)
  BY <1>1 DEF Alive, Named, Launched, Reserved, DocsIn
<1>6. SlotsKept' BY <1>5, FewerOccupied DEF Occupied
<1>7. Launching' BY <1>1, <1>2, <1>5 DEF Launching
<1>8. Documents' BY <1>1, <1>2, <1>3, <1>5 DEF Documents
<1>9. OldWindowsGone' /\ ResultKnown' BY <1>1, <1>2 DEF OldWindowsGone, ResultKnown
<1>10. CountsMatch' /\ Breaker' BY <1>1, <1>2, <1>5, SameCounts
<1> QED BY <1>1, <1>4, <1>6, <1>7, <1>8, <1>9, <1>10, InScheduling DEF Scheduling

LEMMA KillsKeeps == IInv /\ Kills => IInv'
<1> SUFFICES ASSUME IInv, Kills PROVE IInv' OBVIOUS
<1> USE DEF IInv, Shape
<1>1. /\ parent.pc = "round" /\ proc' = Killed(active)
      /\ UNCHANGED <<parent, pending, active, handle, doc, run, arrived, skipped, queue,
                     retries, faults, window, proxy, account, email>>
  BY DEF Kills, resources, scheduler
<1>2. /\ proc' \in [Workers -> Procs] /\ Alive' = Alive \ active
      /\ \A w \in Workers : proc'[w].stage \in {"closing", "closed"} => proc'[w] = proc[w]
  BY <1>1, KilledTyped DEF Typed
<1>3. Typed' BY <1>1, <1>2 DEF Typed
<1>4. /\ Named' = Named /\ Launched' = Launched /\ Reserved' = Reserved
      /\ \A S : DocsIn(S)' = DocsIn(S)
  BY <1>1 DEF Named, Launched, Reserved, DocsIn
<1>5. SlotsKept' BY <1>2, <1>4, FewerOccupied DEF Occupied
<1>6. Launching' BY <1>1, <1>2, <1>4 DEF Launching
<1>7. Documents' BY <1>1, <1>4 DEF Documents
<1>8. OldWindowsGone' BY <1>1 DEF OldWindowsGone
<1>9. ResultKnown' BY <1>2 DEF ResultKnown
<1>10. CountsMatch' /\ Breaker' BY <1>1, <1>4, SameCounts
<1> QED BY <1>1, <1>3, <1>5, <1>6, <1>7, <1>8, <1>9, <1>10, InScheduling DEF Scheduling

(* A dead worker leaves the run: nothing is left of it, or it is skipped.  *)
LEMMA ReapsKeeps == ASSUME NEW w \in Workers PROVE IInv /\ Reaps(w) => IInv'
<1> SUFFICES ASSUME IInv, Reaps(w) PROVE IInv' OBVIOUS
<1> USE DEF IInv, Shape
<1>1. /\ parent.pc = "round" /\ w \in active /\ w \notin Alive /\ active' = active \ {w}
      /\ cleanup_handle(w)
      /\ UNCHANGED <<parent, pending, handle, arrived, proc, queue, retries>>
  BY DEF Reaps, Processes
<1>2. /\ window' \in SUBSET (Workers \X Nat) /\ window' \subseteq window
      /\ proxy' \subseteq proxy /\ account' = account
      /\ skipped' \in SUBSET Workers /\ skipped \subseteq skipped' /\ faults' \in Nat
      /\ email' \in [Workers -> Addresses] /\ Reserved' \subseteq Reserved
      /\ w \notin skipped' => /\ <<w, doc[w].dir>> \notin window' /\ w \notin proxy'
                              /\ w \notin Reserved'
  BY <1>1, CleanupTyped DEF Reserved
<1>3. /\ parent.worker = {} /\ run.outcome = "running"
      /\ w \notin pending /\ w \in Launched
      /\ Alive \cup Named \subseteq active /\ proxy \subseteq active \cup skipped
      /\ Reserved \subseteq pending \cup active \cup skipped
      /\ pending \cap active = {} /\ parent.todo = {}
  BY <1>1 DEF Launching, Launched, Scheduling
<1>4. run \in Runs /\ run.succeeded \in Nat /\ run.failed \in Nat BY DEF Typed, Runs
<1>5. /\ run' \in Runs /\ run'.outcome = "running" /\ Breaker' /\ CountsMatch'
      /\ doc' \in [Workers -> Docs]
      /\ \A v \in Workers : /\ doc'[v].dir = doc[v].dir
                            /\ v # w => doc'[v].status = doc[v].status
      /\ doc'[w].status \in TerminalDoc
  <2>1. CASE handle[w].final # "none"
    <3>1. doc' = doc /\ run' = run BY <2>1 DEF Reaps
    <3>2. doc[w].status \in TerminalDoc BY <1>1, <2>1 DEF Documents, Scheduling
    <3>3. CountsMatch' /\ Breaker' BY <1>1, <3>1, SameCounts DEF DocsIn
    <3> QED BY <1>3, <1>4, <3>1, <3>2, <3>3 DEF Typed
  <2>2. CASE handle[w].final = "none"
    <3> DEFINE f == IF run.stopping THEN "cancelled" ELSE "failed"
    <3>1. /\ doc' = Finished({w}, f) /\ f \in TerminalDoc
          /\ run' = IF run.stopping THEN run ELSE [run EXCEPT !.failed = @ + 1]
      BY <2>2 DEF Reaps, TerminalDoc
    <3>2. doc[w].status = "running" BY <1>1, <1>3, <2>2 DEF Documents, Scheduling
    <3>3. /\ run' \in Runs /\ run'.outcome = run.outcome /\ run'.circuit = run.circuit
          /\ run'.failures = run.failures
          /\ run'.succeeded = run.succeeded + (IF f = "success" THEN 1 ELSE 0)
          /\ run'.failed = run.failed + (IF f = "failed" THEN 1 ELSE 0)
      <4>1. \A r \in Runs : LET q == [r EXCEPT !.failed = @ + 1] IN
              /\ q \in Runs /\ q.failed = r.failed + 1 /\ q.succeeded = r.succeeded
              /\ q.circuit = r.circuit /\ q.failures = r.failures /\ q.outcome = r.outcome
        BY DEF Runs
      <4>2. CASE run.stopping BY <1>4, <3>1, <4>2
      <4>3. CASE ~run.stopping
        <5>1. run' = [run EXCEPT !.failed = @ + 1] BY <3>1, <4>3
        <5> QED BY <1>4, <4>1, <4>3, <5>1
      <4> QED BY <4>2, <4>3
    <3> HIDE DEF f
    <3>4. /\ doc' \in [Workers -> Docs]
          /\ \A v \in Workers : /\ doc'[v].dir = doc[v].dir
                                /\ doc'[v].status = IF v = w THEN f ELSE doc[v].status
      BY <3>1, FinishedOne
    <3>5. CountsMatch' BY <1>3, <3>1, <3>2, <3>3, FinishedCounts
    <3>6. Breaker'
      BY <1>1, <3>3 DEF Breaker, BreakerExact, TrailingFailures, Trips
    <3> QED BY <1>3, <3>1, <3>3, <3>4, <3>5, <3>6
  <2> QED BY <2>1, <2>2
<1>6. Typed' BY <1>1, <1>2, <1>5 DEF Typed
<1>7. Alive' = Alive /\ Launched' = Launched \ {w} /\ Named' \subseteq Named \ {w}
  BY <1>1, <1>2, <1>3, <1>5 DEF Alive, Launched, Named
<1>8. SlotsKept' BY <1>7, FewerOccupied DEF Occupied
<1>9. Launching'
  BY <1>1, <1>2, <1>3, <1>5, <1>7 DEF Launching, Launched, Scheduling
<1>10. Documents'
  <2>1. "none" \notin TerminalDoc BY DEF TerminalDoc
  <2> QED BY <1>1, <1>3, <1>5, <1>7, <2>1 DEF Documents, Scheduling, Before
<1>11. OldWindowsGone' /\ ResultKnown'
  BY <1>1, <1>2, <1>3, <1>5 DEF OldWindowsGone, ResultKnown
<1> QED BY <1>1, <1>5, <1>6, <1>8, <1>9, <1>10, <1>11, InScheduling DEF Scheduling

-----------------------------------------------------------------------------
(* The end of the run: nothing starts any more, what is left is handed to  *)
(* the cleanup.                                                            *)
LEMMA AfterScheduling ==
  ASSUME parent'.pc \in {"finally", "over", "recover", "quiet"}
  PROVE  NotBegun' /\ Launching'
BY DEF Scheduling, NotBegun, Launching, Before

LEMMA CompletesKeeps == IInv /\ Completes => IInv'
<1> SUFFICES ASSUME IInv, Completes PROVE IInv' OBVIOUS
<1> USE DEF IInv, Shape
<1>1. /\ parent.pc = "round" /\ parent'.pc = "finally" /\ parent' \in Parents
      /\ parent'.worker = parent.worker /\ parent'.todo = parent.todo
  BY SetsTyped DEF Completes, Places
<1>2. /\ run' = [run EXCEPT !.outcome = "completed"] /\ pending = {} /\ active = {}
      /\ UNCHANGED <<pending, active, handle, doc, arrived, skipped, proc, queue, retries,
                     faults, window, proxy, account, email>>
  BY DEF Completes, resources, Processes
<1>3. /\ run' \in Runs /\ run'.outcome = "completed" /\ run'.circuit = run.circuit
      /\ run'.failures = run.failures /\ run'.succeeded = run.succeeded
      /\ run'.failed = run.failed
  BY <1>2, OutcomeTyped DEF Ended
<1>4. Typed' BY <1>1, <1>2, <1>3 DEF Typed
<1>5. /\ Alive' = Alive /\ Named' = Named /\ Launched' = Launched /\ Reserved' = Reserved
      /\ \A S : DocsIn(S)' = DocsIn(S)
  BY <1>1, <1>2 DEF Alive, Named, Launched, Reserved, DocsIn
<1>6. SlotsKept' BY <1>5, FewerOccupied DEF Occupied
<1>7. /\ parent.worker = {} /\ run.outcome = "running" /\ Launched = {}
      /\ Alive = {} /\ Named = {} /\ proxy \subseteq skipped /\ Reserved \subseteq skipped
  BY <1>1, <1>2 DEF Launching, Launched, Scheduling
<1>8. \A w \in Workers : doc[w].status \in TerminalDoc
  BY <1>1, <1>2, <1>7 DEF Documents, Scheduling
<1>9. Open' = {} BY <1>5, <1>8 DEF Open, DocsIn, TerminalDoc
<1>10. Documents'
  BY <1>1, <1>2, <1>8 DEF Documents, Scheduling, TerminalDoc
<1>11. Finishing' BY <1>1, <1>2, <1>3, <1>5, <1>7, <1>9 DEF Finishing, Ended
<1>12. OldWindowsGone' /\ ResultKnown'
  BY <1>1, <1>2, <1>7 DEF OldWindowsGone, ResultKnown
<1>13. NothingLeft' BY <1>1 DEF NothingLeft
<1>14. CountsMatch' /\ Breaker' BY <1>2, <1>3, <1>5, <1>7, SameCounts
<1> QED BY <1>1, <1>4, <1>6, <1>10, <1>11, <1>12, <1>13, <1>14, AfterScheduling

LEMMA SettlesKeeps == IInv /\ Settles => IInv'
<1> SUFFICES ASSUME IInv, Settles PROVE IInv' OBVIOUS
<1> USE DEF IInv, Shape
<1> DEFINE o == IF run.timeout THEN "timeout" ELSE IF run.circuit THEN "circuit" ELSE "cancelled"
<1>1. /\ parent.pc = "round" /\ parent'.pc = "finally" /\ parent' \in Parents
      /\ parent'.worker = parent.worker /\ parent'.todo = parent.todo
  BY SetsTyped DEF Settles, Places
<1>2. /\ run' = [run EXCEPT !.outcome = o] /\ active = {}
      /\ doc' = Finished(pending, "cancelled") /\ email' = Released(Workers)
      /\ UNCHANGED <<pending, active, handle, arrived, skipped, proc, queue, retries,
                     faults, window, proxy, account>>
  BY DEF Settles, Processes
<1>3. o \in {"timeout", "circuit", "cancelled"} OBVIOUS
<1> HIDE DEF o
<1>4. /\ run' \in Runs /\ run'.outcome = o /\ run'.circuit = run.circuit
      /\ run'.failures = run.failures /\ run'.succeeded = run.succeeded
      /\ run'.failed = run.failed
  BY <1>2, <1>3, OutcomeTyped DEF Ended
<1>5. Workers \in SUBSET Workers /\ "cancelled" \in TerminalDoc /\ pending \in SUBSET Workers
  BY DEF TerminalDoc, Typed
<1>6. /\ doc' \in [Workers -> Docs]
      /\ \A v \in Workers : /\ doc'[v].dir = doc[v].dir
                            /\ doc'[v].status = IF v \in pending THEN "cancelled"
                                                ELSE doc[v].status
  BY <1>2, <1>5, FinishedSome
<1>7. email' \in [Workers -> Addresses] /\ Reserved' = {}
  BY <1>2, <1>5, ReleaseTyped DEF Reserved
<1>8. Typed' BY <1>1, <1>2, <1>4, <1>6, <1>7 DEF Typed
<1>9. Alive' = Alive /\ Named' = Named /\ Launched' = Launched
  BY <1>1, <1>2, <1>6 DEF Alive, Named, Launched
<1>10. SlotsKept' BY <1>9, FewerOccupied DEF Occupied
<1>11. /\ parent.worker = {} /\ run.outcome = "running" /\ Launched = {}
       /\ Alive = {} /\ Named = {} /\ proxy \subseteq skipped
  BY <1>1, <1>2 DEF Launching, Launched, Scheduling
<1>12. \A w \in Workers : /\ doc'[w].status \in TerminalDoc
                          /\ w \in pending => doc[w].status = "queued"
  BY <1>1, <1>2, <1>5, <1>6, <1>11 DEF Documents, Scheduling
<1>13. Open' = {} BY <1>12 DEF Open, DocsIn, TerminalDoc
<1>14. Documents'
  BY <1>1, <1>12 DEF Documents, Scheduling, TerminalDoc
<1>15. Finishing' BY <1>1, <1>2, <1>3, <1>4, <1>7, <1>9, <1>11, <1>13 DEF Finishing, Ended
<1>16. OldWindowsGone' /\ ResultKnown'
  BY <1>1, <1>2, <1>11 DEF OldWindowsGone, ResultKnown
<1>17. NothingLeft' BY <1>1 DEF NothingLeft
<1>18. DocsIn({"success"})' = DocsIn({"success"}) /\ DocsIn({"failed"})' = DocsIn({"failed"})
  BY <1>6, <1>12 DEF DocsIn
<1>19. CountsMatch' /\ Breaker' BY <1>2, <1>4, <1>11, <1>18, SameCounts
<1> QED BY <1>1, <1>8, <1>10, <1>14, <1>15, <1>16, <1>17, <1>19, AfterScheduling

LEMMA AbortsKeeps == IInv /\ Aborts => IInv'
<1> SUFFICES ASSUME IInv, Aborts PROVE IInv' OBVIOUS
<1> USE DEF IInv, Shape
<1>1. /\ parent.pc \in Scheduling /\ parent'.pc = "finally" /\ parent' \in Parents
      /\ parent'.worker = {} /\ parent'.todo = active
  BY DEF Aborts, Typed, Parents, Places, Scheduling
<1>2. PICK o \in {"aborted", "offline"} : run' = [run EXCEPT !.outcome = o] BY DEF Aborts
<1>3. /\ skipped' = skipped \cup parent.worker /\ faults' \in Nat
      /\ UNCHANGED <<pending, active, handle, doc, arrived, proc, queue, retries,
                     window, proxy, account, email>>
  BY DEF Aborts, resources, Processes, Fault, Typed
<1>4. /\ run' \in Runs /\ run'.outcome = o /\ run'.circuit = run.circuit
      /\ run'.failures = run.failures /\ run'.succeeded = run.succeeded
      /\ run'.failed = run.failed
  BY <1>2, OutcomeTyped DEF Ended
<1>5. Typed' BY <1>1, <1>3, <1>4 DEF Typed, Parents
<1>6. /\ Alive' = Alive /\ Named' = Named \ parent.worker /\ Launched' = active
      /\ Reserved' = Reserved /\ \A S : DocsIn(S)' = DocsIn(S)
  BY <1>1, <1>3 DEF Alive, Named, Launched, Reserved, DocsIn
<1>7. SlotsKept' BY <1>6, FewerOccupied DEF Occupied, Launched
<1>8. /\ run.outcome = "running" /\ Alive \cup Named \subseteq active \cup parent.worker
      /\ proxy \subseteq active \cup parent.worker \cup skipped
  BY <1>1 DEF Launching, Launched
<1>9. Documents' BY <1>1, <1>3, <1>8 DEF Documents, Scheduling, Before
<1>10. Finishing' BY <1>1, <1>2, <1>3, <1>4, <1>6, <1>8 DEF Finishing, Ended
<1>11. OldWindowsGone' /\ ResultKnown'
  BY <1>1, <1>3, <1>8 DEF OldWindowsGone, ResultKnown, Scheduling
<1>12. NothingLeft' BY <1>1 DEF NothingLeft
<1>13. CountsMatch' /\ Breaker' BY <1>3, <1>4, <1>6, <1>8, SameCounts
<1> QED BY <1>1, <1>5, <1>7, <1>9, <1>10, <1>11, <1>12, <1>13, AfterScheduling

LEMMA FinallyReapsKeeps == ASSUME NEW w \in Workers PROVE IInv /\ FinallyReaps(w) => IInv'
<1> SUFFICES ASSUME IInv, FinallyReaps(w) PROVE IInv' OBVIOUS
<1> USE DEF IInv, Shape
<1>1. /\ parent.pc = "finally" /\ w \in parent.todo /\ parent'.pc = "finally"
      /\ parent' \in Parents /\ parent'.worker = parent.worker
      /\ parent'.todo = parent.todo \ {w}
  BY DEF FinallyReaps, Typed, Parents
<1>2. /\ handle' = Cancelled({w}) /\ proc' = Killed({w}) /\ cleanup_handle(w)
      /\ UNCHANGED <<pending, active, doc, run, arrived, queue, retries>>
  BY DEF FinallyReaps
<1>3. /\ window' \in SUBSET (Workers \X Nat) /\ window' \subseteq window
      /\ proxy' \subseteq proxy /\ account' = account
      /\ skipped' \in SUBSET Workers /\ skipped \subseteq skipped' /\ faults' \in Nat
      /\ email' \in [Workers -> Addresses] /\ Reserved' \subseteq Reserved
      /\ w \notin skipped' => /\ <<w, doc[w].dir>> \notin window' /\ w \notin proxy'
                              /\ w \notin Reserved'
  BY <1>2, CleanupTyped DEF Reserved
<1>4. {w} \in SUBSET Workers OBVIOUS
<1>5. handle' \in [Workers -> Handles] BY <1>2, <1>4, CancelledTyped
<1>6. /\ proc' \in [Workers -> Procs] /\ Alive' = Alive \ {w}
      /\ \A v \in Workers : proc'[v].stage \in {"closing", "closed"} => proc'[v] = proc[v]
  BY <1>2, <1>4, KilledTyped
<1>7. Typed' BY <1>1, <1>2, <1>3, <1>5, <1>6 DEF Typed
<1>8. /\ Named' \subseteq Named \ {w} /\ Launched' = Launched
      /\ \A S : DocsIn(S)' = DocsIn(S)
  BY <1>1, <1>2, <1>3 DEF Named, Launched, DocsIn
<1>9. SlotsKept' BY <1>6, <1>8, FewerOccupied DEF Occupied
<1>10. Documents' BY <1>1, <1>2 DEF Documents, Scheduling, Before
<1>11. Finishing' BY <1>1, <1>2, <1>3, <1>6, <1>8 DEF Finishing, Open
<1>12. OldWindowsGone' BY <1>1, <1>2, <1>3 DEF OldWindowsGone
<1>13. ResultKnown' BY <1>6 DEF ResultKnown
<1>14. NothingLeft' BY <1>1 DEF NothingLeft
<1>15. CountsMatch' /\ Breaker' BY <1>2, <1>8, SameCounts
<1> QED BY <1>1, <1>7, <1>9, <1>10, <1>11, <1>12, <1>13, <1>14, <1>15, AfterScheduling

LEMMA FinallyEndsKeeps == IInv /\ FinallyEnds => IInv'
<1> SUFFICES ASSUME IInv, FinallyEnds PROVE IInv' OBVIOUS
<1> USE DEF IInv, Shape
<1>1. /\ parent.pc = "finally" /\ parent.todo = {} /\ parent'.pc = "over"
      /\ parent' \in Parents /\ parent'.worker = parent.worker
  BY SetsTyped DEF FinallyEnds, Places
<1>2. /\ proc' = Killed(Workers) /\ queue' = <<>>
      /\ UNCHANGED <<pending, active, handle, doc, run, arrived, skipped, retries, faults,
                     window, proxy, account, email>>
  BY DEF FinallyEnds, resources
<1>3. Workers \in SUBSET Workers /\ Alive \subseteq Workers BY DEF Alive
<1>4. /\ proc' \in [Workers -> Procs] /\ Alive' = {}
      /\ \A v \in Workers : proc'[v].stage \in {"closing", "closed"} => proc'[v] = proc[v]
  BY <1>2, <1>3, KilledTyped
<1>5. <<>> \in Seq(Events) OBVIOUS
<1>6. Typed' BY <1>1, <1>2, <1>4, <1>5 DEF Typed
<1>7. /\ Named' = Named /\ Launched' = Launched /\ Reserved' = Reserved
      /\ \A S : DocsIn(S)' = DocsIn(S)
  BY <1>1, <1>2 DEF Named, Launched, Reserved, DocsIn
<1>8. SlotsKept' BY <1>4, <1>7, FewerOccupied DEF Occupied
<1>9. Documents' BY <1>1, <1>2 DEF Documents, Scheduling, Before
<1>10. Finishing' BY <1>1, <1>2, <1>4, <1>7 DEF Finishing, Open
<1>11. OldWindowsGone' BY <1>1, <1>2 DEF OldWindowsGone
<1>12. ResultKnown' BY <1>4 DEF ResultKnown
<1>13. NothingLeft' BY <1>1 DEF NothingLeft
<1>14. CountsMatch' /\ Breaker' BY <1>2, <1>7, SameCounts
<1> QED BY <1>1, <1>6, <1>8, <1>9, <1>10, <1>11, <1>12, <1>13, <1>14, AfterScheduling

-----------------------------------------------------------------------------
(* The run is over: what becomes of its addresses.                         *)

LEMMA EndsKeeps ==
  ASSUME IInv, NEW newEmail, Ends(newEmail), newEmail \in [Workers -> Addresses],
         \A w \in Workers : newEmail[w] = "reserved" => w \in skipped,
         faults' \in Nat
  PROVE  IInv'
<1> USE DEF IInv, Shape
<1>1. /\ parent.pc = "over" /\ parent'.pc = "quiet" /\ parent' \in Parents
      /\ parent'.worker = parent.worker /\ parent'.todo = parent.todo
  BY SetsTyped DEF Ends, Places
<1>2. /\ email' = newEmail
      /\ UNCHANGED <<pending, active, handle, doc, run, arrived, skipped, proc, queue,
                     retries, window, proxy, account>>
  BY DEF Ends, Processes
<1>3. Typed' BY <1>1, <1>2 DEF Typed
<1>4. /\ Alive' = Alive /\ Named' = Named /\ Launched' = Launched
      /\ \A S : DocsIn(S)' = DocsIn(S)
  BY <1>1, <1>2 DEF Alive, Named, Launched, DocsIn
<1>5. SlotsKept' BY <1>4, FewerOccupied DEF Occupied
<1>6. Documents' BY <1>1, <1>2 DEF Documents, Scheduling, Before
<1>7. /\ Alive = {} /\ Named = {} /\ proxy \subseteq skipped /\ parent.worker = {}
      /\ run.outcome \in {"aborted", "offline"} \/ Open = {}
      /\ run.outcome \in Ended
  BY <1>1 DEF Finishing
<1>8. Finishing' BY <1>1, <1>2, <1>4, <1>7 DEF Finishing
<1>9. OldWindowsGone' /\ ResultKnown' BY <1>1, <1>2 DEF OldWindowsGone, ResultKnown
<1>10. NothingLeft'
  <2>1. \A w \in Workers \ skipped : {<<w, 0>>, <<w, doc[w].dir>>} \cap window = {}
    <3>1. run.outcome # "refused" BY <1>7 DEF Ended
    <3>2. \A w \in Workers : <<w, 0>> \notin window BY <1>1, <3>1 DEF OldWindowsGone
    <3> QED BY <1>7, <3>2 DEF Named
  <2>2. {w \in Workers : email'[w] = "reserved"} \cup proxy' \subseteq skipped'
    BY <1>2, <1>7
  <2>3. Alive' = {} /\ Open' = Open BY <1>4, <1>7 DEF Open
  <2> QED BY <1>2, <1>7, <2>1, <2>2, <2>3 DEF NothingLeft, Open
<1>11. CountsMatch' /\ Breaker' BY <1>2, <1>4, SameCounts
<1> QED BY <1>1, <1>3, <1>5, <1>6, <1>8, <1>9, <1>10, <1>11, AfterScheduling

LEMMA RunEndsKeeps == IInv /\ (RunEnds \/ RunEndsOffline) => IInv'
<1>1. Workers \in SUBSET Workers OBVIOUS
<1>2. ASSUME IInv, RunEnds PROVE IInv'
  <2>1. parent.pc = "over" /\ faults' \in Nat
    BY <1>2 DEF RunEnds, Ends, IInv, Typed
  <2>2. run.outcome \in Ended /\ (run.outcome = "completed" => Reserved \subseteq skipped)
    BY <1>2, <2>1 DEF IInv, Shape, Finishing
  <2>3. Typed BY <1>2 DEF IInv
  <2>4. CASE run.outcome = "completed"
    <3>1. Ends(email) BY <1>2, <2>4 DEF RunEnds
    <3>2. email \in [Workers -> Addresses] BY <2>3 DEF Typed
    <3> QED BY <1>2, <2>1, <2>2, <2>4, <3>1, <3>2, EndsKeeps DEF Reserved
  <2>5. CASE run.outcome \in {"cancelled", "offline"}
    <3>1. Ends(Released(Workers)) BY <1>2, <2>5 DEF RunEnds
    <3>2. /\ Released(Workers) \in [Workers -> Addresses]
          /\ \A w \in Workers : Released(Workers)[w] # "reserved"
      BY <1>1, <2>3, ReleaseTyped
    <3> QED BY <1>2, <2>1, <3>1, <3>2, EndsKeeps
  <2>6. CASE run.outcome \in {"timeout", "circuit", "aborted"}
    <3>1. Ends(Reconciled) BY <1>2, <2>6 DEF RunEnds
    <3>2. /\ Reconciled \in [Workers -> Addresses]
          /\ \A w \in Workers : Reconciled[w] # "reserved"
      BY <2>3, ReconcileTyped
    <3> QED BY <1>2, <2>1, <3>1, <3>2, EndsKeeps
  <2> QED BY <2>2, <2>4, <2>5, <2>6 DEF Ended
<1>3. ASSUME IInv, RunEndsOffline PROVE IInv'
  <2>1. Typed /\ faults' \in Nat /\ Ends(Released(Workers))
    BY <1>3 DEF RunEndsOffline, Fault, IInv, Typed
  <2>2. /\ Released(Workers) \in [Workers -> Addresses]
        /\ \A w \in Workers : Released(Workers)[w] # "reserved"
    BY <1>1, <2>1, ReleaseTyped
  <2> QED BY <1>3, <2>1, <2>2, EndsKeeps
<1> QED BY <1>2, <1>3

-----------------------------------------------------------------------------
(* The parent dies, and a new one recovers the run.                        *)

LEMMA ParentDiesKeeps == IInv /\ ParentDies => IInv'
<1> SUFFICES ASSUME IInv, ParentDies PROVE IInv' OBVIOUS
<1> USE DEF IInv, Shape
<1>1. /\ parent.pc \in {"round", "pid", "finally"} /\ parent'.pc = "recover"
      /\ parent' \in Parents /\ parent'.worker = {} /\ parent'.todo = Open
  BY DEF ParentDies, Parents, Places, Open, DocsIn
<1>2. run' = [run EXCEPT !.outcome = "interrupted"] BY DEF ParentDies
<1>3. /\ proc' = Killed(Workers) /\ queue' = <<>> /\ pending' = {} /\ active' = {}
      /\ skipped' = skipped \cup DocsIn(TerminalDoc) /\ faults' \in Nat
      /\ UNCHANGED <<handle, doc, arrived, retries, window, proxy, account, email>>
  BY DEF ParentDies, resources, Fault, Typed
<1>4. /\ run' \in Runs /\ run'.outcome = "interrupted" /\ run'.circuit = run.circuit
      /\ run'.failures = run.failures /\ run'.succeeded = run.succeeded
      /\ run'.failed = run.failed
  BY <1>2, OutcomeTyped
<1>5. Workers \in SUBSET Workers /\ Alive \subseteq Workers BY DEF Alive
<1>6. /\ proc' \in [Workers -> Procs] /\ Alive' = {}
      /\ \A v \in Workers : proc'[v].stage \in {"closing", "closed"} => proc'[v] = proc[v]
  BY <1>3, <1>5, KilledTyped
<1>7. <<>> \in Seq(Events) OBVIOUS
<1>8. Typed' BY <1>1, <1>3, <1>4, <1>6, <1>7 DEF Typed, DocsIn
<1>9. /\ Named' \subseteq Named \cap Workers /\ Named' \cap DocsIn(TerminalDoc) = {}
      /\ Launched' = {} /\ \A S : DocsIn(S)' = DocsIn(S)
  BY <1>1, <1>3 DEF Named, Launched, DocsIn
<1>10. SlotsKept' BY <1>6, <1>9, FewerOccupied DEF Occupied
<1>11. run.outcome # "refused"
  BY <1>1 DEF Launching, Finishing, Scheduling, Ended
<1>12. \A w \in Workers : doc[w].status # "none" BY <1>1, <1>11 DEF Documents, Before
<1>13. Workers = Open \cup DocsIn(TerminalDoc)
  BY <1>12 DEF Open, DocsIn, Typed, Docs, DocStatuses
<1>14. Documents' BY <1>1, <1>3, <1>12 DEF Documents, Scheduling
<1>15. Finishing'
  BY <1>1, <1>3, <1>4, <1>6, <1>9, <1>13 DEF Finishing, Typed
<1>16. OldWindowsGone' BY <1>1, <1>3, <1>11 DEF OldWindowsGone
<1>17. ResultKnown' BY <1>6 DEF ResultKnown
<1>18. NothingLeft' BY <1>1 DEF NothingLeft
<1>19. CountsMatch' /\ Breaker' BY <1>3, <1>4, <1>9, SameCounts
<1> QED BY <1>1, <1>8, <1>10, <1>14, <1>15, <1>16, <1>17, <1>18, <1>19, AfterScheduling

LEMMA RecoversWorkerKeeps ==
  ASSUME NEW w \in Workers PROVE IInv /\ RecoversWorker(w) => IInv'
<1> SUFFICES ASSUME IInv, RecoversWorker(w) PROVE IInv' OBVIOUS
<1> USE DEF IInv, Shape
<1>1. /\ parent.pc = "recover" /\ w \in parent.todo /\ parent'.pc = "recover"
      /\ parent' \in Parents /\ parent'.worker = parent.worker
      /\ parent'.todo = parent.todo \ {w}
  BY DEF RecoversWorker, Typed, Parents
<1>2. /\ window' \subseteq window /\ proxy' \subseteq proxy
      /\ skipped \subseteq skipped' /\ skipped' \subseteq skipped \cup {w} /\ faults' \in Nat
      /\ w \notin skipped' => <<w, doc[w].dir>> \notin window' /\ w \notin proxy'
      /\ UNCHANGED <<pending, active, handle, doc, run, arrived, proc, queue, retries,
                     email, account>>
  BY DEF RecoversWorker, Processes, Fault, Typed
<1>3. Typed' BY <1>1, <1>2 DEF Typed
<1>4. /\ Alive' = Alive /\ Named' \subseteq Named \ {w} /\ Launched' = Launched
      /\ \A S : DocsIn(S)' = DocsIn(S)
  BY <1>1, <1>2 DEF Alive, Named, Launched, DocsIn
<1>5. SlotsKept' BY <1>4, FewerOccupied DEF Occupied
<1>6. Documents' BY <1>1, <1>2 DEF Documents, Scheduling, Before
<1>7. Finishing' BY <1>1, <1>2, <1>4 DEF Finishing
<1>8. OldWindowsGone' /\ ResultKnown' BY <1>1, <1>2 DEF OldWindowsGone, ResultKnown
<1>9. NothingLeft' BY <1>1 DEF NothingLeft
<1>10. CountsMatch' /\ Breaker' BY <1>2, <1>4, SameCounts
<1> QED BY <1>1, <1>3, <1>5, <1>6, <1>7, <1>8, <1>9, <1>10, AfterScheduling

LEMMA RecoverEndsKeeps == IInv /\ RecoverEnds => IInv'
<1> SUFFICES ASSUME IInv, RecoverEnds PROVE IInv' OBVIOUS
<1> USE DEF IInv, Shape
<1>1. /\ parent.pc = "recover" /\ parent.todo = {} /\ parent'.pc = "quiet"
      /\ parent' \in Parents /\ parent'.worker = parent.worker
  BY SetsTyped DEF RecoverEnds, Places
<1>2. /\ doc' = Finished(Open, "failed") /\ email' = Reconciled
      /\ UNCHANGED <<pending, active, handle, run, arrived, skipped, proc, queue, retries,
                     window, proxy, account, faults>>
  BY DEF RecoverEnds, Processes, Open
<1>3. Open \in SUBSET Workers /\ "failed" \in TerminalDoc BY DEF Open, DocsIn, TerminalDoc
<1>4. /\ doc' \in [Workers -> Docs]
      /\ \A v \in Workers : /\ doc'[v].dir = doc[v].dir
                            /\ doc'[v].status = IF v \in Open THEN "failed" ELSE doc[v].status
  BY <1>2, <1>3, FinishedSome
<1>5. email' \in [Workers -> Addresses] /\ Reserved' = {}
  BY <1>2, ReconcileTyped DEF Reserved
<1>6. Typed' BY <1>1, <1>2, <1>4, <1>5 DEF Typed
<1>7. Alive' = Alive /\ Named' = Named /\ Launched' = Launched
  BY <1>1, <1>2, <1>4 DEF Alive, Named, Launched
<1>8. SlotsKept' BY <1>7, FewerOccupied DEF Occupied
<1>9. /\ Alive = {} /\ Named = {} /\ proxy \subseteq skipped /\ parent.worker = {}
      /\ run.outcome = "interrupted"
  BY <1>1 DEF Finishing
<1>10. Open' = {} BY <1>4 DEF Open, DocsIn
<1>11. Documents'
  <2>1. \A w \in Workers : doc[w].status # "none" BY <1>1, <1>9 DEF Documents, Before
  <2>2. \A w \in Workers : doc'[w].status # "none" BY <1>4, <2>1
  <2> QED BY <1>1, <2>2 DEF Documents, Scheduling
<1>12. Finishing' BY <1>1, <1>2, <1>7, <1>9 DEF Finishing
<1>13. OldWindowsGone' /\ ResultKnown'
  BY <1>1, <1>2, <1>9 DEF OldWindowsGone, ResultKnown
<1>14. NothingLeft'
  <2>1. \A w \in Workers \ skipped : {<<w, 0>>, <<w, doc'[w].dir>>} \cap window = {}
    <3>1. \A w \in Workers : <<w, 0>> \notin window BY <1>1, <1>9 DEF OldWindowsGone
    <3> QED BY <1>4, <1>9, <3>1 DEF Named
  <2>2. {w \in Workers : email'[w] = "reserved"} = {} BY <1>5 DEF Reserved
  <2> QED BY <1>2, <1>7, <1>9, <1>10, <2>1, <2>2 DEF NothingLeft, Open
<1>15. Breaker' BY <1>2 DEF Breaker, BreakerExact, TrailingFailures, Trips
<1>16. CountsMatch' BY <1>2, <1>9 DEF CountsMatch
<1> QED BY <1>1, <1>6, <1>8, <1>11, <1>12, <1>13, <1>14, <1>15, <1>16, AfterScheduling

-----------------------------------------------------------------------------
(* Nothing happens: the run is quiet, or the step is not of this module.   *)
LEMMA StutterKeeps == IInv /\ UNCHANGED vars => IInv'
<1> SUFFICES ASSUME IInv, UNCHANGED vars PROVE IInv' OBVIOUS
<1> USE DEF IInv, Shape
<1>1. UNCHANGED <<parent, pending, active, handle, doc, run, arrived, skipped, proc, queue,
                  retries, faults, window, proxy, account, email>>
  BY DEF vars, resources, scheduler
<1>2. Typed' BY <1>1 DEF Typed
<1>3. /\ Alive' = Alive /\ Named' = Named /\ Launched' = Launched /\ Reserved' = Reserved
      /\ \A S : DocsIn(S)' = DocsIn(S)
  BY <1>1 DEF Alive, Named, Launched, Reserved, DocsIn
<1>4. SlotsKept' BY <1>3, FewerOccupied DEF Occupied
<1>5. NotBegun' BY <1>1, <1>3 DEF NotBegun, Occupied
<1>6. Launching' BY <1>1, <1>3 DEF Launching
<1>7. Documents' BY <1>1, <1>3 DEF Documents
<1>8. Finishing' BY <1>1, <1>3 DEF Finishing, Open
<1>9. OldWindowsGone' /\ ResultKnown' BY <1>1 DEF OldWindowsGone, ResultKnown
<1>10. NothingLeft' BY <1>1, <1>3 DEF NothingLeft
<1>11. CountsMatch' /\ Breaker' BY <1>1, <1>3, SameCounts
<1> QED BY <1>2, <1>4, <1>5, <1>6, <1>7, <1>8, <1>9, <1>10, <1>11

LEMMA IInvInit == Init => IInv
<1> SUFFICES ASSUME Init PROVE IInv OBVIOUS
<1>1. Typed BY TypedInit
<1>2. /\ parent.pc = "preflight" /\ parent.worker = {} /\ parent.todo = {}
      /\ run.outcome = "running" /\ ~run.circuit /\ run.failures = 0
      /\ run.succeeded = 0 /\ run.failed = 0
      /\ pending = Workers /\ active = {} /\ proxy = {} /\ queue = <<>> /\ arrived = <<>>
  BY DEF Init, NewRun
<1>3. \A w \in Workers : /\ doc[w].status = "none" /\ doc[w].dir = 0
                         /\ handle[w].final = "none" /\ proc[w].stage = "off"
                         /\ email[w] = "available"
  BY DEF Init, NoHandle, NoProcess
<1>4. /\ Alive = {} /\ Named = {} /\ Launched = {} /\ Reserved = {}
      /\ DocsIn({"success"}) = {} /\ DocsIn({"failed"}) = {}
  BY <1>2, <1>3 DEF Alive, Named, Launched, Reserved, DocsIn
<1>5. Occupied = {} BY <1>4 DEF Occupied
<1>6. Cardinality({}) = 0 BY FS_EmptySet
<1>7. SlotsKept BY <1>5, <1>6, ProbeAssumption DEF SlotsKept
<1>8. NotBegun BY <1>2, <1>3, <1>4, <1>5 DEF NotBegun
<1>9. Launching /\ Documents /\ Finishing /\ OldWindowsGone /\ NothingLeft
  BY <1>2 DEF Launching, Documents, Finishing, OldWindowsGone, NothingLeft, Before, Scheduling
<1>10. ResultKnown BY <1>3 DEF ResultKnown
<1>11. CountsMatch BY <1>2, <1>4, <1>6 DEF CountsMatch
<1>12. Breaker
  <2>1. Len(arrived) = 0 BY <1>2
  <2>2. {i \in 1 .. Len(arrived) : \A j \in i .. Len(arrived) : arrived[j] \in Infrastructure}
          = {}
    BY <2>1
  <2>3. TrailingFailures(arrived) = 0 BY <1>6, <2>2 DEF TrailingFailures
  <2>4. BreakerExact BY <1>2, <2>1 DEF BreakerExact
  <2> QED BY <1>2, <2>3, <2>4 DEF Breaker
<1> QED BY <1>1, <1>7, <1>8, <1>9, <1>10, <1>11, <1>12 DEF IInv, Shape

LEMMA IInvNext == IInv /\ [Next]_vars => IInv'
<1> SUFFICES ASSUME IInv, [Next]_vars PROVE IInv' OBVIOUS
<1>1. CASE Parent
  <2>1. CASE \E w \in Workers : Launches(w) \/ Reaps(w) \/ FinallyReaps(w) \/ RecoversWorker(w)
    BY <2>1, LaunchesKeeps, ReapsKeeps, FinallyReapsKeeps, RecoversWorkerKeeps
  <2>2. CASE Preflights \/ ReservesEmails \/ CreatesWorkers \/ RegistersHandle
    BY <2>2, PreflightsKeeps, ReservesEmailsKeeps, CreatesWorkersKeeps, RegistersHandleKeeps
  <2>3. CASE Drains \/ Completes \/ Settles \/ FinallyEnds \/ RunEnds \/ RecoverEnds
    BY <2>3, DrainsKeeps, CompletesKeeps, SettlesKeeps, FinallyEndsKeeps, RunEndsKeeps,
       RecoverEndsKeeps
  <2> QED BY <1>1, <2>1, <2>2, <2>3 DEF Parent
<1>2. CASE Clock \/ CancelIsSeen
  BY <1>2, StopsKeeps, KillsKeeps DEF Clock, DeadlinePasses, CancelIsSeen
<1>3. CASE PreflightFails \/ PreparationFails \/ Aborts \/ RunEndsOffline \/ ParentDies
  BY <1>3, PreparationFailsKeeps, AbortsKeeps, RunEndsKeeps, ParentDiesKeeps
<1>4. CASE \E w \in Workers : SpawnFails(w) BY <1>4, SpawnFailsKeeps
<1>5. CASE \E w \in Workers : Worker(w) \/ CloseFails(w) \/ PostsTwice(w) \/ Dies(w)
  <2>1. Typed /\ ResultKnown BY DEF IInv, Shape
  <2>2. PICK w \in Workers : Worker(w) \/ CloseFails(w) \/ PostsTwice(w) \/ Dies(w) BY <1>5
  <2>3. Typed' /\ WorkerMoves(w) BY <2>1, <2>2, StepMoves
  <2> QED BY <2>3, WorkerKeeps
<1>6. CASE UNCHANGED vars BY <1>6, StutterKeeps
<1> QED BY <1>1, <1>2, <1>3, <1>4, <1>5, <1>6 DEF Next, Environment, Rests

(* The inductive invariant.                                                *)
THEOREM Invariant == Spec => []IInv
<1> QED BY IInvInit, IInvNext, PTL DEF Spec

-----------------------------------------------------------------------------
(* However many emails a run has, no more than Concurrency of its browsers *)
(* are up at a time, the ones whose processes died and that nobody has     *)
(* closed yet included: a slot is free only once its worker was reaped     *)
(* (execute, the launch window; app/README.md:134).                        *)
THEOREM SlotsAreBounded == Spec => []SlotsBounded
<1>1. IInv => SlotsBounded
  <2> SUFFICES ASSUME IInv PROVE SlotsBounded OBVIOUS
  <2> DEFINE Shown == {w \in Workers : \E n \in 1 .. MaxRetries + 1 :
                         w \notin skipped /\ <<w, n>> \in window /\ doc[w].dir = n}
  <2>1. Shown \subseteq Named
    <3>1. 0 \notin 1 .. MaxRetries + 1 BY ProbeAssumption
    <3> QED BY <3>1 DEF Named
  <2>2. Alive \cup Shown \subseteq Occupied BY <2>1 DEF Occupied
  <2> HIDE DEF Shown
  <2>3. IsFiniteSet(Occupied) /\ Cardinality(Occupied) \in Nat BY OccupiedFinite DEF IInv
  <2>4. /\ Cardinality(Alive \cup Shown) <= Cardinality(Occupied)
        /\ Cardinality(Alive \cup Shown) \in Nat
    BY <2>2, <2>3, FS_Subset, FS_CardinalityType
  <2>5. Cardinality(Alive \cup Shown) <= Concurrency
    BY <2>3, <2>4, ProbeAssumption DEF IInv, SlotsKept
  <2> QED BY <2>5 DEF SlotsBounded, Shown
<1> QED BY Invariant, <1>1, PTL

(* A run that is over holds nothing that its cleanup reached.              *)
THEOREM NothingIsLeft == Spec => []NothingLeft
<1>1. IInv => NothingLeft BY DEF IInv
<1> QED BY Invariant, <1>1, PTL

(* The counters the run reports are those of its workers' documents,       *)
(* whichever of an event, a death and the breaker decided each of them.    *)
THEOREM CountersMatch == Spec => []CountsMatch
<1>1. IInv => CountsMatch BY DEF IInv
<1> QED BY Invariant, <1>1, PTL

(* The breaker is open if and only if an authentication failure, or        *)
(* Threshold infrastructure failures in a row, have been counted.          *)
THEOREM BreakerIsExact == Spec => []BreakerExact
<1>1. IInv => BreakerExact BY DEF IInv, Breaker
<1> QED BY Invariant, <1>1, PTL
==============================================================================
