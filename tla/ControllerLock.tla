--------------------------- MODULE ControllerLock ---------------------------
(***************************************************************************)
(* The lease browser_probe_controller in the collection executor_locks     *)
(* (probe_store.py) and the three programs that take it: a browser probe   *)
(* run of the web service (run_manager.py), the command-line probe         *)
(* (browser_probe.py) and the backfill of account security                 *)
(* (account_mfa.py).                                                       *)
(*                                                                         *)
(* Time passes in ticks. due[h] is the time holder h has left for what it  *)
(* is doing: until its next heartbeat, or until a phase without one should *)
(* be over. Being late is a fault, not an impossibility: an outage, a slow *)
(* call or a slow launch delays a heartbeat.                               *)
(***************************************************************************)
EXTENDS Integers, FiniteSets

CONSTANTS Runs,       \* browser probe runs of the web service
          Probes,     \* runs of the command-line probe
          Backfills,  \* runs of the account security backfill
          Proxies,
          None,
          Lease,      \* the 90 seconds of acquire_probe_lock
          LongLease,  \* the 600 seconds a backfill asks for, never renewed
          Beat,       \* a run's 15 seconds between heartbeats
          ProbeBeat,  \* the command-line probe's 20 seconds
          Prepare,    \* what start_browser_probe may take once it has the lock
          Stop,       \* what the cleanup of a run may take, without heartbeats
          Answer,     \* what one database call may take
          Faults      \* may calls fail, programs be late or die?

Holders == Runs \cup Probes \cup Backfills

ASSUME TimesAssumption ==
  /\ {Lease, LongLease, Beat, ProbeBeat, Prepare, Stop, Answer} \subseteq Nat \ {0}
  /\ Prepare + Beat + Stop < Lease
  /\ Answer + ProbeBeat < Lease

ASSUME HoldersAssumption ==
  /\ Runs \cap Probes = {} /\ Runs \cap Backfills = {} /\ Probes \cap Backfills = {}
  /\ None \notin Holders \cup Proxies
  /\ Faults \in BOOLEAN

VARIABLES lock,       \* the document: its owner and the ticks until leaseUntil
          phase,      \* where each holder is
          due,        \* ticks left for what it is doing
          listed,     \* runs with an active document, or active in self.states
          heart,      \* each probe's _heartbeat_task: none, asleep, at its proxy
          current,    \* current_proxy_id
          asked,      \* the proxy id the heartbeat in flight was issued with
          leased,     \* the proxy the store has leased to the probe
          tried,      \* excluded
          steady      \* not in the code: nothing has gone wrong for the holder

probeVars == <<heart, current, asked, leased, tried>>
vars == <<lock, phase, due, listed, probeVars, steady>>

Phases == {"idle", "starting", "locked", "preparing", "working", "stopping",
           "leaving", "ready", "using", "released", "over", "dead"}

(* Phases in which a holder counts on the lock.                            *)
Counting == {"locked", "preparing", "working", "stopping",
             "ready", "using", "released"}

Unlocked == [owner |-> None, left |-> 0]

Init ==
  /\ lock = Unlocked
  /\ phase = [h \in Holders |-> "idle"]
  /\ due = [h \in Holders |-> 0]
  /\ listed = {}
  /\ heart = [p \in Probes |-> "none"]
  /\ current = [p \in Probes |-> None]
  /\ asked = [p \in Probes |-> None]
  /\ leased = [p \in Probes |-> None]
  /\ tried = [p \in Probes |-> {}]
  /\ steady = [h \in Holders |-> TRUE]

-----------------------------------------------------------------------------
(* The store: each is one operation on the lock's document.                *)

(* A mutant: the filter on leaseUntil is forgotten.                        *)
ClearedAlways == Unlocked

(* delete_many({leaseUntil: {$lte: now}})                                  *)
Cleared == IF lock.left = 0 THEN Unlocked ELSE lock

(* The filter of acquire_probe_lock; an upsert that finds another owner's  *)
(* live document fails on the duplicate key.                               *)
Free(h) == lock.owner \in {None, h} \/ lock.left = 0

Taken(h, length) == [owner |-> h, left |-> length]

(* update_one({owner: h}): no condition on leaseUntil.                     *)
Renewable(h) == lock.owner = h

(* A mutant: the owner is not part of the filter.                          *)
ReleasedByAnyone(h) == Unlocked

(* delete_one({owner: h})                                                  *)
ReleasedBy(h) == IF lock.owner = h THEN Unlocked ELSE lock

(* The callers suppress what a release raises.                             *)
Release(h) == lock' = ReleasedBy(h) \/ (Faults /\ lock' = lock)

Moves(h, p) == phase' = [phase EXCEPT ![h] = p]
Sets(h, n) == due' = [due EXCEPT ![h] = n]

-----------------------------------------------------------------------------
(* A run of the web service. One start at a time holds _start_lock.        *)

StartClears(r) ==
  /\ phase[r] = "idle" /\ listed = {}
  /\ \A q \in Runs : phase[q] \notin {"starting", "locked", "preparing"}
  /\ lock' = Cleared
  /\ Moves(r, "starting")
  /\ UNCHANGED <<due, listed, probeVars, steady>>

StartAcquires(r) ==
  /\ phase[r] = "starting" /\ Free(r)
  /\ lock' = Taken(r, Lease)
  /\ Moves(r, "locked") /\ Sets(r, Prepare)
  /\ UNCHANGED <<listed, probeVars, steady>>

StartRefused(r) ==
  /\ phase[r] = "starting" /\ ~Free(r)
  /\ Moves(r, "over")
  /\ UNCHANGED <<lock, due, listed, probeVars, steady>>

StartCreates(r) ==
  /\ phase[r] = "locked"
  /\ listed' = listed \cup {r}
  /\ Moves(r, "preparing")
  /\ UNCHANGED <<lock, due, probeVars, steady>>

(* A workspace in use, too few addresses, or a call that fails.            *)
StartFails(r) ==
  /\ phase[r] \in {"locked", "preparing"}
  /\ Release(r)
  /\ listed' = listed \ {r}
  /\ Moves(r, "over")
  /\ UNCHANGED <<due, probeVars, steady>>

(* The save of running is outside the try: nothing is released.            *)
StartOrphans(r) ==
  /\ Faults /\ phase[r] = "preparing"
  /\ Moves(r, "dead")
  /\ UNCHANGED <<lock, due, listed, probeVars, steady>>

(* The executor starts: next_controller_heartbeat = monotonic() + 15.      *)
RunExecutes(r) ==
  /\ phase[r] = "preparing"
  /\ Moves(r, "working") /\ Sets(r, Beat)
  /\ UNCHANGED <<lock, listed, probeVars, steady>>

(* A mutant: what the heartbeat returns is not looked at.                  *)
RunBeatsOnly(r) ==
  /\ phase[r] = "working" /\ due[r] = 0
  /\ lock' = IF Renewable(r) THEN Taken(r, Lease) ELSE lock
  /\ Sets(r, Beat)
  /\ UNCHANGED <<phase, listed, probeVars, steady>>

RunBeats(r) ==
  /\ phase[r] = "working" /\ due[r] = 0
  /\ IF Renewable(r)
     THEN /\ lock' = Taken(r, Lease) /\ Sets(r, Beat)
          /\ UNCHANGED phase
     ELSE /\ Moves(r, "stopping") /\ Sets(r, Stop)  \* "lease was lost"
          /\ UNCHANGED lock
  /\ UNCHANGED <<listed, probeVars, steady>>

(* A shutdown cancels the executor, or one of its calls raises: the        *)
(* finally clause ends the processes one after the other.                  *)
RunStops(r) ==
  /\ phase[r] = "working"
  /\ Moves(r, "stopping") /\ Sets(r, Stop)
  /\ UNCHANGED <<lock, listed, probeVars, steady>>

(* No process is left, and the run's status is saved as terminal.          *)
RunFinishes(r) ==
  /\ phase[r] \in {"working", "stopping"}
  /\ listed' = listed \ {r}
  /\ Moves(r, "leaving")
  /\ UNCHANGED <<lock, due, probeVars, steady>>

RunLeaves(r) ==
  /\ phase[r] = "leaving"
  /\ Release(r)
  /\ Moves(r, "over")
  /\ UNCHANGED <<due, listed, probeVars, steady>>

(* The process dies, and the worker processes with it (WindowsChildJob).   *)
ServiceDies ==
  /\ Faults
  /\ phase' = [h \in Holders |->
                 IF h \in Runs /\ phase[h] \notin {"idle", "over"}
                 THEN "dead" ELSE phase[h]]
  /\ UNCHANGED <<lock, due, listed, probeVars, steady>>

(* recover() begins with clear_expired_locks.                              *)
RecoverClears ==
  /\ lock' = Cleared
  /\ UNCHANGED <<phase, due, listed, probeVars, steady>>

(* recover() ends an active run without a task: one that has died, and     *)
(* also one that start_browser_probe is still preparing.                   *)
RecoverReleases(r) ==
  /\ Faults /\ r \in listed /\ phase[r] \in {"dead", "preparing"}
  /\ lock' = ReleasedBy(r)
  /\ listed' = listed \ {r}
  /\ phase' = [phase EXCEPT ![r] = IF @ = "dead" THEN "over" ELSE @]
  /\ steady' = [steady EXCEPT ![r] = FALSE]
  /\ UNCHANGED <<due, probeVars>>

-----------------------------------------------------------------------------
(* The command-line probe: the coroutine run() and its _heartbeat_task.    *)

ProbeAcquires(p) ==
  /\ phase[p] = "idle"
  /\ IF Free(p)
     THEN /\ lock' = Taken(p, Lease)
          /\ Moves(p, "ready") /\ Sets(p, ProbeBeat)
          /\ heart' = [heart EXCEPT ![p] = "asleep"]
     ELSE /\ Moves(p, "over") /\ UNCHANGED <<lock, due, heart>>
  /\ UNCHANGED <<listed, current, asked, leased, tried, steady>>

AcquiresProxy(p, x) ==
  /\ phase[p] = "ready" /\ x \notin tried[p]
  /\ \A q \in Probes : leased[q] # x
  /\ leased' = [leased EXCEPT ![p] = x]
  /\ current' = [current EXCEPT ![p] = x]
  /\ tried' = [tried EXCEPT ![p] = @ \cup {x}]
  /\ Moves(p, "using")
  /\ UNCHANGED <<lock, due, listed, heart, asked, steady>>

(* release_proxy is applied; run() has not gone on yet.                    *)
ReleasesProxy(p) ==
  /\ phase[p] = "using"
  /\ leased' = [leased EXCEPT ![p] = None]
  /\ Moves(p, "released")
  /\ UNCHANGED <<lock, due, listed, heart, current, asked, tried, steady>>

(* current_proxy_id = None; then the next proxy, or the end.               *)
ForgetsProxy(p) ==
  /\ phase[p] = "released"
  /\ current' = [current EXCEPT ![p] = None]
  /\ Moves(p, "ready")
  /\ UNCHANGED <<lock, due, listed, heart, asked, leased, tried, steady>>

(* The heartbeat task after its sleep of 20 seconds. When the lock is not  *)
(* its own any more it returns, and run() does not notice.                 *)
HeartBeats(p) ==
  /\ heart[p] = "asleep" /\ due[p] = 0
  /\ IF ~Renewable(p)
     THEN /\ heart' = [heart EXCEPT ![p] = "none"]
          /\ steady' = [steady EXCEPT ![p] = FALSE]
          /\ UNCHANGED <<lock, due, asked>>
     ELSE /\ lock' = Taken(p, Lease)
          /\ asked' = [asked EXCEPT ![p] = current[p]]
          /\ IF current[p] = None
             THEN Sets(p, ProbeBeat) /\ UNCHANGED heart
             ELSE Sets(p, Answer) /\ heart' = [heart EXCEPT ![p] = "proxy"]
          /\ UNCHANGED steady
  /\ UNCHANGED <<phase, listed, current, leased, tried>>

(* heartbeat_proxy, with the id read when it was issued; the task returns  *)
(* when it matches nothing.                                                *)
HeartRenewsProxy(p) ==
  /\ heart[p] = "proxy"
  /\ IF leased[p] = asked[p]
     THEN /\ heart' = [heart EXCEPT ![p] = "asleep"]
          /\ Sets(p, ProbeBeat) /\ UNCHANGED steady
     ELSE /\ heart' = [heart EXCEPT ![p] = "none"]
          /\ steady' = [steady EXCEPT ![p] = FALSE] /\ UNCHANGED due
  /\ asked' = [asked EXCEPT ![p] = None]
  /\ UNCHANGED <<lock, phase, listed, current, leased, tried>>

(* A call of the task raises; nobody awaits the task before the end.       *)
HeartFails(p) ==
  /\ Faults /\ heart[p] # "none"
  /\ heart' = [heart EXCEPT ![p] = "none"]
  /\ steady' = [steady EXCEPT ![p] = FALSE]
  /\ asked' = [asked EXCEPT ![p] = None]
  /\ UNCHANGED <<lock, phase, due, listed, current, leased, tried>>

(* A mutant: the heartbeat task is not cancelled.                          *)
ProbeEndsWithoutCancel(p) ==
  /\ phase[p] = "ready" \/ (Faults /\ phase[p] \in {"using", "released"})
  /\ Release(p)
  /\ Moves(p, "over")
  /\ UNCHANGED <<heart, asked, due, listed, current, leased, tried, steady>>

(* The finally clause of run(): the task is cancelled, the lock released.  *)
(* A failure can lead here with the proxy still leased.                    *)
ProbeEnds(p) ==
  /\ phase[p] = "ready" \/ (Faults /\ phase[p] \in {"using", "released"})
  /\ Release(p)
  /\ heart' = [heart EXCEPT ![p] = "none"]
  /\ asked' = [asked EXCEPT ![p] = None]
  /\ Moves(p, "over")
  /\ UNCHANGED <<due, listed, current, leased, tried, steady>>

ProbeDies(p) ==
  /\ Faults /\ phase[p] \in {"ready", "using", "released"}
  /\ heart' = [heart EXCEPT ![p] = "none"]
  /\ asked' = [asked EXCEPT ![p] = None]
  /\ Moves(p, "dead")
  /\ UNCHANGED <<lock, due, listed, current, leased, tried, steady>>

-----------------------------------------------------------------------------
(* The backfill of one account: a long lease and no heartbeat.             *)

BackfillAcquires(b) ==
  /\ phase[b] = "idle"
  /\ IF Free(b)
     THEN /\ lock' = Taken(b, LongLease)
          /\ Moves(b, "working") /\ Sets(b, LongLease - 1)
     ELSE Moves(b, "over") /\ UNCHANGED <<lock, due>>
  /\ UNCHANGED <<listed, probeVars, steady>>

BackfillEnds(b) ==
  /\ phase[b] = "working"
  /\ Release(b)
  /\ Moves(b, "over")
  /\ UNCHANGED <<due, listed, probeVars, steady>>

BackfillDies(b) ==
  /\ Faults /\ phase[b] = "working"
  /\ Moves(b, "dead")
  /\ UNCHANGED <<lock, due, listed, probeVars, steady>>

-----------------------------------------------------------------------------
(* Who has something to do in time: a probe, as long as its task lives.    *)
Timed(h) == IF h \in Probes THEN heart[h] # "none" ELSE phase[h] \in Counting

Down(n) == IF n = 0 THEN 0 ELSE n - 1

(* Without faults nobody is late.                                          *)
Tick ==
  /\ Faults \/ \A h \in Holders : Timed(h) => due[h] > 0
  /\ lock' = [lock EXCEPT !.left = Down(@)]
  /\ due' = [h \in Holders |-> IF Timed(h) THEN Down(due[h]) ELSE 0]
  /\ steady' = [h \in Holders |-> steady[h] /\ ~(Timed(h) /\ due[h] = 0)]
  /\ UNCHANGED <<phase, listed, probeVars>>

RunSteps(r) ==
  \/ StartClears(r) \/ StartAcquires(r) \/ StartRefused(r) \/ StartCreates(r)
  \/ StartFails(r) \/ StartOrphans(r) \/ RunExecutes(r) \/ RunBeats(r)
  \/ RunStops(r) \/ RunFinishes(r) \/ RunLeaves(r) \/ RecoverReleases(r)

ProbeSteps(p) ==
  \/ ProbeAcquires(p) \/ \E x \in Proxies : AcquiresProxy(p, x)
  \/ ReleasesProxy(p) \/ ForgetsProxy(p) \/ HeartBeats(p) \/ HeartRenewsProxy(p)
  \/ HeartFails(p) \/ ProbeEnds(p) \/ ProbeDies(p)

BackfillSteps(b) == BackfillAcquires(b) \/ BackfillEnds(b) \/ BackfillDies(b)

Next ==
  \/ \E r \in Runs : RunSteps(r)
  \/ \E p \in Probes : ProbeSteps(p)
  \/ \E b \in Backfills : BackfillSteps(b)
  \/ ServiceDies \/ RecoverClears \/ Tick

Spec == Init /\ [][Next]_vars

(* Time passes, a due heartbeat of a run is made in the end, and the       *)
(* cleanup of a run ends: each process is terminated and joined.           *)
Fairness ==
  /\ WF_vars(Tick)
  /\ \A r \in Runs : WF_vars(RunBeats(r)) /\ WF_vars(phase[r] = "stopping" /\ RunFinishes(r))

FairSpec == Spec /\ Fairness

-----------------------------------------------------------------------------
Locks == [owner : Holders \cup {None}, left : 0..(Lease + LongLease)]

(* Every variable keeps its type; a lock without an owner has no lease.    *)
TypeOK ==
  /\ lock \in Locks
  /\ phase \in [Holders -> Phases]
  /\ due \in [Holders -> Nat]
  /\ listed \subseteq Runs
  /\ heart \in [Probes -> {"none", "asleep", "proxy"}]
  /\ current \in [Probes -> Proxies \cup {None}]
  /\ asked \in [Probes -> Proxies \cup {None}]
  /\ leased \in [Probes -> Proxies \cup {None}]
  /\ tried \in [Probes -> SUBSET Proxies]
  /\ steady \in [Holders -> BOOLEAN]

(* A holder that has been on time, and that no recovery took for stale,    *)
(* has the lock, with a lease that has not run out, whatever the others    *)
(* do: late heartbeats, expired locks that are cleared, second releases.   *)
SteadyHolds ==
  \A h \in Holders : steady[h] /\ phase[h] \in Counting =>
    lock.owner = h /\ lock.left > 0

(* A lease that has not run out leaves its owner only when the owner gives *)
(* it back or, the owner being a run without a task, when recovery does.   *)
LeaseChangesHands ==
  [][ \A h \in Holders :
        lock.owner = h /\ lock.left > 0 /\ lock'.owner # h =>
          /\ lock'.owner = None
          /\ phase'[h] = "over" \/ (h \in Runs /\ phase[h] = "preparing") ]_vars

(* Liveness: a run that works without the lock stops.                      *)
LosersStop ==
  \A r \in Runs : (phase[r] = "working" /\ lock.owner # r) ~> phase[r] # "working"

(* Liveness: the lock of a holder that has ended without giving it back    *)
(* can be taken by another.                                                *)
EndedIsFreed ==
  \A h \in Holders :
    (lock.owner = h /\ phase[h] \in {"over", "dead"}) ~> (lock.owner # h \/ lock.left = 0)

=============================================================================
