------------------------ MODULE ControllerLockProofs ------------------------
(***************************************************************************)
(* For all sets of runs, probes, backfills and proxies and all times that  *)
(* satisfy TimesAssumption: the variables keep their types, a lease that   *)
(* runs is fenced, and a holder that is on time has the lock.              *)
(***************************************************************************)
EXTENDS ControllerLock, TLAPS

USE HoldersAssumption DEF Holders

(* Each kind of holder goes through its own phases.                        *)
RunPhases == {"idle", "starting", "locked", "preparing", "working", "stopping",
              "leaving", "over", "dead"}
ProbePhases == {"idle", "ready", "using", "released", "over", "dead"}
BackfillPhases == {"idle", "working", "over", "dead"}

Kinds ==
  /\ \A r \in Runs : phase[r] \in RunPhases
  /\ \A p \in Probes : phase[p] \in ProbePhases
  /\ \A b \in Backfills : phase[b] \in BackfillPhases

LEMMA TypeInit == Init => TypeOK
BY TimesAssumption DEF Init, TypeOK, Phases, Locks, Unlocked

(* What the operators of the store return, and what they read.             *)
LEMMA StoreTypes ==
  ASSUME TypeOK
  PROVE  /\ Cleared \in Locks
         /\ \A h \in Holders : ReleasedBy(h) \in Locks
         /\ \A h \in Holders : Taken(h, Lease) \in Locks /\ Taken(h, LongLease) \in Locks
BY TimesAssumption DEF TypeOK, Locks, Cleared, Unlocked, ReleasedBy, Taken

LEMMA RunTypes ==
  ASSUME TypeOK, NEW r \in Runs, RunSteps(r) PROVE TypeOK'
<1> USE DEF TypeOK, Phases, probeVars, Moves, Sets
<1>1. CASE StartClears(r) BY <1>1, StoreTypes DEF StartClears
<1>2. CASE StartAcquires(r) BY <1>2, StoreTypes, TimesAssumption DEF StartAcquires
<1>3. CASE StartRefused(r) BY <1>3 DEF StartRefused
<1>4. CASE StartCreates(r) BY <1>4 DEF StartCreates
<1>5. CASE StartFails(r) BY <1>5, StoreTypes DEF StartFails, Release
<1>6. CASE StartOrphans(r) BY <1>6 DEF StartOrphans
<1>7. CASE RunExecutes(r) BY <1>7, TimesAssumption DEF RunExecutes
<1>8. CASE RunBeats(r) BY <1>8, StoreTypes, TimesAssumption DEF RunBeats
<1>9. CASE RunStops(r) BY <1>9, TimesAssumption DEF RunStops
<1>10. CASE RunFinishes(r) BY <1>10 DEF RunFinishes
<1>11. CASE RunLeaves(r) BY <1>11, StoreTypes DEF RunLeaves, Release
<1>12. CASE RecoverReleases(r) BY <1>12, StoreTypes DEF RecoverReleases
<1> QED BY <1>1, <1>2, <1>3, <1>4, <1>5, <1>6, <1>7, <1>8, <1>9, <1>10,
           <1>11, <1>12 DEF RunSteps

LEMMA ProbeTypes ==
  ASSUME TypeOK, NEW p \in Probes, ProbeSteps(p) PROVE TypeOK'
<1> USE DEF TypeOK, Phases, probeVars, Moves, Sets
<1>1. CASE ProbeAcquires(p) BY <1>1, StoreTypes, TimesAssumption DEF ProbeAcquires
<1>2. ASSUME NEW x \in Proxies, AcquiresProxy(p, x) PROVE TypeOK'
  BY <1>2 DEF AcquiresProxy
<1>3. CASE ReleasesProxy(p) BY <1>3 DEF ReleasesProxy
<1>4. CASE ForgetsProxy(p) BY <1>4 DEF ForgetsProxy
<1>5. CASE HeartBeats(p)
  <2>1. CASE ~Renewable(p) BY <1>5, <2>1 DEF HeartBeats
  <2>2. CASE Renewable(p) /\ current[p] = None
    BY <1>5, <2>2, StoreTypes, TimesAssumption DEF HeartBeats
  <2>3. CASE Renewable(p) /\ current[p] # None
    BY <1>5, <2>3, StoreTypes, TimesAssumption DEF HeartBeats
  <2> QED BY <2>1, <2>2, <2>3
<1>6. CASE HeartRenewsProxy(p)
  <2>1. CASE leased[p] = asked[p] BY <1>6, <2>1, TimesAssumption DEF HeartRenewsProxy
  <2>2. CASE leased[p] # asked[p] BY <1>6, <2>2 DEF HeartRenewsProxy
  <2> QED BY <2>1, <2>2
<1>7. CASE HeartFails(p) BY <1>7 DEF HeartFails
<1>8. CASE ProbeEnds(p) BY <1>8, StoreTypes DEF ProbeEnds, Release
<1>9. CASE ProbeDies(p) BY <1>9 DEF ProbeDies
<1> QED BY <1>1, <1>2, <1>3, <1>4, <1>5, <1>6, <1>7, <1>8, <1>9 DEF ProbeSteps

LEMMA OtherTypes ==
  ASSUME TypeOK,
         (\E b \in Backfills : BackfillSteps(b)) \/ ServiceDies \/ RecoverClears \/ Tick
  PROVE  TypeOK'
<1> USE DEF TypeOK, Phases, probeVars, Moves, Sets
<1>1. ASSUME NEW b \in Backfills, BackfillAcquires(b) PROVE TypeOK'
  BY <1>1, StoreTypes, TimesAssumption DEF BackfillAcquires
<1>2. ASSUME NEW b \in Backfills, BackfillEnds(b) PROVE TypeOK'
  BY <1>2, StoreTypes DEF BackfillEnds, Release
<1>3. ASSUME NEW b \in Backfills, BackfillDies(b) PROVE TypeOK'
  BY <1>3 DEF BackfillDies
<1>4. CASE ServiceDies BY <1>4 DEF ServiceDies
<1>5. CASE RecoverClears BY <1>5, StoreTypes DEF RecoverClears
<1>6. CASE Tick BY <1>6, TimesAssumption DEF Tick, Down, Locks
<1> QED BY <1>1, <1>2, <1>3, <1>4, <1>5, <1>6 DEF BackfillSteps

LEMMA TypeNext == TypeOK /\ [Next]_vars => TypeOK'
<1>1. ASSUME TypeOK, UNCHANGED vars PROVE TypeOK'
  BY <1>1 DEF TypeOK, vars, probeVars
<1> QED BY <1>1, RunTypes, ProbeTypes, OtherTypes DEF Next

(* Spec => []TypeOK: every variable of the lock model keeps its type.      *)
THEOREM LockTypeCorrectness == Spec => []TypeOK
BY TypeInit, TypeNext, PTL DEF Spec

-----------------------------------------------------------------------------
(* Fencing. The only operations that take a lock away from its owner while *)
(* the lease runs are releases with the owner's name.                      *)

Fenced ==
  \A h \in Holders :
    lock.owner = h /\ lock.left > 0 /\ lock'.owner # h =>
      /\ lock'.owner = None
      /\ phase'[h] = "over" \/ (h \in Runs /\ phase[h] = "preparing")

LEMMA StoreFenced ==
  ASSUME TypeOK, NEW h \in Holders, lock.owner = h, lock.left > 0
  PROVE  /\ Cleared = lock
         /\ \A g \in Holders, n \in Nat : Free(g) => Taken(g, n).owner = h
         /\ \A g \in Holders, n \in Nat : Renewable(g) => Taken(g, n).owner = h
         /\ \A g \in Holders : ReleasedBy(g).owner # h => g = h /\ ReleasedBy(g).owner = None
BY DEF TypeOK, Locks, Cleared, Free, Taken, Renewable, ReleasedBy, Unlocked

LEMMA FencedNext ==
  ASSUME TypeOK, [Next]_vars PROVE Fenced
<1> SUFFICES ASSUME NEW h \in Holders, lock.owner = h, lock.left > 0, lock'.owner # h
             PROVE  /\ lock'.owner = None
                    /\ phase'[h] = "over" \/ (h \in Runs /\ phase[h] = "preparing")
  BY DEF Fenced
<1>0. lock' # lock OBVIOUS
<1>1. ASSUME NEW g \in Holders, Release(g), phase' = [phase EXCEPT ![g] = "over"]
      PROVE  lock'.owner = None /\ phase'[h] = "over"
  BY <1>0, <1>1, StoreFenced DEF Release, TypeOK
<1>2. ASSUME NEW r \in Runs, RunSteps(r)
      PROVE  lock'.owner = None /\ (phase'[h] = "over" \/ (h \in Runs /\ phase[h] = "preparing"))
  <2>1. CASE StartFails(r) \/ RunLeaves(r)
    BY <1>1, <2>1 DEF StartFails, RunLeaves, Moves
  <2>2. CASE RecoverReleases(r)
    BY <2>2, <1>0, StoreFenced DEF RecoverReleases, TypeOK
  <2>3. CASE StartClears(r) \/ StartAcquires(r) \/ RunBeats(r)
    BY <2>3, <1>0, StoreFenced, TimesAssumption DEF StartClears, StartAcquires, RunBeats
  <2>4. lock' = lock \/ StartFails(r) \/ RunLeaves(r) \/ RecoverReleases(r)
          \/ StartClears(r) \/ StartAcquires(r) \/ RunBeats(r)
    BY <1>2 DEF RunSteps, StartRefused, StartCreates, StartOrphans, RunExecutes,
                RunStops, RunFinishes
  <2> QED BY <1>0, <2>1, <2>2, <2>3, <2>4
<1>3. ASSUME NEW p \in Probes, ProbeSteps(p) PROVE lock'.owner = None /\ phase'[h] = "over"
  <2>1. CASE ProbeEnds(p) BY <1>1, <2>1 DEF ProbeEnds, Moves
  <2>2. CASE ProbeAcquires(p) \/ HeartBeats(p)
    BY <2>2, <1>0, StoreFenced, TimesAssumption DEF ProbeAcquires, HeartBeats
  <2>3. lock' = lock \/ ProbeEnds(p) \/ ProbeAcquires(p) \/ HeartBeats(p)
    BY <1>3 DEF ProbeSteps, AcquiresProxy, ReleasesProxy, ForgetsProxy,
                HeartRenewsProxy, HeartFails, ProbeDies
  <2> QED BY <1>0, <2>1, <2>2, <2>3
<1>4. ASSUME NEW b \in Backfills, BackfillSteps(b) PROVE lock'.owner = None /\ phase'[h] = "over"
  <2>1. CASE BackfillEnds(b) BY <1>1, <2>1 DEF BackfillEnds, Moves
  <2>2. CASE BackfillAcquires(b)
    BY <2>2, <1>0, StoreFenced, TimesAssumption DEF BackfillAcquires
  <2>3. CASE BackfillDies(b) BY <2>3, <1>0 DEF BackfillDies
  <2> QED BY <1>4, <2>1, <2>2, <2>3 DEF BackfillSteps
<1>5. ~ServiceDies /\ ~UNCHANGED vars BY <1>0 DEF ServiceDies, vars
<1>6. ~RecoverClears BY <1>0, StoreFenced DEF RecoverClears
<1>7. ~Tick BY DEF Tick, TypeOK, Locks
<1> QED BY <1>2, <1>3, <1>4, <1>5, <1>6, <1>7 DEF Next

(* Spec => LeaseChangesHands: late heartbeats, second releases and the     *)
(* clearing of expired locks never touch a lease that runs.                *)
THEOREM LeaseIsFenced == Spec => LeaseChangesHands
<1>1. TypeOK /\ [Next]_vars => [Fenced]_vars BY FencedNext
<1>2. [][Fenced]_vars => LeaseChangesHands BY PTL DEF LeaseChangesHands, Fenced
<1> QED BY <1>1, <1>2, LockTypeCorrectness, PTL DEF Spec

-----------------------------------------------------------------------------
(* A holder that is on time has the lock. The strengthening says by how    *)
(* much its lease outlasts what it is doing and what it may do before it   *)
(* renews the lease again.                                                 *)

Reserve(h) ==
  IF h \in Probes THEN IF heart[h] = "proxy" THEN ProbeBeat ELSE 0
  ELSE IF phase[h] \in {"locked", "preparing"} THEN Beat + Stop
  ELSE IF h \in Runs /\ phase[h] = "working" THEN Stop
  ELSE 0

Outlasts(h) ==
  steady[h] /\ phase[h] \in Counting =>
    lock.owner = h /\ lock.left > due[h] + Reserve(h)

(* The heartbeat task lives as long as a probe is steady and at work.      *)
HeartAlive ==
  \A p \in Probes : steady[p] /\ phase[p] \in Counting => heart[p] # "none"

LeaseInv == TypeOK /\ Kinds /\ HeartAlive /\ \A h \in Holders : Outlasts(h)

LEMMA LeaseInvInit == Init => LeaseInv
BY TypeInit DEF Init, LeaseInv, Kinds, HeartAlive, Outlasts, Counting,
                RunPhases, ProbePhases, BackfillPhases

LEMMA InvImpliesHolds == LeaseInv => SteadyHolds
<1> SUFFICES ASSUME LeaseInv, NEW h \in Holders, steady[h], phase[h] \in Counting
             PROVE  lock.owner = h /\ lock.left > 0
  BY DEF SteadyHolds
<1>1. lock.left \in Nat /\ due[h] \in Nat BY DEF LeaseInv, TypeOK, Locks
<1>2. Reserve(h) \in Nat BY TimesAssumption DEF Reserve
<1> QED BY <1>1, <1>2 DEF LeaseInv, Outlasts

(* A step of holder g that renews, keeps or takes a free lock, or gives    *)
(* back its own, disturbs no other holder.                                 *)
LEMMA OthersKeep ==
  ASSUME LeaseInv, NEW g \in Holders, NEW h \in Holders, h # g,
         \/ lock' = lock
         \/ Free(g) /\ lock'.owner = g
         \/ lock' = ReleasedBy(g)
         \/ lock' = Cleared,
         phase'[h] = phase[h], due'[h] = due[h], steady'[h] = steady[h],
         h \in Probes => heart'[h] = heart[h]
  PROVE  Outlasts(h)'
<1>1. lock.left \in Nat /\ due[h] \in Nat /\ lock.owner \in Holders \cup {None}
  BY DEF LeaseInv, TypeOK, Locks
<1>2. Reserve(h) \in Nat /\ Reserve(h)' = Reserve(h) BY TimesAssumption DEF Reserve
<1>3. ASSUME steady[h], phase[h] \in Counting
      PROVE  lock'.owner = h /\ lock'.left > due[h] + Reserve(h)
  <2>1. lock.owner = h /\ lock.left > due[h] + Reserve(h) BY <1>3 DEF LeaseInv, Outlasts
  <2>2. ~Free(g) BY <1>1, <1>2, <2>1 DEF Free
  <2>3. Cleared = lock BY <1>1, <1>2, <2>1 DEF Cleared
  <2>4. ReleasedBy(g) = lock BY <2>1 DEF ReleasedBy
  <2> QED BY <2>1, <2>2, <2>3, <2>4
<1> QED BY <1>2, <1>3 DEF Outlasts

LEMMA RunOutlasts ==
  ASSUME LeaseInv, NEW r \in Runs, RunSteps(r)
  PROVE  Kinds' /\ HeartAlive' /\ \A h \in Holders : Outlasts(h)'
<1> USE DEF LeaseInv, TypeOK, Moves, Sets, probeVars
<1>1. Kinds'
  BY DEF Kinds, RunPhases, ProbePhases, BackfillPhases, RunSteps, StartClears,
     StartAcquires, StartRefused, StartCreates, StartFails, StartOrphans, RunExecutes,
     RunBeats, RunStops, RunFinishes, RunLeaves, RecoverReleases
<1>2. \A h \in Holders \ {r} :
        phase'[h] = phase[h] /\ due'[h] = due[h] /\ steady'[h] = steady[h]
  BY DEF RunSteps, StartClears,
     StartAcquires, StartRefused, StartCreates, StartFails, StartOrphans, RunExecutes,
     RunBeats, RunStops, RunFinishes, RunLeaves, RecoverReleases
<1>3. heart' = heart
  BY DEF RunSteps, StartClears,
     StartAcquires, StartRefused, StartCreates, StartFails, StartOrphans, RunExecutes,
     RunBeats, RunStops, RunFinishes, RunLeaves, RecoverReleases
<1>4. HeartAlive' BY <1>2, <1>3 DEF HeartAlive
<1>5. \/ lock' = lock
      \/ Free(r) /\ lock'.owner = r
      \/ lock' = ReleasedBy(r)
      \/ lock' = Cleared
  BY DEF RunSteps, StartClears, Taken, Renewable, Free, Release,
     StartAcquires, StartRefused, StartCreates, StartFails, StartOrphans, RunExecutes,
     RunBeats, RunStops, RunFinishes, RunLeaves, RecoverReleases
<1>6. \A h \in Holders \ {r} : Outlasts(h)' BY <1>2, <1>3, <1>5, OthersKeep
<1>7. Outlasts(r)'
  <2> USE DEF Outlasts, Reserve, Counting, Locks
  <2>1. r \notin Probes OBVIOUS
  <2>2. CASE StartAcquires(r)
    BY <2>1, <2>2, TimesAssumption DEF StartAcquires, Taken
  <2>3. CASE StartCreates(r) BY <2>1, <2>3 DEF StartCreates
  <2>4. CASE RunExecutes(r) BY <2>1, <2>4, TimesAssumption DEF RunExecutes
  <2>5. CASE RunBeats(r)
    <3>1. CASE Renewable(r)
      BY <2>1, <2>5, <3>1, TimesAssumption DEF RunBeats, Taken
    <3>2. CASE ~Renewable(r)
      BY <2>1, <2>5, <3>2, TimesAssumption DEF RunBeats, Renewable
    <3> QED BY <3>1, <3>2
  <2>6. CASE RunStops(r) BY <2>1, <2>6, TimesAssumption DEF RunStops
  <2>7. CASE RecoverReleases(r) BY <2>7 DEF RecoverReleases
  <2>8. CASE \/ StartClears(r) \/ StartRefused(r) \/ StartFails(r) \/ StartOrphans(r)
             \/ RunFinishes(r) \/ RunLeaves(r)
    BY <2>8 DEF StartClears, StartRefused, StartFails, StartOrphans, RunFinishes, RunLeaves
  <2> QED BY <2>2, <2>3, <2>4, <2>5, <2>6, <2>7, <2>8 DEF RunSteps
<1> QED BY <1>1, <1>4, <1>6, <1>7

LEMMA ProbeOutlasts ==
  ASSUME LeaseInv, NEW p \in Probes, ProbeSteps(p)
  PROVE  Kinds' /\ HeartAlive' /\ \A h \in Holders : Outlasts(h)'
<1> USE DEF LeaseInv, TypeOK, Moves, Sets, probeVars
<1>1. Kinds'
  BY DEF Kinds, RunPhases, ProbePhases, BackfillPhases, ProbeSteps, ProbeAcquires,
     AcquiresProxy, ReleasesProxy, ForgetsProxy, HeartBeats, HeartRenewsProxy, HeartFails,
     ProbeEnds, ProbeDies
<1>2. \A h \in Holders \ {p} :
        /\ phase'[h] = phase[h] /\ due'[h] = due[h] /\ steady'[h] = steady[h]
        /\ h \in Probes => heart'[h] = heart[h]
  BY DEF ProbeSteps, ProbeAcquires, AcquiresProxy, ReleasesProxy, ForgetsProxy,
     HeartBeats, HeartRenewsProxy, HeartFails, ProbeEnds, ProbeDies
<1>3. \/ lock' = lock
      \/ Free(p) /\ lock'.owner = p
      \/ lock' = ReleasedBy(p)
      \/ lock' = Cleared
  BY DEF ProbeSteps, Taken, Renewable, Free, Release, ProbeAcquires, AcquiresProxy,
     ReleasesProxy, ForgetsProxy, HeartBeats, HeartRenewsProxy, HeartFails, ProbeEnds,
     ProbeDies
<1>4. \A h \in Holders \ {p} : Outlasts(h)' BY <1>2, <1>3, OthersKeep
<1>5. Outlasts(p)' /\ (steady'[p] /\ phase'[p] \in Counting => heart'[p] # "none")
  <2> USE DEF Outlasts, Reserve, Counting, Locks, HeartAlive
  <2>1. CASE ProbeAcquires(p)
    BY <2>1, TimesAssumption DEF ProbeAcquires, Taken
  <2>2. ASSUME NEW x \in Proxies, AcquiresProxy(p, x)
        PROVE  Outlasts(p)' /\ (steady'[p] /\ phase'[p] \in Counting => heart'[p] # "none")
    BY <2>2 DEF AcquiresProxy
  <2>3. CASE ReleasesProxy(p) BY <2>3 DEF ReleasesProxy
  <2>4. CASE ForgetsProxy(p) BY <2>4 DEF ForgetsProxy
  <2>5. CASE HeartBeats(p)
    <3>1. CASE ~Renewable(p) BY <2>5, <3>1 DEF HeartBeats
    <3>2. CASE Renewable(p) /\ current[p] = None
      BY <2>5, <3>2, TimesAssumption DEF HeartBeats, Taken
    <3>3. CASE Renewable(p) /\ current[p] # None
      BY <2>5, <3>3, TimesAssumption DEF HeartBeats, Taken
    <3> QED BY <3>1, <3>2, <3>3
  <2>6. CASE HeartRenewsProxy(p)
    <3>1. CASE leased[p] = asked[p]
      BY <2>6, <3>1, TimesAssumption DEF HeartRenewsProxy
    <3>2. CASE leased[p] # asked[p] BY <2>6, <3>2 DEF HeartRenewsProxy
    <3> QED BY <3>1, <3>2
  <2>7. CASE HeartFails(p) BY <2>7 DEF HeartFails
  <2>8. CASE ProbeEnds(p) BY <2>8 DEF ProbeEnds
  <2>9. CASE ProbeDies(p) BY <2>9 DEF ProbeDies
  <2> QED BY <2>1, <2>2, <2>3, <2>4, <2>5, <2>6, <2>7, <2>8, <2>9 DEF ProbeSteps
<1>6. HeartAlive' BY <1>2, <1>5 DEF HeartAlive
<1> QED BY <1>1, <1>4, <1>5, <1>6

LEMMA BackfillOutlasts ==
  ASSUME LeaseInv, NEW b \in Backfills, BackfillSteps(b)
  PROVE  Kinds' /\ HeartAlive' /\ \A h \in Holders : Outlasts(h)'
<1> USE DEF LeaseInv, TypeOK, Moves, Sets, probeVars, BackfillSteps, BackfillAcquires,
            BackfillEnds, BackfillDies
<1>1. Kinds' BY DEF Kinds, RunPhases, ProbePhases, BackfillPhases
<1>2. \A h \in Holders \ {b} :
        phase'[h] = phase[h] /\ due'[h] = due[h] /\ steady'[h] = steady[h]
  OBVIOUS
<1>3. heart' = heart OBVIOUS
<1>4. HeartAlive' BY <1>2, <1>3 DEF HeartAlive
<1>5. \/ lock' = lock
      \/ Free(b) /\ lock'.owner = b
      \/ lock' = ReleasedBy(b)
      \/ lock' = Cleared
  BY DEF Taken, Free, Release
<1>6. \A h \in Holders \ {b} : Outlasts(h)' BY <1>2, <1>3, <1>5, OthersKeep
<1>7. Outlasts(b)'
  BY TimesAssumption DEF Outlasts, Reserve, Counting, Locks, Taken
<1> QED BY <1>1, <1>4, <1>6, <1>7

LEMMA TickOutlasts ==
  ASSUME LeaseInv, Tick
  PROVE  Kinds' /\ HeartAlive' /\ \A h \in Holders : Outlasts(h)'
<1> USE DEF LeaseInv, Tick, probeVars
<1>1. Kinds' BY DEF Kinds
<1>2. HeartAlive' BY DEF HeartAlive, TypeOK
<1>3. ASSUME NEW h \in Holders, steady'[h], phase[h] \in Counting
      PROVE  lock'.owner = h /\ lock'.left > due'[h] + Reserve(h)'
  <2>1. steady[h] /\ lock.owner = h /\ lock.left > due[h] + Reserve(h)
    BY <1>3 DEF Outlasts, TypeOK
  <2>2. Timed(h) BY <1>3, <2>1 DEF Timed, HeartAlive
  <2>3. due[h] # 0 BY <1>3, <2>2 DEF TypeOK
  <2>4. due[h] \in Nat /\ lock.left \in Nat /\ Reserve(h) \in Nat
    BY TimesAssumption DEF TypeOK, Locks, Reserve
  <2>5. Reserve(h)' = Reserve(h) BY DEF Reserve
  <2>6. due'[h] = due[h] - 1 BY <2>2, <2>3 DEF Down
  <2>7. lock'.owner = h /\ lock'.left = lock.left - 1
    BY <2>1, <2>3, <2>4 DEF Down, TypeOK, Locks
  <2> QED BY <2>1, <2>4, <2>5, <2>6, <2>7
<1> QED BY <1>1, <1>2, <1>3 DEF Outlasts

LEMMA RecoveryOutlasts ==
  ASSUME LeaseInv, ServiceDies \/ RecoverClears \/ UNCHANGED vars
  PROVE  Kinds' /\ HeartAlive' /\ \A h \in Holders : Outlasts(h)'
<1> USE DEF LeaseInv, probeVars
<1>1. CASE ServiceDies
  BY <1>1, TimesAssumption DEF ServiceDies, Kinds, HeartAlive, Outlasts, Reserve, Counting, TypeOK,
     RunPhases, ProbePhases, BackfillPhases
<1>2. CASE RecoverClears
  <2>1. Kinds' /\ HeartAlive' BY <1>2 DEF RecoverClears, Kinds, HeartAlive
  <2>2. ASSUME NEW h \in Holders, steady[h], phase[h] \in Counting
        PROVE  lock' = lock
    BY <1>2, <2>2, InvImpliesHolds DEF RecoverClears, Cleared, SteadyHolds
  <2>3. ASSUME NEW h \in Holders PROVE Outlasts(h)'
    BY <1>2, <2>2 DEF RecoverClears, Outlasts, Reserve
  <2> QED BY <2>1, <2>3
<1>3. CASE UNCHANGED vars BY <1>3 DEF vars, Kinds, HeartAlive, Outlasts, Reserve
<1> QED BY <1>1, <1>2, <1>3

LEMMA LeaseInvNext == LeaseInv /\ [Next]_vars => LeaseInv'
<1> SUFFICES ASSUME LeaseInv, [Next]_vars PROVE LeaseInv' OBVIOUS
<1>1. TypeOK' BY TypeNext DEF LeaseInv
<1>2. Kinds' /\ HeartAlive' /\ \A h \in Holders : Outlasts(h)'
  BY RunOutlasts, ProbeOutlasts, BackfillOutlasts, TickOutlasts, RecoveryOutlasts DEF Next
<1> QED BY <1>1, <1>2 DEF LeaseInv

(* Spec => []SteadyHolds: a holder that is on time, whose heartbeat task   *)
(* lives and that no recovery took for stale has the lock, with a lease    *)
(* that has not run out; so two such holders never work at the same time.  *)
THEOREM SteadyHolderHasLock == Spec => []SteadyHolds
<1>1. Spec => []LeaseInv BY LeaseInvInit, LeaseInvNext, PTL DEF Spec
<1> QED BY <1>1, InvImpliesHolds, PTL
=============================================================================
