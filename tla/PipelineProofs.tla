---------------------------- MODULE PipelineProofs ----------------------------
(* Proofs about Pipeline, for all settings and bounds: that an account is not   *)
(* paid for twice, that no number is forgotten, and that no more numbers are    *)
(* bought than the settings allow.  Before them, proofs about the sidecar whose *)
(* jobs the pipeline creates, AgreementJobs, for every number of jobs, links    *)
(* and slots: its types, its exact permits, one active job per link, and that   *)
(* an end once shown stays.                                                     *)
EXTENDS Pipeline, AgreementJobs, SequenceTheorems, FiniteSetTheorems, TLAPS

------------------------------------------------------------------------------
(* The sidecar                                                                  *)

(* The type invariant but for the upper bound of permits, which follows from    *)
(* their exact count.                                                           *)
ManagerTyped ==
    /\ request \in [Jobs -> Requests \cup {NoRequest}]
    /\ listed \subseteq Jobs
    /\ status \in [Jobs -> Active \cup Terminal \cup {"none"}]
    /\ cancelled \in [Jobs -> BOOLEAN]
    /\ held \in [Jobs -> BOOLEAN]
    /\ inputs \in [Jobs -> 0..MaxInputs]
    /\ permits \in Nat
    /\ pc \in [Jobs -> ThreadPlaces]
    /\ prompts \in [Jobs -> 0..MaxPrompts]
    /\ freeing \subseteq Jobs

(* What a job shows fits where its thread is, and the list holds what is active.*)
Created == \A j \in Jobs : status[j] = "none" <=> pc[j] = "none"
CancelIsShown == \A j \in Jobs : cancelled[j] => status[j] \in Terminal
WorkIsShown ==
    \A j \in Jobs :
        ~cancelled[j] /\ pc[j] \notin {"none", "ends", "ended"} => IsActive(j)
EndIsShown == \A j \in Jobs : pc[j] \in {"ends", "ended"} => status[j] \in Terminal
ActiveIsListed == \A j \in Jobs : IsActive(j) => j \in listed

(* A permit is taken only by a thread that holds no slot.                       *)
HeldAtWork ==
    \A j \in Jobs : held[j] => pc[j] \notin {"none", "acquires", "granted", "waits"}

Shape ==
    /\ Created /\ CancelIsShown /\ WorkIsShown /\ EndIsShown
    /\ ActiveIsListed /\ HeldAtWork

(* What create_job looks for: the jobs that are shown as active.                *)
OneShownPerLink ==
    \A j, k \in Jobs :
        IsActive(j) /\ IsActive(k) /\ request[j].link = request[k].link => j = k

ManagerInv == ManagerTyped /\ Shape /\ PermitsExact /\ OneShownPerLink

------------------------------------------------------------------------------
LEMMA ManagerTypedInit == ManagerInit => ManagerTyped
BY LimitsAssumption DEF ManagerInit, ManagerTyped, ThreadPlaces, Active, Terminal

LEMMA TypedRequest ==
  ASSUME ManagerTyped, NEW j \in Jobs, Requested(j) \/ CancelReleases(j) \/ List
  PROVE  ManagerTyped'
<1> USE LimitsAssumption DEF ManagerTyped, ThreadPlaces, Active, Terminal
<1>1. ASSUME NEW r \in Requests, NEW kept \in SUBSET Jobs,
             NEW others \in [Jobs -> Active \cup Terminal \cup {"none"}],
             Enters(j, r, kept, others)
      PROVE  /\ request' \in [Jobs -> Requests \cup {NoRequest}]
             /\ listed' \subseteq Jobs
             /\ status' \in [Jobs -> Active \cup Terminal \cup {"none"}]
             /\ pc' \in [Jobs -> ThreadPlaces]
  BY <1>1 DEF Enters
<1>2. CASE Create(j)
  <2>1. PICK r \in Requests, gone \in SUBSET Finished :
          LET kept == listed \ gone
              foreign == {o \in OfLink(r.link) : request[o].device # r.device}
          IN \/ \E o \in foreign : Reclaims(j, r, kept, o)
             \/ AddsNothing(kept)
             \/ Enters(j, r, kept, status) /\ UNCHANGED <<cancelled, freeing>>
    BY <1>2 DEF Create
  <2> DEFINE kept == listed \ gone
  <2>2. kept \in SUBSET Jobs OBVIOUS
  <2>3. ASSUME NEW o \in Jobs, Reclaims(j, r, kept, o) PROVE ManagerTyped'
    <3>1. [status EXCEPT ![o] = "cancelled"]
            \in [Jobs -> Active \cup Terminal \cup {"none"}]
      OBVIOUS
    <3>2. Enters(j, r, kept, [status EXCEPT ![o] = "cancelled"])
      BY <2>3 DEF Reclaims
    <3> HIDE DEF kept
    <3> QED BY <2>2, <3>1, <3>2, <1>1, <2>3, <1>2 DEF Reclaims, Create
  <2>4. CASE AddsNothing(kept) BY <2>2, <2>4, <1>2 DEF AddsNothing, Create
  <2>5. CASE Enters(j, r, kept, status) /\ UNCHANGED <<cancelled, freeing>>
    BY <2>2, <2>5, <1>1, <1>2 DEF Create
  <2> QED BY <2>1, <2>3, <2>4, <2>5 DEF OfLink, ActiveJobs
<1>3. CASE SubmitInput(j) BY <1>3 DEF SubmitInput
<1>4. CASE Cancel(j) BY <1>4 DEF Cancel
<1>5. CASE CancelReleases(j) BY <1>5 DEF CancelReleases, ReleasesSlot
<1>6. CASE List BY <1>6 DEF List
<1> QED BY <1>2, <1>3, <1>4, <1>5, <1>6 DEF Requested

LEMMA TypedRun ==
  ASSUME ManagerTyped, NEW j \in Jobs, Runs(j) PROVE ManagerTyped'
<1> USE LimitsAssumption DEF ManagerTyped, ThreadPlaces, Active, Terminal, Goes, Rest
<1>1. CASE Acquire(j) BY <1>1 DEF Acquire
<1>2. CASE Register(j)
  <2>1. CASE cancelled[j] BY <1>2, <2>1 DEF Register
  <2>2. CASE ~cancelled[j] BY <1>2, <2>2 DEF Register
  <2> QED BY <2>1, <2>2
<1>3. CASE Resume(j) BY <1>3 DEF Resume, Shows
<1>4. CASE FlowEnds(j) BY <1>4 DEF FlowEnds
<1>5. CASE Prompt(j) BY <1>5 DEF Prompt
<1>6. CASE LendSlot(j) BY <1>6 DEF LendSlot, ReleasesSlot
<1>7. CASE TakeInput(j) BY <1>7 DEF TakeInput
<1>8. CASE GivesUp(j) BY <1>8 DEF GivesUp
<1>9. CASE Decide(j) BY <1>9 DEF Decide
<1>10. CASE Record(j) BY <1>10 DEF Record
<1>11. CASE End(j) BY <1>11 DEF End, ReleasesSlot
<1> QED BY <1>1, <1>2, <1>3, <1>4, <1>5, <1>6, <1>7, <1>8, <1>9, <1>10,
           <1>11 DEF Runs

LEMMA ShapeInit == ManagerInit => Shape
BY DEF ManagerInit, Shape, Created, CancelIsShown, WorkIsShown, EndIsShown,
       ActiveIsListed, HeldAtWork, IsActive, Active, Terminal

LEMMA ShapeRun ==
  ASSUME ManagerTyped, Shape, NEW j \in Jobs, Runs(j) PROVE Shape'
<1> USE DEF ManagerTyped, ThreadPlaces, Active, Terminal, Goes, Rest, Shape, Created,
            CancelIsShown, WorkIsShown, EndIsShown, ActiveIsListed, HeldAtWork,
            IsActive
<1>1. CASE Acquire(j) BY <1>1 DEF Acquire
<1>2. CASE Register(j) BY <1>2 DEF Register
<1>3. CASE Resume(j) BY <1>3 DEF Resume, Shows
<1>4. CASE FlowEnds(j) BY <1>4 DEF FlowEnds
<1>5. CASE Prompt(j) BY <1>5 DEF Prompt
<1>6. CASE LendSlot(j) BY <1>6 DEF LendSlot, ReleasesSlot
<1>7. CASE TakeInput(j) BY <1>7 DEF TakeInput
<1>8. CASE GivesUp(j) BY <1>8 DEF GivesUp
<1>9. CASE Decide(j) BY <1>9 DEF Decide
<1>10. CASE Record(j) BY <1>10 DEF Record
<1>11. CASE End(j) BY <1>11 DEF End, ReleasesSlot
<1> QED BY <1>1, <1>2, <1>3, <1>4, <1>5, <1>6, <1>7, <1>8, <1>9, <1>10,
           <1>11 DEF Runs

LEMMA ShapeRequest ==
  ASSUME ManagerTyped, Shape, NEW j \in Jobs, Requested(j) \/ CancelReleases(j) \/ List
  PROVE  Shape'
<1> USE DEF ManagerTyped, ThreadPlaces, Active, Terminal, Shape, Created,
            CancelIsShown, WorkIsShown, EndIsShown, ActiveIsListed, HeldAtWork,
            IsActive
<1>1. CASE Create(j)
  <2>1. PICK r \in Requests, gone \in SUBSET Finished :
          LET kept == listed \ gone
              foreign == {o \in OfLink(r.link) : request[o].device # r.device}
          IN \/ \E o \in foreign : Reclaims(j, r, kept, o)
             \/ AddsNothing(kept)
             \/ Enters(j, r, kept, status) /\ UNCHANGED <<cancelled, freeing>>
    BY <1>1 DEF Create
  <2> DEFINE kept == listed \ gone
  <2>2. \A k \in Jobs : IsActive(k) => k \in kept
    BY DEF Finished, ActiveJobs
  <2>3. status[j] = "none" /\ ~cancelled[j] /\ UNCHANGED held
    BY <1>1 DEF Create
  <2> HIDE DEF kept
  <2>4. ASSUME NEW o \in Jobs, IsActive(o), Reclaims(j, r, kept, o) PROVE Shape'
    BY <2>2, <2>3, <2>4 DEF Reclaims, Enters
  <2>5. CASE AddsNothing(kept) BY <2>2, <2>3, <2>5 DEF AddsNothing
  <2>6. CASE Enters(j, r, kept, status) /\ UNCHANGED <<cancelled, freeing>>
    BY <2>2, <2>3, <2>6 DEF Enters
  <2> QED BY <2>1, <2>4, <2>5, <2>6 DEF OfLink, ActiveJobs, kept
<1>2. CASE SubmitInput(j) BY <1>2 DEF SubmitInput
<1>3. CASE Cancel(j) BY <1>3 DEF Cancel
<1>4. CASE CancelReleases(j) BY <1>4 DEF CancelReleases, ReleasesSlot
<1>5. CASE List BY <1>5 DEF List, Finished, ActiveJobs
<1> QED BY <1>1, <1>2, <1>3, <1>4, <1>5 DEF Requested

------------------------------------------------------------------------------
(* Permits: every step keeps the slots held and the permits in hand, or moves   *)
(* one between the two and the semaphore.                                       *)
HeldJobs == {j \in Jobs : held[j]}
Granted == {j \in Jobs : pc[j] = "granted"}

LEMMA Counts ==
  /\ IsFiniteSet(HeldJobs) /\ Cardinality(HeldJobs) \in Nat
  /\ IsFiniteSet(Granted) /\ Cardinality(Granted) \in Nat
BY JobsAssumption, FS_Subset, FS_CardinalityType DEF HeldJobs, Granted

LEMMA ExactCounts ==
  /\ PermitsExact <=>
       permits + Cardinality(HeldJobs) + Cardinality(Granted) = Permits
  /\ PermitsExact' <=>
       permits' + Cardinality(HeldJobs') + Cardinality(Granted') = Permits
BY DEF PermitsExact, HeldJobs, Granted

LEMMA PermitsKept ==
  ASSUME PermitsExact, UNCHANGED <<permits, held>>, Granted' = Granted
  PROVE  PermitsExact'
<1>1. HeldJobs' = HeldJobs BY DEF HeldJobs
<1> QED BY <1>1 DEF PermitsExact, HeldJobs, Granted

LEMMA SlotReleased ==
  ASSUME ManagerTyped, PermitsExact, NEW j \in Jobs, ReleasesSlot(j), Granted' = Granted
  PROVE  PermitsExact'
<1>1. CASE held[j]
  <2>1. HeldJobs' = HeldJobs \ {j} /\ j \in HeldJobs /\ permits' = permits + 1
    BY <1>1 DEF HeldJobs, ReleasesSlot, ManagerTyped
  <2>2. Cardinality(HeldJobs') = Cardinality(HeldJobs) - 1
    BY <2>1, Counts, FS_RemoveElement
  <2> QED BY <2>1, <2>2, Counts, ExactCounts DEF ManagerTyped
<1>2. CASE ~held[j]
  <2>1. HeldJobs' = HeldJobs /\ permits' = permits
    BY <1>2 DEF HeldJobs, ReleasesSlot, ManagerTyped
  <2> QED BY <2>1 DEF PermitsExact, HeldJobs, Granted
<1> QED BY <1>1, <1>2

LEMMA PermitTaken ==
  ASSUME ManagerTyped, PermitsExact, NEW j \in Jobs, Acquire(j) PROVE PermitsExact'
<1> USE DEF Acquire, Goes, Rest, ManagerTyped, Granted
<1>1. CASE Goes(j, "raised") /\ UNCHANGED permits
  <2>1. Granted' = Granted BY <1>1
  <2> QED BY <1>1, <2>1, PermitsKept
<1>2. CASE permits > 0 /\ permits' = permits - 1 /\ Goes(j, "granted")
  <2>1. Granted' = Granted \cup {j} /\ j \notin Granted BY <1>2
  <2>2. Cardinality(Granted') = Cardinality(Granted) + 1
    BY <2>1, Counts, FS_AddElement DEF Granted
  <2>3. HeldJobs' = HeldJobs BY DEF HeldJobs
  <2> QED BY <1>2, <2>2, <2>3, Counts, ExactCounts
<1> QED BY <1>1, <1>2

LEMMA PermitRegistered ==
  ASSUME ManagerTyped, Shape, PermitsExact, NEW j \in Jobs, Register(j) PROVE PermitsExact'
<1>1. Granted' = Granted \ {j} /\ j \in Granted
  BY DEF Register, Goes, ManagerTyped, Granted
<1>2. Cardinality(Granted') = Cardinality(Granted) - 1
  BY <1>1, Counts, FS_RemoveElement
<1>3. CASE cancelled[j]
  <2>1. permits' = permits + 1 /\ HeldJobs' = HeldJobs
    BY <1>3 DEF Register, HeldJobs
  <2> QED BY <1>2, <2>1, Counts, ExactCounts DEF ManagerTyped
<1>4. CASE ~cancelled[j]
  <2>1. UNCHANGED permits /\ held' = [held EXCEPT ![j] = TRUE]
    BY <1>4 DEF Register
  <2>2. HeldJobs' = HeldJobs \cup {j} /\ j \notin HeldJobs
    BY <2>1 DEF HeldJobs, ManagerTyped, Shape, HeldAtWork, Register
  <2>3. Cardinality(HeldJobs') = Cardinality(HeldJobs) + 1
    BY <2>2, Counts, FS_AddElement
  <2> QED BY <1>2, <2>1, <2>3, Counts, ExactCounts DEF ManagerTyped
<1> QED BY <1>3, <1>4

LEMMA PermitsRun ==
  ASSUME ManagerTyped, Shape, PermitsExact, NEW j \in Jobs, Runs(j) PROVE PermitsExact'
<1> USE DEF ManagerTyped, Goes, Rest, Granted
<1>1. CASE Resume(j)
  <2>1. Granted' = Granted BY <1>1 DEF Resume
  <2> QED BY <1>1, <2>1, PermitsKept DEF Resume
<1>2. CASE FlowEnds(j) BY <1>2, PermitsKept DEF FlowEnds
<1>3. CASE Prompt(j) BY <1>3, PermitsKept DEF Prompt
<1>4. CASE LendSlot(j) BY <1>4, SlotReleased DEF LendSlot
<1>5. CASE TakeInput(j) BY <1>5, PermitsKept DEF TakeInput
<1>6. CASE GivesUp(j) BY <1>6, PermitsKept DEF GivesUp
<1>7. CASE Decide(j) BY <1>7, PermitsKept DEF Decide
<1>8. CASE Record(j) BY <1>8, PermitsKept DEF Record
<1>9. CASE End(j) BY <1>9, SlotReleased DEF End
<1> QED BY <1>1, <1>2, <1>3, <1>4, <1>5, <1>6, <1>7, <1>8, <1>9,
           PermitTaken, PermitRegistered DEF Runs

LEMMA PermitsRequest ==
  ASSUME ManagerTyped, Shape, PermitsExact, NEW j \in Jobs,
         Requested(j) \/ CancelReleases(j) \/ List
  PROVE  PermitsExact'
<1> USE DEF ManagerTyped, Granted
<1>1. CASE Create(j)
  <2>1. UNCHANGED <<permits, held>> BY <1>1 DEF Create
  <2>2. pc[j] = "none" BY <1>1 DEF Create, Shape, Created
  <2>3. pc' = pc \/ pc' = [pc EXCEPT ![j] = "acquires"]
    BY <1>1 DEF Create, Reclaims, Enters, AddsNothing
  <2>4. Granted' = Granted BY <2>2, <2>3
  <2> QED BY <2>1, <2>4, PermitsKept
<1>2. CASE SubmitInput(j) BY <1>2, PermitsKept DEF SubmitInput
<1>3. CASE Cancel(j) BY <1>3, PermitsKept DEF Cancel
<1>4. CASE CancelReleases(j) BY <1>4, SlotReleased DEF CancelReleases
<1>5. CASE List BY <1>5, PermitsKept DEF List
<1> QED BY <1>1, <1>2, <1>3, <1>4, <1>5 DEF Requested

------------------------------------------------------------------------------
(* One active job per link: only a creation makes a job active, and the active  *)
(* job of its link, which the list holds, is cancelled in that step.            *)
LEMMA ActiveStays ==
  ASSUME ManagerTyped, Shape, OneShownPerLink, UNCHANGED request,
         \A k \in Jobs : IsActive(k)' => IsActive(k)
  PROVE  OneShownPerLink'
BY DEF OneShownPerLink, IsActive

LEMMA LinksRun ==
  ASSUME ManagerTyped, Shape, OneShownPerLink, NEW j \in Jobs, Runs(j)
  PROVE  OneShownPerLink'
<1> USE DEF ManagerTyped, Goes, Rest, IsActive, Active, Shape, WorkIsShown
<1>0. SUFFICES \A k \in Jobs : IsActive(k)' => IsActive(k)
  <2>1. UNCHANGED request
    BY DEF Runs, Acquire, Register, Resume, FlowEnds, Prompt, LendSlot, TakeInput,
           GivesUp, Decide, Record, End
  <2> QED BY <2>1, ActiveStays DEF IsActive
<1>1. CASE Acquire(j) BY <1>1 DEF Acquire
<1>2. CASE Register(j) BY <1>2 DEF Register
<1>3. CASE Resume(j) BY <1>3 DEF Resume, Shows
<1>4. CASE FlowEnds(j) BY <1>4 DEF FlowEnds
<1>5. CASE Prompt(j) BY <1>5 DEF Prompt
<1>6. CASE LendSlot(j) BY <1>6 DEF LendSlot
<1>7. CASE TakeInput(j) BY <1>7 DEF TakeInput
<1>8. CASE GivesUp(j) BY <1>8 DEF GivesUp
<1>9. CASE Decide(j) BY <1>9 DEF Decide
<1>10. CASE Record(j) BY <1>10 DEF Record
<1>11. CASE End(j) BY <1>11 DEF End
<1> QED BY <1>1, <1>2, <1>3, <1>4, <1>5, <1>6, <1>7, <1>8, <1>9, <1>10,
           <1>11 DEF Runs

LEMMA LinksRequest ==
  ASSUME ManagerTyped, Shape, OneShownPerLink, NEW j \in Jobs,
         Requested(j) \/ CancelReleases(j) \/ List
  PROVE  OneShownPerLink'
<1>1. CASE Create(j)
  <2>1. PICK r \in Requests, gone \in SUBSET Finished :
          LET kept == listed \ gone
              foreign == {o \in OfLink(r.link) : request[o].device # r.device}
          IN \/ \E o \in foreign : Reclaims(j, r, kept, o)
             \/ AddsNothing(kept)
             \/ /\ OfLink(r.link) = {}
                /\ Enters(j, r, kept, status)
    BY <1>1 DEF Create
  <2> DEFINE kept == listed \ gone
  <2>2. \A k \in Jobs : IsActive(k) /\ request[k].link = r.link => k \in OfLink(r.link)
    BY DEF OfLink, ActiveJobs, Shape, ActiveIsListed
  <2> HIDE DEF kept
  <2>3. ASSUME NEW others \in [Jobs -> Active \cup Terminal \cup {"none"}],
               \A k \in Jobs : others[k] \in Active =>
                   (IsActive(k) /\ request[k].link # r.link) \/ k = j,
               \A k \in Jobs : others[k] \in Active => IsActive(k),
               Enters(j, r, kept, others)
        PROVE  OneShownPerLink'
    <3>1. CASE request' = [request EXCEPT ![j] = r]
               /\ status' = [others EXCEPT ![j] = "queued"]
      BY <2>3, <3>1 DEF OneShownPerLink, IsActive, ManagerTyped
    <3>2. CASE UNCHANGED request /\ status' = others
      BY <2>3, <3>2 DEF OneShownPerLink, IsActive
    <3> QED BY <2>3, <3>1, <3>2 DEF Enters
  <2>4. ASSUME NEW o \in OfLink(r.link), Reclaims(j, r, kept, o)
        PROVE  OneShownPerLink'
    <3> DEFINE others == [status EXCEPT ![o] = "cancelled"]
    <3>1. o \in Jobs /\ IsActive(o) /\ request[o].link = r.link
      BY DEF OfLink, ActiveJobs, ManagerTyped
    <3>2. others \in [Jobs -> Active \cup Terminal \cup {"none"}]
      BY <3>1 DEF ManagerTyped, Terminal
    <3>3. \A k \in Jobs : others[k] \in Active =>
                             IsActive(k) /\ request[k].link # r.link
      BY <3>1 DEF OneShownPerLink, IsActive, Active, ManagerTyped
    <3>4. Enters(j, r, kept, others) BY <2>4 DEF Reclaims
    <3> HIDE DEF others
    <3> QED BY <2>3, <3>2, <3>3, <3>4
  <2>5. CASE AddsNothing(kept)
    BY <2>5, ActiveStays DEF AddsNothing, IsActive
  <2>6. CASE OfLink(r.link) = {} /\ Enters(j, r, kept, status)
    BY <2>2, <2>3, <2>6 DEF IsActive, ManagerTyped
  <2> QED BY <2>1, <2>4, <2>5, <2>6 DEF kept
<1>2. CASE SubmitInput(j) BY <1>2, ActiveStays DEF SubmitInput, IsActive
<1>3. CASE Cancel(j)
  BY <1>3, ActiveStays DEF Cancel, IsActive, Active, ManagerTyped
<1>4. CASE CancelReleases(j) BY <1>4, ActiveStays DEF CancelReleases, IsActive
<1>5. CASE List BY <1>5, ActiveStays DEF List, IsActive
<1> QED BY <1>1, <1>2, <1>3, <1>4, <1>5 DEF Requested

------------------------------------------------------------------------------
(* What is shown as ended stays so.                                             *)
LEMMA EndStays ==
  ASSUME ManagerInv, [ManagerNext]_managerVars, NEW k \in Jobs, status[k] \in Terminal
  PROVE  status'[k] \in Terminal
<1> USE DEF ManagerInv, ManagerTyped, Shape, Created, WorkIsShown, IsActive, Active, Terminal
<1>1. CASE UNCHANGED managerVars BY <1>1 DEF managerVars
<1>2. CASE List BY <1>2 DEF List
<1>3. ASSUME NEW j \in Jobs, Requested(j) PROVE status'[k] \in Terminal
  <2>1. CASE Create(j)
    BY <2>1 DEF Create, Reclaims, Enters, AddsNothing, OfLink, ActiveJobs
  <2>2. CASE SubmitInput(j) BY <2>2 DEF SubmitInput
  <2>3. CASE Cancel(j) BY <2>3 DEF Cancel
  <2> QED BY <1>3, <2>1, <2>2, <2>3 DEF Requested
<1>4. ASSUME NEW j \in Jobs, CancelReleases(j) PROVE status'[k] \in Terminal
  BY <1>4 DEF CancelReleases
<1>5. ASSUME NEW j \in Jobs, Runs(j) PROVE status'[k] \in Terminal
  <2> USE DEF Goes, Rest
  <2>1. CASE Acquire(j) BY <2>1 DEF Acquire
  <2>2. CASE Register(j) BY <2>2 DEF Register
  <2>3. CASE Resume(j) BY <2>3 DEF Resume, Shows
  <2>4. CASE FlowEnds(j) BY <2>4 DEF FlowEnds
  <2>5. CASE Prompt(j) BY <2>5 DEF Prompt
  <2>6. CASE LendSlot(j) BY <2>6 DEF LendSlot
  <2>7. CASE TakeInput(j) BY <2>7 DEF TakeInput
  <2>8. CASE GivesUp(j) BY <2>8 DEF GivesUp
  <2>9. CASE Decide(j) BY <2>9 DEF Decide
  <2>10. CASE Record(j) BY <2>10 DEF Record
  <2>11. CASE End(j) BY <2>11 DEF End
  <2> QED BY <1>5, <2>1, <2>2, <2>3, <2>4, <2>5, <2>6, <2>7, <2>8, <2>9, <2>10,
             <2>11 DEF Runs
<1> QED BY <1>1, <1>2, <1>3, <1>4, <1>5 DEF ManagerNext

------------------------------------------------------------------------------
LEMMA Initially == ManagerInit => ManagerInv
<1> SUFFICES ASSUME ManagerInit PROVE ManagerInv OBVIOUS
<1>1. HeldJobs = {} /\ Granted = {} BY DEF ManagerInit, HeldJobs, Granted
<1>2. PermitsExact
  BY <1>1, FS_EmptySet, ExactCounts, LimitsAssumption DEF ManagerInit
<1>3. OneShownPerLink BY DEF ManagerInit, OneShownPerLink, IsActive, Active
<1> QED BY <1>2, <1>3, ManagerTypedInit, ShapeInit DEF ManagerInv

LEMMA Inductive == ManagerInv /\ [ManagerNext]_managerVars => ManagerInv'
<1> SUFFICES ASSUME ManagerInv, [ManagerNext]_managerVars PROVE ManagerInv' OBVIOUS
<1> USE DEF ManagerInv
<1>1. ASSUME NEW j \in Jobs, Runs(j) PROVE ManagerInv'
  BY <1>1, TypedRun, ShapeRun, PermitsRun, LinksRun
<1>2. ASSUME NEW j \in Jobs, Requested(j) \/ CancelReleases(j) \/ List PROVE ManagerInv'
  BY <1>2, TypedRequest, ShapeRequest, PermitsRequest, LinksRequest
<1>3. CASE List
  <2>1. CASE Jobs = {}
    BY <1>3, <2>1 DEF List, Finished, ActiveJobs, ManagerTyped
  <2>2. CASE Jobs # {} BY <1>2, <1>3, <2>2
  <2> QED BY <2>1, <2>2
<1>4. CASE UNCHANGED managerVars
  <2>1. ManagerTyped' BY <1>4 DEF managerVars, ManagerTyped
  <2>2. Shape'
    BY <1>4 DEF managerVars, Shape, Created, CancelIsShown, WorkIsShown, EndIsShown,
                ActiveIsListed, HeldAtWork, IsActive
  <2>3. PermitsExact' BY <1>4 DEF managerVars, PermitsExact
  <2>4. OneShownPerLink' BY <1>4 DEF managerVars, OneShownPerLink, IsActive
  <2> QED BY <2>1, <2>2, <2>3, <2>4
<1> QED BY <1>1, <1>2, <1>3, <1>4 DEF ManagerNext

LEMMA Invariant == ManagerSpec => []ManagerInv
BY Initially, Inductive, PTL DEF ManagerSpec

(* Every variable keeps its type, and the semaphore its bounds.                 *)
THEOREM TypesHold == ManagerSpec => []TypeOK
<1>1. ManagerInv => TypeOK
  BY Counts, ExactCounts, LimitsAssumption DEF ManagerInv, ManagerTyped, TypeOK
<1> QED BY <1>1, Invariant, PTL

(* No permit of RUNNER_SEMAPHORE is lost or given back twice.                   *)
THEOREM PermitsAreExact == ManagerSpec => []PermitsExact
<1>1. ManagerInv => PermitsExact BY DEF ManagerInv
<1> QED BY <1>1, Invariant, PTL

(* Of the threads at work on one agreement link at most one has not been told to *)
(* stop: a job that is neither cancelled nor at its end is shown as active.      *)
THEOREM LinksHaveOneOwner == ManagerSpec => []OneOwnerPerLink
<1>1. ManagerInv => OneOwnerPerLink
  BY DEF ManagerInv, Shape, WorkIsShown, AtWork, OneShownPerLink, OneOwnerPerLink
<1> QED BY <1>1, Invariant, PTL

(* No job that was shown as ended is shown at work again.                       *)
THEOREM EndsStay == ManagerSpec => NeverReopens
<1>1. ManagerInv /\ [ManagerNext]_managerVars =>
        [\A j \in Jobs : status[j] \in Terminal => status'[j] \in Terminal]_managerVars
  BY EndStays
<1> QED BY <1>1, Invariant, PTL DEF ManagerSpec, NeverReopens


------------------------------------------------------------------------------
(* The pipeline                                                                 *)

------------------------------------------------------------------------------
(* Types.                                                                       *)

Extractions == {"pending", "running", "succeeded", "failed"}
JobStatuses == {"running", "awaiting_otp", "completed", "failed", "cancelled"}
Payments == {"pending", "running", "awaiting_otp", "completed", "failed"}
SmsStatuses == {"none", "waiting", "code_submitted", "cancel_retry", "completed",
                "cancelled"}
Docs == [id : Nat, stage : Stages, extraction : Extractions, task : Nat, link : Nat,
         payment : Payments, job : Nat, number : Nat, sms : SmsStatuses,
         attempt : Nat, extractionRetry : Nat, paymentRetry : Nat]
JobRecords == [link : Nat, status : JobStatuses, known : BOOLEAN]
Activations == {"active", "over"}
Excuses == {"raced", "asked", "insisted", "blind", "refused", "unrecorded"}

Starting == {"checks", "buys", "notes", "posts", "tracks"}
Rotating == {"refresh", "sms", "rotates", "rebuys", "renotes", "tells", "entered"}
Places == Phases \cup JobStatuses \cup Starting \cup Rotating \cup
          {"task", "creates", "begins", "job", "enters", "told",
           "cancels", "rewrites", "deletes"}

Typed ==
  /\ item \in Docs
  /\ tasks \in Seq({"running", "succeeded", "failed", "gone"})
  /\ jobs \in Seq(JobRecords)
  /\ numbers \in Seq(Activations)
  /\ at \in [Coroutines -> Places]
  /\ seen \in [Coroutines -> Docs]
  /\ got \in [Coroutines -> Nat]
  /\ excuses \in SUBSET Excuses
  /\ events \in Nat
  /\ item.job \in 0 .. Len(jobs)
  /\ \A c \in Coroutines : seen[c].job \in 0 .. Len(jobs)
  /\ \A c \in Coroutines : at[c] = "tracks" => got[c] \in 1 .. Len(jobs)
  /\ at["tick"] = "job" => seen["tick"].job # 0

------------------------------------------------------------------------------
(* What holds until the page races with the tick, an answer is lost, or the     *)
(* database fails at a write that cannot be made good.                          *)

Calm == excuses \cap {"raced", "blind", "unrecorded"} = {}

Early == {"absent", "eligible", "extracting", "extraction_failed"}
UnderWay == {"paying", "payment_waiting_otp"}

(* The record by itself.                                                        *)
Sound ==
  /\ item.extraction = "running" => item.stage = "extracting"
  /\ item.stage \in Early \cup {"payment_ready"} => item.job = 0
  /\ item.stage = "payment_failed" => item.payment = "failed"
  /\ item.stage \in {"paid", "archived"} => item.payment = "completed"

(* What a place of a coroutine says of the stage of the record.                 *)
Staged(c) ==
  /\ at[c] = "task" => item.stage = "extracting"
  /\ at[c] \in {"creates", "begins"} => item.stage = "eligible"
  /\ at[c] \in Starting => item.stage = "payment_ready"
  /\ at[c] \in JobStatuses \cup {"job"} => item.stage \in UnderWay
  /\ at[c] \in Rotating => item.stage = "payment_waiting_otp"
  /\ at[c] \in {"enters", "told"} =>
       IF c = "tick" THEN item.stage = "payment_waiting_otp" ELSE item.job # 0

(* The record is the one that was read, but for what was written since.         *)
InHand(c) ==
  Holds(c) =>
    /\ Exists /\ item.id = seen[c].id /\ item.job = seen[c].job
    /\ item.extraction = seen[c].extraction
    /\ at[c] \notin {"posts", "tracks", "tells", "told"} =>
         /\ item.number = seen[c].number
         /\ item.sms = seen[c].sms /\ item.attempt = seen[c].attempt

Alone == Holds("tick") => ~Holds("request")
Hands == Alone /\ \A c \in Coroutines : InHand(c) /\ Staged(c)

------------------------------------------------------------------------------
(* Jobs, numbers, and what they may cost.                                       *)

(* The sidecar knows its jobs, until it restarts.                               *)
Remembered == \A k \in DOMAIN jobs : jobs[k].known

(* The record knows the job that has paid or may do so without being asked.     *)
Paying(k) == jobs[k].status \in {"running", "completed"}
Tracked(k) ==
  \/ \E c \in Coroutines : at[c] = "tracks" /\ got[c] = k
  \/ /\ item.job = k
     /\ item.stage \in UnderWay \cup {"paid"} \/ at["request"] = "told"

(* Where the job of the record is known to do no more.                          *)
Prompted == {"awaiting_otp", "failed", "cancelled", "refresh", "sms", "rotates",
             "rebuys", "renotes", "tells", "rewrites"}
Quiet(c) ==
  (at[c] \in Prompted \/ (c = "tick" /\ at[c] = "enters")) /\ item.job # 0 =>
    ~Paying(item.job)
JobsKnown ==
  /\ \A k \in DOMAIN jobs : Paying(k) => Tracked(k)
  /\ \A c \in Coroutines : Quiet(c)

Numbered(n) ==
  /\ item.number = n /\ item.sms \notin {"code_submitted", "completed"}
  /\ item.stage \in UnderWay \/ \E c \in Coroutines : at[c] \in {"posts", "tracks"}
  /\ \A c \in Coroutines : at[c] \notin {"rebuys", "renotes"}
Noted(n) == \E c \in Coroutines : at[c] \in {"notes", "renotes"} /\ got[c] = n
NumbersKnown ==
  /\ \A n \in DOMAIN numbers : numbers[n] = "active" => Numbered(n) \/ Noted(n)
  /\ \A c \in Coroutines, n \in DOMAIN numbers :
       /\ at[c] \in {"posts", "tells"} /\ numbers[n] = "active" => n = got[c]
       /\ at[c] \in {"notes", "renotes"} /\ numbers[n] = "active" => n = got[c]

Each == 1 + NumberChanges                     \* the numbers of one payment
Before == item.paymentRetry * Each            \* those of the payments before
Spent ==
  /\ item.paymentRetry <= PaymentRetries
  /\ item.stage \in Early => Len(numbers) = 0
  /\ item.stage = "payment_ready" =>
       IF at["tick"] \in {"notes", "posts", "tracks"}
       THEN Len(numbers) <= Before + 1 ELSE Len(numbers) <= Before
  /\ at["tick"] \in {"posts", "tracks"} => item.attempt = 1
  /\ item.stage \in UnderWay =>
       /\ item.attempt <= (IF at["tick"] \in {"rebuys", "renotes"} THEN NumberChanges ELSE Each)
       /\ Len(numbers) <= Before + item.attempt + (IF at["tick"] = "renotes" THEN 1 ELSE 0)
  /\ Len(numbers) <= Before + Each

Unasked == at["request"] = "idle"

IInv ==
  /\ Typed
  /\ Calm => Sound /\ Hands /\ Remembered
  /\ Calm /\ "insisted" \notin excuses => JobsKnown
  /\ Calm /\ "refused" \notin excuses => NumbersKnown
  /\ excuses = {} => Unasked /\ Spent

------------------------------------------------------------------------------
(* Types.                                                                       *)

LEMMA BlankTyped == Blank \in Docs /\ Blank.job = 0 /\ Blank.stage = "absent"
  BY DEF Blank, Docs, Stages, Extractions, Payments, SmsStatuses

LEMMA CoroutineFacts ==
  /\ "tick" \in Coroutines /\ "request" \in Coroutines
  /\ \A c \in Coroutines : c = "tick" \/ c = "request"
  BY DEF Coroutines

LEMMA OtherFacts ==
  ASSUME NEW c \in Coroutines
  PROVE  /\ Other(c) \in Coroutines /\ Other(c) # c
         /\ \A d \in Coroutines : d = c \/ d = Other(c)
<1>1. \E d \in Coroutines : d # c
  BY DEF Coroutines
<1>2. Other(c) \in Coroutines /\ Other(c) # c
  BY <1>1 DEF Other
<1> QED BY <1>2 DEF Coroutines

(* The coroutine c goes on: how it is then, and that the other is as before.    *)
OtherStays(c) ==
  \A d \in Coroutines \ {c} : at'[d] = at[d] /\ seen'[d] = seen[d] /\ got'[d] = got[d]
HandsTyped ==
  /\ at' \in [Coroutines -> Places]
  /\ seen' \in [Coroutines -> Docs]
  /\ got' \in [Coroutines -> Nat]
Moved(c, place, thing) ==
  /\ HandsTyped /\ OtherStays(c)
  /\ at'[c] = place /\ got'[c] = thing
  /\ seen'[c] = (IF place \in Phases THEN Blank ELSE seen[c])

LEMMA Moving ==
  ASSUME Typed, NEW c \in Coroutines, NEW place \in Places, NEW thing \in Nat,
         GoesWith(c, place, thing)
  PROVE  Moved(c, place, thing)
<1>1. at' = [at EXCEPT ![c] = place] /\ got' = [got EXCEPT ![c] = thing]
  BY DEF GoesWith
<1>2. at \in [Coroutines -> Places] /\ seen \in [Coroutines -> Docs] /\ got \in [Coroutines -> Nat]
  BY DEF Typed
<1>3. /\ at' \in [Coroutines -> Places] /\ got' \in [Coroutines -> Nat]
      /\ at'[c] = place /\ got'[c] = thing
      /\ \A d \in Coroutines \ {c} : at'[d] = at[d] /\ got'[d] = got[d]
  BY <1>1, <1>2
<1>4. /\ seen' \in [Coroutines -> Docs]
      /\ seen'[c] = (IF place \in Phases THEN Blank ELSE seen[c])
      /\ \A d \in Coroutines \ {c} : seen'[d] = seen[d]
  <2>1. CASE place \in Phases BY <1>2, <2>1, BlankTyped DEF GoesWith
  <2>2. CASE place \notin Phases BY <1>2, <2>2 DEF GoesWith
  <2> QED BY <2>1, <2>2
<1> QED BY <1>3, <1>4 DEF Moved, HandsTyped, OtherStays

LEMMA Going ==
  ASSUME Typed, NEW c \in Coroutines, NEW place \in Places, GoesTo(c, place)
  PROVE  /\ place \in Phases => Moved(c, place, 0)
         /\ place \notin Phases => Moved(c, place, got[c])
<1>1. got[c] \in Nat BY DEF Typed
<1>2. CASE place \in Phases BY <1>2, Moving DEF GoesTo
<1>3. CASE place \notin Phases BY <1>1, <1>3, Moving DEF GoesTo
<1> QED BY <1>2, <1>3

(* The coroutine c reads the record.                                            *)
Read(c, place) ==
  /\ HandsTyped /\ OtherStays(c)
  /\ at'[c] = place /\ got'[c] = got[c] /\ seen'[c] = item
  /\ excuses' = excuses \cup Raced(c)

LEMMA Reading ==
  ASSUME Typed, NEW c \in Coroutines, NEW place \in Places,
         at' = [at EXCEPT ![c] = place], seen' = [seen EXCEPT ![c] = item], UNCHANGED got
  PROVE  /\ HandsTyped /\ OtherStays(c)
         /\ at'[c] = place /\ got'[c] = got[c] /\ seen'[c] = item
<1>1. at \in [Coroutines -> Places] /\ seen \in [Coroutines -> Docs] /\ got \in [Coroutines -> Nat]
      /\ item \in Docs
  BY DEF Typed
<1> QED BY <1>1 DEF HandsTyped, OtherStays

(* The other variables, and the ranges.                                         *)
RestTyped ==
  /\ item' \in Docs /\ item'.job \in 0 .. Len(jobs)
  /\ tasks' \in Seq({"running", "succeeded", "failed", "gone"})
  /\ jobs' \in Seq(JobRecords) /\ Len(jobs) <= Len(jobs')
  /\ numbers' \in Seq(Activations)
  /\ excuses' \in SUBSET Excuses
  /\ events' \in Nat

LEMMA MovedTyped ==
  ASSUME Typed, RestTyped, NEW c \in Coroutines, NEW place \in Places, NEW thing \in Nat,
         Moved(c, place, thing), place # "job", place = "tracks" => thing \in 1 .. Len(jobs')
  PROVE  Typed'
<1>1. Len(jobs) \in Nat /\ Len(jobs') \in Nat
  BY DEF Typed, RestTyped
<1>2. ASSUME NEW d \in Coroutines PROVE seen'[d].job \in 0 .. Len(jobs')
  <2>1. seen[d].job \in 0 .. Len(jobs')
    BY <1>1 DEF Typed, RestTyped
  <2>2. CASE d # c BY <2>1, <2>2 DEF Moved, OtherStays
  <2>3. CASE d = c
    <3>1. seen'[c] = Blank \/ seen'[c] = seen[c] BY DEF Moved
    <3> QED BY <1>1, <2>1, <2>3, <3>1, BlankTyped
  <2> QED BY <2>2, <2>3
<1>3. \A d \in Coroutines : at'[d] = "tracks" => got'[d] \in 1 .. Len(jobs')
  BY <1>1 DEF Typed, RestTyped, Moved, OtherStays
<1>4. at'["tick"] = "job" => seen'["tick"].job # 0
  BY CoroutineFacts DEF Typed, RestTyped, Moved, OtherStays
<1>5. item'.job \in 0 .. Len(jobs')
  BY <1>1 DEF RestTyped
<1> QED BY <1>2, <1>3, <1>4, <1>5 DEF Typed, RestTyped, Moved, HandsTyped

------------------------------------------------------------------------------
(* What the documents say that the code writes.                                 *)

Says(doc, id, stage, extraction, payment, job, number, sms, attempt, retry) ==
  /\ doc \in Docs
  /\ doc.id = id /\ doc.stage = stage /\ doc.extraction = extraction
  /\ doc.payment = payment /\ doc.job = job /\ doc.number = number
  /\ doc.sms = sms /\ doc.attempt = attempt /\ doc.paymentRetry = retry

Same(doc, d) == Says(doc, d.id, d.stage, d.extraction, d.payment, d.job, d.number,
                     d.sms, d.attempt, d.paymentRetry)

LEMMA Unsaid ==
  ASSUME NEW d \in Docs
  PROVE  Same(d, d)
  BY DEF Same, Says

LEMMA CreatedSays ==
  ASSUME NEW d \in Docs
  PROVE  Says([Blank EXCEPT !.id = d.id + 1, !.stage = "eligible"],
              d.id + 1, "eligible", "pending", "pending", 0, 0,
              "none", 0, 0)
<1>1. d.id \in Nat /\ d.id + 1 \in Nat BY DEF Docs
<1> QED BY <1>1 DEF Says, Docs, Stages, Extractions, Payments, SmsStatuses, Blank

LEMMA ReadySays ==
  ASSUME NEW d \in Docs, NEW t \in Nat
  PROVE  Says([d EXCEPT !.stage = "payment_ready", !.extraction = "succeeded",
                        !.payment = "pending", !.link = t],
              d.id, "payment_ready", "succeeded", "pending", d.job, d.number,
              d.sms, d.attempt, d.paymentRetry)
  BY DEF Says, Docs, Stages, Extractions, Payments, SmsStatuses

LEMMA RunningSays ==
  ASSUME NEW d \in Docs
  PROVE  Says([d EXCEPT !.extraction = "running"],
              d.id, d.stage, "running", d.payment, d.job, d.number,
              d.sms, d.attempt, d.paymentRetry)
  BY DEF Says, Docs, Stages, Extractions, Payments, SmsStatuses

LEMMA ExtractionFailedSays ==
  ASSUME NEW d \in Docs
  PROVE  Says(ExtractionFailed(d),
              d.id, "extraction_failed", "failed", d.payment, d.job, d.number,
              d.sms, d.attempt, d.paymentRetry)
  BY DEF Says, Docs, Stages, Extractions, Payments, SmsStatuses, ExtractionFailed

LEMMA ExtractingSays ==
  ASSUME NEW d \in Docs, NEW t \in Nat
  PROVE  Says([d EXCEPT !.stage = "extracting", !.extraction = "running",
                        !.task = t],
              d.id, "extracting", "running", d.payment, d.job, d.number,
              d.sms, d.attempt, d.paymentRetry)
  BY DEF Says, Docs, Stages, Extractions, Payments, SmsStatuses

LEMMA RetriedSays ==
  ASSUME NEW d \in Docs
  PROVE  Says([d EXCEPT !.stage = "eligible", !.extraction = "pending",
                        !.task = 0, !.extractionRetry = @ + 1],
              d.id, "eligible", "pending", d.payment, d.job, d.number,
              d.sms, d.attempt, d.paymentRetry)
<1>1. d.extractionRetry \in Nat /\ d.extractionRetry + 1 \in Nat BY DEF Docs
<1> QED BY <1>1 DEF Says, Docs, Stages, Extractions, Payments, SmsStatuses

LEMMA NumberSays ==
  ASSUME NEW d \in Docs, NEW n \in Nat, NEW a \in Nat
  PROVE  Says([d EXCEPT !.number = n, !.sms = "waiting", !.attempt = a],
              d.id, d.stage, d.extraction, d.payment, d.job, n,
              "waiting", a, d.paymentRetry)
  BY DEF Says, Docs, Stages, Extractions, Payments, SmsStatuses

LEMMA TrackedSays ==
  ASSUME NEW d \in Docs, NEW k \in Nat
  PROVE  Says([d EXCEPT !.stage = "paying", !.payment = "running", !.job = k],
              d.id, "paying", d.extraction, "running", k, d.number,
              d.sms, d.attempt, d.paymentRetry)
  BY DEF Says, Docs, Stages, Extractions, Payments, SmsStatuses

LEMMA PayingSays ==
  ASSUME NEW d \in Docs
  PROVE  Says([d EXCEPT !.stage = "paying", !.payment = "running"],
              d.id, "paying", d.extraction, "running", d.job, d.number,
              d.sms, d.attempt, d.paymentRetry)
  BY DEF Says, Docs, Stages, Extractions, Payments, SmsStatuses

LEMMA PromptedSays ==
  ASSUME NEW d \in Docs
  PROVE  Says([d EXCEPT !.stage = "payment_waiting_otp", !.payment = "awaiting_otp"],
              d.id, "payment_waiting_otp", d.extraction, "awaiting_otp", d.job, d.number,
              d.sms, d.attempt, d.paymentRetry)
  BY DEF Says, Docs, Stages, Extractions, Payments, SmsStatuses

LEMMA PaidSays ==
  ASSUME NEW d \in Docs
  PROVE  Says([d EXCEPT !.stage = "paid", !.payment = "completed",
                        !.sms = "completed"],
              d.id, "paid", d.extraction, "completed", d.job, d.number,
              "completed", d.attempt, d.paymentRetry)
  BY DEF Says, Docs, Stages, Extractions, Payments, SmsStatuses

LEMMA RetrySays ==
  ASSUME NEW d \in Docs
  PROVE  Says([d EXCEPT !.sms = "cancel_retry"],
              d.id, d.stage, d.extraction, d.payment, d.job, d.number,
              "cancel_retry", d.attempt, d.paymentRetry)
  BY DEF Says, Docs, Stages, Extractions, Payments, SmsStatuses

LEMMA SubmittedSays ==
  ASSUME NEW d \in Docs
  PROVE  Says([d EXCEPT !.stage = "paying", !.payment = "running",
                        !.sms = "code_submitted"],
              d.id, "paying", d.extraction, "running", d.job, d.number,
              "code_submitted", d.attempt, d.paymentRetry)
  BY DEF Says, Docs, Stages, Extractions, Payments, SmsStatuses

LEMMA FailedSays ==
  ASSUME NEW d \in Docs
  PROVE  Says(PaymentFailed(d),
              d.id, "payment_failed", d.extraction, "failed", d.job, d.number,
              d.sms, d.attempt, d.paymentRetry)
  BY DEF Says, Docs, Stages, Extractions, Payments, SmsStatuses, PaymentFailed

LEMMA CancelledSays ==
  ASSUME NEW d \in Docs
  PROVE  Says([PaymentFailed(d) EXCEPT !.sms = "cancelled"],
              d.id, "payment_failed", d.extraction, "failed", d.job, d.number,
              "cancelled", d.attempt, d.paymentRetry)
  BY DEF Says, Docs, Stages, Extractions, Payments, SmsStatuses, PaymentFailed

LEMMA ArchivedSays ==
  ASSUME NEW d \in Docs
  PROVE  Says([d EXCEPT !.stage = "archived"],
              d.id, "archived", d.extraction, d.payment, d.job, d.number,
              d.sms, d.attempt, d.paymentRetry)
  BY DEF Says, Docs, Stages, Extractions, Payments, SmsStatuses

LEMMA DeletedSays ==
  ASSUME NEW d \in Docs
  PROVE  Says([Blank EXCEPT !.id = d.id],
              d.id, "absent", "pending", "pending", 0, 0,
              "none", 0, 0)
  BY DEF Says, Docs, Stages, Extractions, Payments, SmsStatuses, Blank

LEMMA ExpiredSays ==
  ASSUME NEW d \in Docs
  PROVE  Says([WithoutPayment(d, "failed") EXCEPT
                 !.stage = "payment_failed", !.extraction = "succeeded"],
              d.id, "payment_failed", "succeeded", "failed", 0, 0,
              "none", 0, d.paymentRetry)
  BY DEF Says, Docs, Stages, Extractions, Payments, SmsStatuses, WithoutPayment

LEMMA LapsedSays ==
  ASSUME NEW d \in Docs
  PROVE  Says([WithoutPayment(d, "failed") EXCEPT !.stage = "payment_failed"],
              d.id, "payment_failed", d.extraction, "failed", 0, 0,
              "none", 0, d.paymentRetry)
  BY DEF Says, Docs, Stages, Extractions, Payments, SmsStatuses, WithoutPayment

LEMMA RequeuedSays ==
  ASSUME NEW d \in Docs
  PROVE  Says([WithoutPayment(d, "pending") EXCEPT
                 !.stage = "payment_ready", !.paymentRetry = @ + 1],
              d.id, "payment_ready", d.extraction, "pending", 0, 0,
              "none", 0, d.paymentRetry + 1)
<1>1. d.paymentRetry \in Nat /\ d.paymentRetry + 1 \in Nat BY DEF Docs
<1> QED BY <1>1 DEF Says, Docs, Stages, Extractions, Payments, SmsStatuses, WithoutPayment

LEMMA ResetSays ==
  ASSUME NEW d \in Docs
  PROVE  Says([WithoutPayment(d, "pending") EXCEPT
                 !.stage = "eligible", !.extraction = "pending", !.task = 0, !.link = 0],
              d.id, "eligible", "pending", "pending", 0, 0,
              "none", 0, d.paymentRetry)
  BY DEF Says, Docs, Stages, Extractions, Payments, SmsStatuses, WithoutPayment

LEMMA AgainSays ==
  ASSUME NEW d \in Docs
  PROVE  Says([WithoutPayment(d, "pending") EXCEPT !.stage = "payment_ready"],
              d.id, "payment_ready", d.extraction, "pending", 0, 0,
              "none", 0, d.paymentRetry)
  BY DEF Says, Docs, Stages, Extractions, Payments, SmsStatuses, WithoutPayment

------------------------------------------------------------------------------
(* What an action does to the other variables, by its type.                     *)

Written == item' \in Docs /\ item'.job \in 0 .. Len(jobs)
TasksKept == tasks' \in Seq({"running", "succeeded", "failed", "gone"})
JobsKept == jobs' \in Seq(JobRecords) /\ Len(jobs) <= Len(jobs')
NumbersKept == numbers' \in Seq(Activations)
Noticed == excuses' \in SUBSET Excuses /\ events' \in Nat

LEMMA RestTypedFrom ==
  ASSUME Written, TasksKept, JobsKept, NumbersKept, Noticed
  PROVE  RestTyped
  BY DEF Written, TasksKept, JobsKept, NumbersKept, Noticed, RestTyped

LEMMA NothingWritten ==
  ASSUME Typed
  PROVE  /\ item' = item => Written
         /\ tasks' = tasks => TasksKept
         /\ jobs' = jobs => JobsKept
         /\ numbers' = numbers => NumbersKept
         /\ excuses' = excuses /\ events' = events => Noticed
<1>1. Len(jobs) \in Nat BY DEF Typed
<1> QED BY <1>1 DEF Typed, Written, TasksKept, JobsKept, NumbersKept, Noticed

LEMMA DocWritten ==
  ASSUME Typed, NEW c \in Coroutines, NEW doc \in Docs, doc.job \in 0 .. Len(jobs),
         Writes(c, doc)
  PROVE  Written
  BY DEF Typed, Written, Writes

(* The same for a document whose job is that of the record, or none.            *)
LEMMA SaidWritten ==
  ASSUME Typed, NEW c \in Coroutines, NEW doc,
         NEW id, NEW stage, NEW extraction, NEW payment, NEW job, NEW number, NEW sms,
         NEW attempt, NEW retry,
         Says(doc, id, stage, extraction, payment, job, number, sms, attempt, retry),
         job \in 0 .. Len(jobs)
  PROVE  /\ Writes(c, doc) => Written
         /\ item' = doc => Written
  BY DocWritten DEF Says, Written

LEMMA EventsTyped ==
  ASSUME Typed, NEW c \in Coroutines
  PROVE  /\ Trouble(c) => events' \in Nat
         /\ Happens => events' \in Nat
         /\ \A R \in SUBSET Excuses : Excused(R) => excuses' \in SUBSET Excuses
         /\ excuses' = excuses => excuses' \in SUBSET Excuses
         /\ events' = events => events' \in Nat
<1>1. events \in Nat /\ excuses \in SUBSET Excuses BY DEF Typed
<1> QED BY <1>1 DEF Trouble, Happens, Excused

LEMMA NumbersReleased ==
  ASSUME NEW s \in Seq(Activations), NEW n \in Nat, NEW how \in Activations
  PROVE  /\ [s EXCEPT ![n] = how] \in Seq(Activations)
         /\ Len([s EXCEPT ![n] = how]) = Len(s)
         /\ \A m \in DOMAIN s : [s EXCEPT ![n] = how][m] = IF m = n THEN how ELSE s[m]
<1>1. s \in [1 .. Len(s) -> Activations] /\ Len(s) \in Nat
  OBVIOUS
<1>2. [s EXCEPT ![n] = how] \in [1 .. Len(s) -> Activations]
  BY <1>1
<1>3. [s EXCEPT ![n] = how] \in Seq(Activations)
  BY <1>1, <1>2
<1>4. Len([s EXCEPT ![n] = how]) = Len(s)
  BY <1>1, <1>2, <1>3
<1> QED BY <1>1, <1>3, <1>4

LEMMA Releasing ==
  ASSUME Typed, NEW n \in Nat
  PROVE  /\ Released(n) \in Seq(Activations)
         /\ Len(Released(n)) = Len(numbers)
         /\ \A m \in DOMAIN numbers :
              Released(n)[m] = IF m = n /\ n # 0 /\ numbers[n] = "active"
                               THEN "over" ELSE numbers[m]
<1>1. numbers \in Seq(Activations) /\ "over" \in Activations
  BY DEF Typed, Activations
<1>2. CASE InUse(n)
  BY <1>1, <1>2, NumbersReleased DEF Released, InUse
<1>3. CASE ~InUse(n)
  BY <1>1, <1>3 DEF Released, InUse
<1> QED BY <1>2, <1>3

LEMMA ReleasesTyped ==
  ASSUME Typed, NEW c \in Coroutines, NEW n \in Nat
  PROVE  /\ numbers' = Released(n) => NumbersKept
         /\ Releases(n) => NumbersKept /\ Noticed
         /\ ReleaseRefused(c, n) => NumbersKept /\ Noticed
<1>1. ReleaseRefused(c, n) => NumbersKept /\ Noticed
  BY EventsTyped DEF ReleaseRefused, Typed, NumbersKept, Noticed, Excuses
<1>2. Releases(n) => NumbersKept /\ Noticed
  BY Releasing DEF Releases, Typed, NumbersKept, Noticed
<1> QED BY <1>1, <1>2, Releasing DEF NumbersKept

LEMMA BuyingTyped ==
  ASSUME Typed
  PROVE  /\ numbers' = Append(numbers, "active") => NumbersKept
         /\ tasks' = Append(tasks, "running") => TasksKept
         /\ Len(numbers) + 1 \in Nat /\ Len(tasks) + 1 \in Nat /\ Len(jobs) + 1 \in Nat
<1>1. tasks \in Seq({"running", "succeeded", "failed", "gone"}) /\ numbers \in Seq(Activations)
      /\ jobs \in Seq(JobRecords) /\ "active" \in Activations
  BY DEF Typed, Activations
<1>2. Len(numbers) + 1 \in Nat /\ Len(tasks) + 1 \in Nat /\ Len(jobs) + 1 \in Nat
  BY <1>1
<1>3. Append(numbers, "active") \in Seq(Activations)
  BY <1>1
<1>4. Append(tasks, "running") \in Seq({"running", "succeeded", "failed", "gone"})
  BY <1>1
<1> QED BY <1>2, <1>3, <1>4 DEF NumbersKept, TasksKept

LEMMA AnsweringTyped ==
  ASSUME Typed, NEW c \in Coroutines
  PROVE  /\ Asks(c) => Answered(c) \in Seq(JobRecords) /\ Len(Answered(c)) = Len(jobs)
         /\ Asks(c) => \A k \in DOMAIN jobs :
              Answered(c)[k] = IF k = seen[c].job THEN [jobs[k] EXCEPT !.status = "running"]
                                                  ELSE jobs[k]
         /\ jobs' = Append(jobs, NewJob(c)) =>
              /\ JobsKept /\ Len(jobs') = Len(jobs) + 1
              /\ jobs'[Len(jobs) + 1] = NewJob(c)
              /\ \A k \in DOMAIN jobs : jobs'[k] = jobs[k]
<1>1. jobs \in Seq(JobRecords) /\ seen[c].job \in 0 .. Len(jobs) /\ seen[c].link \in Nat
  BY DEF Typed, Docs
<1>2. NewJob(c) \in JobRecords
  BY <1>1 DEF NewJob, JobRecords, JobStatuses
<1>3. ASSUME Asks(c)
      PROVE  /\ Answered(c) \in Seq(JobRecords) /\ Len(Answered(c)) = Len(jobs)
             /\ \A k \in DOMAIN jobs :
                  Answered(c)[k] = IF k = seen[c].job THEN [jobs[k] EXCEPT !.status = "running"]
                                                      ELSE jobs[k]
  <2> DEFINE k == seen[c].job
             r == [jobs[k] EXCEPT !.status = "running"]
  <2>1. k \in DOMAIN jobs
    BY <1>1, <1>3 DEF Asks
  <2>2. jobs[k] \in JobRecords
    BY <1>1, <2>1
  <2>3. r \in JobRecords
    BY <2>2 DEF JobRecords, JobStatuses
  <2>4. Answered(c) = [jobs EXCEPT ![k] = r]
    BY DEF Answered
  <2> HIDE DEF k, r
  <2>5. /\ [jobs EXCEPT ![k] = r] \in Seq(JobRecords)
        /\ Len([jobs EXCEPT ![k] = r]) = Len(jobs)
        /\ \A m \in DOMAIN jobs : [jobs EXCEPT ![k] = r][m] = IF m = k THEN r ELSE jobs[m]
    BY <1>1, <2>1, <2>3
  <2> QED BY <2>4, <2>5 DEF k, r
<1>4. ASSUME jobs' = Append(jobs, NewJob(c))
      PROVE  /\ JobsKept /\ Len(jobs') = Len(jobs) + 1
             /\ jobs'[Len(jobs) + 1] = NewJob(c)
             /\ \A k \in DOMAIN jobs : jobs'[k] = jobs[k]
  BY <1>1, <1>2, <1>4 DEF JobsKept
<1> QED BY <1>3, <1>4

------------------------------------------------------------------------------
(* Every step keeps the types.                                                  *)

LEMMA GoesTyped ==
  ASSUME Typed, NEW c \in Coroutines, NEW place \in Places \ {"job", "tracks"},
         GoesTo(c, place), Written, TasksKept, JobsKept, NumbersKept, Noticed
  PROVE  Typed'
<1>1. RestTyped BY RestTypedFrom
<1>2. got[c] \in Nat BY DEF Typed
<1> QED BY <1>1, <1>2, Going, MovedTyped

LEMMA LeavesTyped ==
  ASSUME Typed, NEW c \in Coroutines, NEW phase \in Phases,
         Leaves(c, phase), Written, TasksKept, JobsKept, NumbersKept, Noticed
  PROVE  Typed'
<1>1. {phase, "idle"} \subseteq Places \ {"job", "tracks"}
  BY DEF Phases, Places, JobStatuses, Starting, Rotating
<1> QED BY <1>1, GoesTyped DEF Leaves

LEMMA ReadsTyped ==
  ASSUME Typed, NEW c \in Coroutines, NEW place \in Places \ {"tracks"},
         at' = [at EXCEPT ![c] = place], seen' = [seen EXCEPT ![c] = item],
         UNCHANGED <<got, item, tasks, jobs, numbers>>, Noticed,
         place = "job" => item.job # 0
  PROVE  Typed'
<1>1. /\ HandsTyped /\ OtherStays(c)
      /\ at'[c] = place /\ got'[c] = got[c] /\ seen'[c] = item
  BY Reading
<1>2. at'["tick"] = "job" => seen'["tick"].job # 0
  BY <1>1, CoroutineFacts DEF Typed, OtherStays
<1>3. \A d \in Coroutines : seen'[d].job \in 0 .. Len(jobs)
  BY <1>1 DEF Typed, OtherStays
<1>4. \A d \in Coroutines : at'[d] = "tracks" => got'[d] \in 1 .. Len(jobs)
  BY <1>1 DEF Typed, OtherStays
<1> QED BY <1>1, <1>2, <1>3, <1>4 DEF Typed, HandsTyped, Noticed

LEMMA OutsideTyped ==
  ASSUME Typed, UNCHANGED <<item, at, seen, got>>,
         TasksKept, JobsKept, NumbersKept, Noticed
  PROVE  Typed'
<1>1. \A n \in Nat : n \in 0 .. Len(jobs) => n \in 0 .. Len(jobs')
  BY DEF Typed, JobsKept
<1>2. \A n \in Nat : n \in 1 .. Len(jobs) => n \in 1 .. Len(jobs')
  BY DEF Typed, JobsKept
<1>3. item.job \in Nat /\ \A c \in Coroutines : seen[c].job \in Nat /\ got[c] \in Nat
  BY DEF Typed, Docs
<1> QED BY <1>1, <1>2, <1>3 DEF Typed, TasksKept, JobsKept, NumbersKept, Noticed

(* The numbers of what is at hand.                                              *)
LEMMA NatsAtHand ==
  ASSUME Typed, NEW c \in Coroutines
  PROVE  /\ seen[c].task \in Nat /\ seen[c].number \in Nat /\ seen[c].attempt \in Nat
         /\ seen[c].job \in Nat /\ got[c] \in Nat /\ item.job \in 0 .. Len(jobs)
         /\ item \in Docs /\ seen[c] \in Docs /\ 0 \in 0 .. Len(jobs)
<1>1. item \in Docs /\ seen[c] \in Docs /\ got[c] \in Nat /\ item.job \in 0 .. Len(jobs)
  BY DEF Typed
<1>2. 0 \in 0 .. Len(jobs) BY DEF Typed
<1>3. item.job \in Nat BY <1>1 DEF Docs
<1> QED BY <1>1, <1>2, <1>3 DEF Docs

LEMMA TickBeginsTyped == ASSUME Typed, TickBegins PROVE Typed'
<1>1. Written
  BY CoroutineFacts, NatsAtHand, CreatedSays, SaidWritten, NothingWritten DEF TickBegins
<1>2. "extractions" \in Places \ {"job", "tracks"} BY DEF Places, Phases
<1> QED BY <1>1, <1>2, CoroutineFacts, NothingWritten, GoesTyped
       DEF TickBegins, services, outside

LEMMA FindsTyped ==
  ASSUME Typed, NEW phase, NEW found \in BOOLEAN, NEW place \in Places \ {"tracks"},
         NEW next \in Phases, Finds(phase, found, place, next),
         place = "job" /\ found => item.job # 0
  PROVE  Typed'
<1>1. next \in Places \ {"job", "tracks"}
  BY DEF Phases, Places
<1>2. \A c \in Coroutines : Raced(c) \in SUBSET Excuses
  BY DEF Raced, Excuses
<1>3. CASE found
  BY <1>2, <1>3, CoroutineFacts, NothingWritten, EventsTyped, ReadsTyped
     DEF Finds, Reads, Noticed, services
<1>4. CASE ~found
  BY <1>1, <1>4, CoroutineFacts, NothingWritten, GoesTyped DEF Finds, services
<1> QED BY <1>3, <1>4

LEMMA FindingTyped ==
  ASSUME Typed, FindExtraction \/ FindPayment \/ FindEligible \/ FindReady
  PROVE  Typed'
<1> USE DEF Phases, Places, JobStatuses, Starting, Rotating
<1>1. CASE FindExtraction BY <1>1, FindsTyped DEF FindExtraction
<1>2. CASE FindPayment BY <1>2, FindsTyped DEF FindPayment
<1>3. CASE FindEligible BY <1>3, FindsTyped DEF FindEligible, Waiting
<1>4. CASE FindReady
  <2>1. Finds("pay", Payable, "checks", "idle") BY <1>4 DEF FindReady, Finds
  <2> QED BY <2>1, FindsTyped DEF Payable
<1> QED BY <1>1, <1>2, <1>3, <1>4

LEMMA SettleExtractionTyped == ASSUME Typed, SettleExtraction PROVE Typed'
<1>1. Written
  BY CoroutineFacts, NatsAtHand, ReadySays, RunningSays, ExtractionFailedSays, SaidWritten
     DEF SettleExtraction
<1>2. "payments" \in Places \ {"job", "tracks"} BY DEF Places, Phases
<1> QED BY <1>1, <1>2, CoroutineFacts, NothingWritten, GoesTyped
       DEF SettleExtraction, services, outside

LEMMA CreateTaskTyped ==
  ASSUME Typed, NEW c \in Coroutines, CreateTask(c) PROVE Typed'
<1>1. CASE /\ tasks' = Append(tasks, "running")
           /\ GoesWith(c, "begins", Len(tasks) + 1)
           /\ UNCHANGED <<item, events>>
  <2>1. RestTyped
    BY <1>1, BuyingTyped, NothingWritten, RestTypedFrom DEF CreateTask
  <2>2. "begins" \in Places BY DEF Places
  <2> QED BY <1>1, <2>1, <2>2, BuyingTyped, Moving, MovedTyped
<1>2. CASE /\ UNCHANGED events \/ Trouble(c)
           /\ Writes(c, ExtractionFailed(item)) /\ Leaves(c, "pay") /\ UNCHANGED tasks
  <2>1. Written BY <1>2, NatsAtHand, ExtractionFailedSays, SaidWritten
  <2>2. Noticed BY <1>2, EventsTyped DEF CreateTask, Noticed
  <2>3. "pay" \in Phases BY DEF Phases
  <2> QED BY <1>2, <2>1, <2>2, <2>3, NothingWritten, LeavesTyped DEF CreateTask
<1>3. CASE GoesTo(c, "idle") /\ UNCHANGED <<item, tasks, events>>
  <2>1. "idle" \in Places \ {"job", "tracks"} BY DEF Places, Phases
  <2> QED BY <1>3, <2>1, NothingWritten, GoesTyped DEF CreateTask
<1> QED BY <1>1, <1>2, <1>3 DEF CreateTask

LEMMA BeginExtractionTyped ==
  ASSUME Typed, NEW c \in Coroutines, BeginExtraction(c) PROVE Typed'
<1>1. Written BY NatsAtHand, ExtractingSays, SaidWritten DEF BeginExtraction
<1>2. "pay" \in Phases BY DEF Phases
<1> QED BY <1>1, <1>2, NothingWritten, LeavesTyped DEF BeginExtraction, services, outside

LEMMA CheckPaymentTyped ==
  ASSUME Typed, NEW c \in Coroutines, CheckPayment(c) PROVE Typed'
<1>1. Written
  BY NatsAtHand, NothingWritten, ExpiredSays, SaidWritten DEF CheckPayment, Expires
<1>2. {"buys", "posts", "idle"} \subseteq Places \ {"job", "tracks"}
  BY DEF Places, Phases, Starting
<1> QED BY <1>1, <1>2, NothingWritten, GoesTyped DEF CheckPayment, services, outside

LEMMA BuyNumberTyped ==
  ASSUME Typed, NEW c \in Coroutines, BuyNumber(c) PROVE Typed'
<1>1. CASE /\ numbers' = Append(numbers, "active")
           /\ GoesWith(c, IF At(c, "buys") THEN "notes" ELSE "renotes", Len(numbers) + 1)
           /\ UNCHANGED <<item, events, excuses>>
  <2>1. RestTyped
    BY <1>1, BuyingTyped, NothingWritten, RestTypedFrom DEF BuyNumber
  <2>2. {"notes", "renotes"} \subseteq Places BY DEF Places, Starting, Rotating
  <2> QED BY <1>1, <2>1, <2>2, BuyingTyped, Moving, MovedTyped
<1>2. CASE /\ \/ UNCHANGED <<numbers, events, excuses>>
              \/ Trouble(c) /\ UNCHANGED <<numbers, excuses>>
              \/ Trouble(c) /\ numbers' = Append(numbers, "active") /\ Excused({"blind"})
           /\ Writes(c, PaymentFailed(item))
           /\ GoesTo(c, IF At(c, "buys") THEN "idle" ELSE "expiry")
  <2>1. Written BY <1>2, NatsAtHand, FailedSays, SaidWritten
  <2>2. Noticed BY <1>2, EventsTyped DEF Noticed, Excuses
  <2>3. NumbersKept BY <1>2, BuyingTyped, NothingWritten
  <2>4. {"idle", "expiry"} \subseteq Places \ {"job", "tracks"} BY DEF Places, Phases
  <2> QED BY <1>2, <2>1, <2>2, <2>3, <2>4, NothingWritten, GoesTyped DEF BuyNumber
<1> QED BY <1>1, <1>2 DEF BuyNumber

LEMMA NoteNumberTyped ==
  ASSUME Typed, NEW c \in Coroutines, NoteNumber(c) PROVE Typed'
<1>1. Written
  <2>1. (IF At(c, "notes") THEN 1 ELSE seen[c].attempt + 1) \in Nat BY NatsAtHand
  <2> QED BY <2>1, NatsAtHand, NumberSays, SaidWritten DEF NoteNumber, WithNumber
<1>2. {"posts", "tells"} \subseteq Places \ {"job", "tracks"}
  BY DEF Places, Starting, Rotating
<1> QED BY <1>1, <1>2, NothingWritten, GoesTyped DEF NoteNumber, services, outside

LEMMA PostJobTyped ==
  ASSUME Typed, NEW c \in Coroutines, PostJob(c) PROVE Typed'
<1>1. RestTyped
  BY AnsweringTyped, NothingWritten, RestTypedFrom DEF PostJob, outside
<1>2. "tracks" \in Places /\ "tracks" # "job" BY DEF Places, Starting
<1>3. Len(jobs) + 1 \in 1 .. Len(jobs') /\ Len(jobs) + 1 \in Nat
  BY AnsweringTyped DEF PostJob, Typed
<1> QED BY <1>1, <1>2, <1>3, Moving, MovedTyped DEF PostJob

LEMMA PostJobFailsTyped ==
  ASSUME Typed, NEW c \in Coroutines, PostJobFails(c) PROVE Typed'
<1>1. Written BY NatsAtHand, FailedSays, SaidWritten DEF PostJobFails
<1>2. JobsKept BY AnsweringTyped, NothingWritten DEF PostJobFails
<1>3. NumbersKept /\ Noticed
  <2>1. CASE Releases(got[c]) \/ ReleaseRefused(c, got[c])
    BY <2>1, NatsAtHand, ReleasesTyped
  <2>2. CASE /\ Trouble(c) /\ numbers' = Released(got[c])
             /\ UNCHANGED excuses \/ Excused({"blind"})
    BY <2>2, NatsAtHand, ReleasesTyped, EventsTyped DEF Noticed, Excuses
  <2> QED BY <2>1, <2>2 DEF PostJobFails
<1>4. "idle" \in Places \ {"job", "tracks"} BY DEF Places, Phases
<1> QED BY <1>1, <1>2, <1>3, <1>4, NothingWritten, GoesTyped DEF PostJobFails

LEMMA TrackJobTyped ==
  ASSUME Typed, NEW c \in Coroutines, TrackJob(c) PROVE Typed'
<1>1. Written
  <2>1. got[c] \in 0 .. Len(jobs) BY DEF TrackJob, At, Typed
  <2> QED BY <2>1, NatsAtHand, TrackedSays, SaidWritten DEF TrackJob
<1>2. "idle" \in Places \ {"job", "tracks"} BY DEF Places, Phases
<1> QED BY <1>1, <1>2, NothingWritten, GoesTyped DEF TrackJob, services, outside

LEMMA GetJobTyped == ASSUME Typed, GetJob PROVE Typed'
<1> DEFINE k == seen["tick"].job
<1>1. jobs[k].status \in JobStatuses
  <2>1. k \in 1 .. Len(jobs)
    BY CoroutineFacts, NatsAtHand DEF GetJob, At, Typed
  <2>2. jobs[k] \in JobRecords BY <2>1 DEF Typed
  <2> QED BY <2>2 DEF JobRecords
<1>2. JobStatuses \cup {"expiry", "idle"} \subseteq Places \ {"job", "tracks"}
  BY DEF Places, Phases, JobStatuses
<1>3. Written /\ Noticed
  BY CoroutineFacts, NatsAtHand, NothingWritten, FailedSays, SaidWritten, EventsTyped
     DEF GetJob, Noticed
<1>4. \E place \in JobStatuses \cup {"expiry", "idle"} : GoesTo("tick", place)
  BY <1>1 DEF GetJob
<1> HIDE DEF k
<1> QED BY <1>2, <1>3, <1>4, CoroutineFacts, NothingWritten, GoesTyped
       DEF GetJob, services, outside

LEMMA SettlesTyped ==
  ASSUME Typed, SettleRunning \/ SettleAwaiting PROVE Typed'
<1>1. Written
  BY CoroutineFacts, NatsAtHand, PayingSays, PromptedSays, SaidWritten
     DEF SettleRunning, SettleAwaiting
<1>2. {"refresh", "expiry"} \subseteq Places \ {"job", "tracks"}
  BY DEF Places, Phases, Rotating
<1> QED BY <1>1, <1>2, CoroutineFacts, NothingWritten, GoesTyped
       DEF SettleRunning, SettleAwaiting, services, outside

LEMMA SettleCompletedTyped == ASSUME Typed, SettleCompleted PROVE Typed'
<1>1. Written
  BY CoroutineFacts, NatsAtHand, PaidSays, SaidWritten DEF SettleCompleted
<1>2. NumbersKept /\ Noticed
  <2>1. (IF seen["tick"].sms \in {"code_submitted", "completed"} THEN 0
         ELSE seen["tick"].number) \in Nat
    BY CoroutineFacts, NatsAtHand
  <2> QED BY <2>1, CoroutineFacts, NatsAtHand, ReleasesTyped DEF SettleCompleted
<1>3. "expiry" \in Places \ {"job", "tracks"} BY DEF Places, Phases
<1> QED BY <1>1, <1>2, <1>3, CoroutineFacts, NothingWritten, GoesTyped
       DEF SettleCompleted, outside

LEMMA SettleFailedTyped == ASSUME Typed, SettleFailed PROVE Typed'
<1>1. Written
  BY CoroutineFacts, NatsAtHand, CancelledSays, SaidWritten DEF SettleFailed
<1>2. NumbersKept /\ Noticed
  BY CoroutineFacts, NatsAtHand, ReleasesTyped DEF SettleFailed
<1>3. "expiry" \in Places \ {"job", "tracks"} BY DEF Places, Phases
<1> QED BY <1>1, <1>2, <1>3, CoroutineFacts, NothingWritten, GoesTyped
       DEF SettleFailed, outside

LEMMA RefreshTyped == ASSUME Typed, Refresh PROVE Typed'
<1>1. "sms" \in Places \ {"tracks"} /\ "expiry" \in Places \ {"job", "tracks"} /\ "sms" # "job"
  BY DEF Places, Phases, Rotating
<1>2. Raced("tick") \in SUBSET Excuses
  BY DEF Raced, Excuses
<1>3. CASE Reads("tick", "sms")
  BY <1>1, <1>2, <1>3, CoroutineFacts, NothingWritten, EventsTyped, ReadsTyped
     DEF Refresh, Reads, Noticed, services
<1>4. CASE GoesTo("tick", "expiry") /\ UNCHANGED excuses
  BY <1>1, <1>4, CoroutineFacts, NothingWritten, GoesTyped DEF Refresh, services
<1> QED BY <1>3, <1>4 DEF Refresh

LEMMA ReadSmsTyped == ASSUME Typed, ReadSms PROVE Typed'
<1>1. {"expiry", "rotates", "enters"} \subseteq Places \ {"job", "tracks"}
  BY DEF Places, Phases, Rotating
<1> QED BY <1>1, CoroutineFacts, NothingWritten, GoesTyped DEF ReadSms, services, outside

LEMMA RotateTyped == ASSUME Typed, Rotate PROVE Typed'
<1>1. Written
  BY CoroutineFacts, NatsAtHand, NothingWritten, RetrySays, FailedSays, SaidWritten DEF Rotate
<1>2. NumbersKept /\ Noticed
  BY CoroutineFacts, NatsAtHand, ReleasesTyped DEF Rotate
<1>3. {"rebuys", "expiry"} \subseteq Places \ {"job", "tracks"}
  BY DEF Places, Phases, Rotating
<1> QED BY <1>1, <1>2, <1>3, CoroutineFacts, NothingWritten, GoesTyped DEF Rotate, outside

LEMMA AnswerLostTyped ==
  ASSUME Typed, NEW c \in Coroutines, AnswerLost(c) PROVE JobsKept /\ Noticed
<1>1. Len(jobs) \in Nat BY DEF Typed
<1> QED BY <1>1, NothingWritten, AnsweringTyped, EventsTyped
       DEF AnswerLost, JobsKept, Noticed, Excuses

LEMMA EnterCodeTyped ==
  ASSUME Typed, NEW c \in Coroutines, EnterCode(c) PROVE Typed'
<1>1. Len(jobs) \in Nat BY DEF Typed
<1>2. JobsKept /\ Noticed
  BY <1>1, NothingWritten, AnsweringTyped, AnswerLostTyped DEF EnterCode, JobsKept
<1>3. {"entered", "told", "idle"} \subseteq Places \ {"job", "tracks"}
  BY DEF Places, Phases, Rotating
<1> QED BY <1>2, <1>3, NothingWritten, GoesTyped DEF EnterCode, outside

LEMMA NoteCodeTyped == ASSUME Typed, NoteCode PROVE Typed'
<1>1. Written
  BY CoroutineFacts, NatsAtHand, SubmittedSays, SaidWritten DEF NoteCode
<1>2. NumbersKept /\ Noticed
  BY CoroutineFacts, NatsAtHand, ReleasesTyped DEF NoteCode
<1>3. "expiry" \in Places \ {"job", "tracks"} BY DEF Places, Phases
<1> QED BY <1>1, <1>2, <1>3, CoroutineFacts, NothingWritten, GoesTyped DEF NoteCode, outside

LEMMA TellPhoneTyped == ASSUME Typed, TellPhone PROVE Typed'
<1>1. Written
  BY CoroutineFacts, NatsAtHand, NothingWritten, FailedSays, SaidWritten DEF TellPhone
<1>2. Len(jobs) \in Nat BY DEF Typed
<1>3. JobsKept
  BY <1>2, CoroutineFacts, NothingWritten, AnsweringTyped, AnswerLostTyped
     DEF TellPhone, JobsKept
<1>4. NumbersKept /\ Noticed
  <2>1. ASSUME AnswerLost("tick") PROVE Noticed
    BY <2>1, CoroutineFacts, AnswerLostTyped
  <2> QED BY <2>1, CoroutineFacts, NatsAtHand, NothingWritten, ReleasesTyped DEF TellPhone
<1>5. {"told", "idle", "expiry"} \subseteq Places \ {"job", "tracks"}
  BY DEF Places, Phases
<1>6. \E place \in {"told", "idle", "expiry"} : GoesTo("tick", place)
  BY DEF TellPhone
<1> QED BY <1>1, <1>3, <1>4, <1>5, <1>6, CoroutineFacts, NothingWritten, GoesTyped
       DEF TellPhone, outside

LEMMA NoteAnswerTyped ==
  ASSUME Typed, NEW c \in Coroutines, NoteAnswer(c) PROVE Typed'
<1>1. Written BY NatsAtHand, PayingSays, SaidWritten DEF NoteAnswer
<1>2. "expiry" \in Phases BY DEF Phases
<1> QED BY <1>1, <1>2, NothingWritten, LeavesTyped DEF NoteAnswer, services, outside

LEMMA MarkExpiredTyped == ASSUME Typed, MarkExpired PROVE Typed'
<1>1. Written
  BY CoroutineFacts, NatsAtHand, NothingWritten, LapsedSays, SaidWritten DEF MarkExpired
<1>2. Noticed
  <2>1. (IF item' = item THEN {} ELSE Raced("tick")) \in SUBSET Excuses
    BY DEF Raced, Excuses
  <2> QED BY <2>1, CoroutineFacts, EventsTyped DEF MarkExpired, Noticed
<1>3. "retries" \in Places \ {"job", "tracks"} BY DEF Places, Phases
<1> QED BY <1>1, <1>2, <1>3, CoroutineFacts, NothingWritten, GoesTyped
       DEF MarkExpired, services

LEMMA QueueRetriesTyped == ASSUME Typed, QueueRetries PROVE Typed'
<1>1. \/ item' = item
      \/ item' = [item EXCEPT !.stage = "eligible", !.extraction = "pending",
                              !.task = 0, !.extractionRetry = @ + 1]
      \/ item' = [WithoutPayment(item, "pending") EXCEPT
                    !.stage = "payment_ready", !.paymentRetry = @ + 1]
  BY DEF QueueRetries
<1>2. Written
  BY <1>1, CoroutineFacts, NatsAtHand, NothingWritten, RetriedSays, RequeuedSays, SaidWritten
<1>3. Noticed
  <2>1. (IF item' = item THEN {} ELSE Raced("tick")) \in SUBSET Excuses
    BY DEF Raced, Excuses
  <2> QED BY <2>1, CoroutineFacts, EventsTyped DEF QueueRetries, Noticed
<1>4. "extract" \in Places \ {"job", "tracks"} BY DEF Places, Phases
<1> QED BY <1>2, <1>3, <1>4, CoroutineFacts, NothingWritten, GoesTyped
       DEF QueueRetries, services

LEMMA RequestTyped ==
  ASSUME Typed, NEW place \in Places \ {"job", "tracks"}, NEW when, Request(place, when)
  PROVE  Typed'
<1>1. Noticed
  <2>1. {"asked"} \cup Raced("request") \in SUBSET Excuses BY DEF Raced, Excuses
  <2> QED BY <2>1, CoroutineFacts, EventsTyped DEF Request, Noticed
<1> QED BY <1>1, CoroutineFacts, ReadsTyped DEF Request, services

LEMMA AskedTyped == ASSUME Typed, Asked PROVE Typed'
<1>1. {"creates", "checks", "enters", "cancels", "deletes"} \subseteq Places \ {"job", "tracks"}
  BY DEF Places, Starting
<1> QED BY <1>1, RequestTyped
       DEF Asked, AskExtraction, AskPayment, AskOtp, AskReset, AskDelete

LEMMA StatusTyped ==
  ASSUME Typed, NEW k \in DOMAIN jobs, NEW s \in JobStatuses
  PROVE  /\ [jobs EXCEPT ![k].status = s] \in Seq(JobRecords)
         /\ Len([jobs EXCEPT ![k].status = s]) = Len(jobs)
         /\ \A m \in DOMAIN jobs :
              [jobs EXCEPT ![k].status = s][m].status = IF m = k THEN s ELSE jobs[m].status
<1> DEFINE r == [jobs[k] EXCEPT !.status = s]
<1>1. jobs \in Seq(JobRecords) /\ jobs[k] \in JobRecords BY DEF Typed
<1>2. r \in JobRecords /\ r.status = s BY <1>1 DEF JobRecords
<1>3. [jobs EXCEPT ![k].status = s] = [jobs EXCEPT ![k] = r] OBVIOUS
<1> HIDE DEF r
<1>4. /\ [jobs EXCEPT ![k] = r] \in Seq(JobRecords)
      /\ Len([jobs EXCEPT ![k] = r]) = Len(jobs)
      /\ \A m \in DOMAIN jobs : [jobs EXCEPT ![k] = r][m] = IF m = k THEN r ELSE jobs[m]
  BY <1>1, <1>2
<1> QED BY <1>2, <1>3, <1>4

LEMMA CancelJobTyped == ASSUME Typed, CancelJob PROVE Typed'
<1> DEFINE k == seen["request"].job
<1>1. k \in 0 .. Len(jobs) /\ k \in Nat /\ Len(jobs) \in Nat
  BY CoroutineFacts, NatsAtHand DEF Typed
<1>2. JobsKept
  <2>1. CASE k # 0 /\ jobs' = [jobs EXCEPT ![k].status = "cancelled"]
    <3>1. k \in DOMAIN jobs BY <1>1, <2>1 DEF Typed
    <3>2. "cancelled" \in JobStatuses BY DEF JobStatuses
    <3> HIDE DEF k
    <3> QED BY <1>1, <2>1, <3>1, <3>2, StatusTyped DEF JobsKept
  <2>2. CASE jobs' = jobs BY <2>2, NothingWritten
  <2> QED BY <2>1, <2>2 DEF CancelJob
<1>3. Noticed
  BY CoroutineFacts, EventsTyped DEF CancelJob, Noticed, Excuses
<1>4. {"rewrites", "idle"} \subseteq Places \ {"job", "tracks"} BY DEF Places, Phases
<1> QED BY <1>2, <1>3, <1>4, CoroutineFacts, NothingWritten, GoesTyped DEF CancelJob, outside

LEMMA ResetTyped == ASSUME Typed, Reset PROVE Typed'
<1>1. Written
  <2>1. ASSUME ResetExtraction PROVE Written
    BY <2>1, CoroutineFacts, NatsAtHand, ResetSays, SaidWritten DEF ResetExtraction
  <2>2. ASSUME ResetPayment PROVE Written
    <3>1. \/ UNCHANGED item
          \/ Writes("request", [WithoutPayment(item, "pending") EXCEPT
                                  !.stage = "payment_ready"])
          \/ Writes("request", [WithoutPayment(item, "failed") EXCEPT
                                  !.stage = "payment_failed", !.extraction = "succeeded"])
      BY <2>2 DEF ResetPayment, Expires
    <3> QED BY <3>1, CoroutineFacts, NatsAtHand, NothingWritten, AgainSays, ExpiredSays,
               SaidWritten
  <2> QED BY <2>1, <2>2, NothingWritten DEF Reset
<1>2. NumbersKept /\ Noticed
  BY CoroutineFacts, NatsAtHand, ReleasesTyped DEF Reset
<1>3. "idle" \in Places \ {"job", "tracks"} BY DEF Places, Phases
<1> QED BY <1>1, <1>2, <1>3, CoroutineFacts, NothingWritten, GoesTyped DEF Reset, outside

LEMMA DeleteTyped == ASSUME Typed, Delete PROVE Typed'
<1> DEFINE n == IF seen["request"].sms \in {"completed", "code_submitted"} THEN 0
                ELSE seen["request"].number
<1>1. n \in Nat BY CoroutineFacts, NatsAtHand
<1>2. Written
  BY CoroutineFacts, NatsAtHand, NothingWritten, ArchivedSays, DeletedSays, SaidWritten
     DEF Delete
<1>3. \/ ReleaseRefused("request", n)
      \/ /\ numbers' = Released(n) /\ UNCHANGED events
         /\ \E R \in SUBSET Excuses : Excused(R)
  <2>1. \A b \in BOOLEAN : (IF b THEN {"insisted"} ELSE {}) \in SUBSET Excuses
    BY DEF Excuses
  <2>2. CASE ReleaseRefused("request", n) BY <2>2
  <2>3. CASE /\ numbers' = Released(n) /\ UNCHANGED events
             /\ Excused({"insisted"}) \/ Excused({})
    BY <2>3 DEF Excuses
  <2> QED BY <2>2, <2>3 DEF Delete
<1>4. "idle" \in Places \ {"job", "tracks"} BY DEF Places, Phases
<1> HIDE DEF n
<1>5. NumbersKept /\ Noticed
  BY <1>1, <1>3, CoroutineFacts, ReleasesTyped, EventsTyped DEF Noticed
<1> QED BY <1>2, <1>4, <1>5, CoroutineFacts, NothingWritten, GoesTyped DEF Delete, outside

LEMMA TaskEndsTyped == ASSUME Typed, NEW t, TaskEnds(t) PROVE Typed'
<1>1. PICK s \in {"succeeded", "failed"} : tasks' = [tasks EXCEPT ![t] = s]
  BY DEF TaskEnds
<1>2. tasks \in Seq({"running", "succeeded", "failed", "gone"}) /\ t \in DOMAIN tasks
  BY DEF Typed, TaskEnds
<1>3. TasksKept BY <1>1, <1>2 DEF TasksKept
<1> QED BY <1>3, NothingWritten, OutsideTyped DEF TaskEnds, coroutines

LEMMA JobStepsTyped ==
  ASSUME Typed, NEW k, JobPrompts(k) \/ JobEnds(k) PROVE Typed'
<1>1. PICK s \in JobStatuses : jobs' = [jobs EXCEPT ![k].status = s]
  BY DEF JobPrompts, JobEnds, JobStatuses
<1>2. k \in DOMAIN jobs BY DEF JobPrompts, JobEnds
<1>3. JobsKept BY <1>1, <1>2, StatusTyped DEF JobsKept, Typed
<1> QED BY <1>3, NothingWritten, OutsideTyped DEF JobPrompts, JobEnds, coroutines

LEMMA NumberLapsesTyped == ASSUME Typed, NumberLapses PROVE Typed'
<1>1. PICK n \in DOMAIN numbers : numbers' = Released(n)
  BY DEF NumberLapses
<1>2. n \in Nat BY <1>1 DEF Typed
<1>3. NumbersKept BY <1>1, <1>2, CoroutineFacts, ReleasesTyped
<1>4. Noticed BY CoroutineFacts, EventsTyped DEF NumberLapses, Noticed
<1> QED BY <1>3, <1>4, NothingWritten, OutsideTyped DEF NumberLapses, coroutines

LEMMA QuietStepsTyped ==
  ASSUME Typed, (\E l : LinkAges(l)) \/ AccountLapses PROVE Typed'
<1>1. Noticed
  BY CoroutineFacts, EventsTyped DEF LinkAges, AccountLapses, Noticed
<1> QED BY <1>1, NothingWritten, OutsideTyped DEF LinkAges, AccountLapses, coroutines, services

LEMMA RestartTyped == ASSUME Typed, Restart PROVE Typed'
<1>1. tasks' \in Seq({"running", "succeeded", "failed", "gone"})
  <2>1. tasks \in Seq({"running", "succeeded", "failed", "gone"}) BY DEF Typed
  <2> QED BY <2>1 DEF Restart
<1>2. excuses' \in SUBSET Excuses /\ events' \in Nat
  BY CoroutineFacts, EventsTyped DEF Restart, Excuses
<1>3. at' \in [Coroutines -> Places] /\ \A c \in Coroutines : at'[c] = "idle"
  BY DEF Restart, Places, Phases
<1>4. seen' \in [Coroutines -> Docs] /\ \A c \in Coroutines : seen'[c] = Blank
  BY BlankTyped DEF Restart
<1>5. got' \in [Coroutines -> Nat] BY DEF Restart
<1>6. 0 \in 0 .. Len(jobs) BY DEF Typed
<1>7. item' = item /\ jobs' = jobs /\ numbers' = numbers BY DEF Restart
<1> QED BY <1>1, <1>2, <1>3, <1>4, <1>5, <1>6, <1>7, BlankTyped, CoroutineFacts DEF Typed

LEMMA SidecarRestartsTyped == ASSUME Typed, SidecarRestarts PROVE Typed'
<1> DEFINE f == [k \in DOMAIN jobs |->
                   [jobs[k] EXCEPT !.known = FALSE,
                                   !.status = IF JobLive(k) THEN "cancelled" ELSE @]]
<1>1. jobs \in Seq(JobRecords) /\ DOMAIN jobs = 1 .. Len(jobs) /\ Len(jobs) \in Nat
  BY DEF Typed
<1>2. ASSUME NEW k \in DOMAIN jobs PROVE f[k] \in JobRecords
  <2>1. jobs[k] \in JobRecords BY <1>1
  <2>2. CASE JobLive(k) BY <2>1, <2>2 DEF JobRecords, JobStatuses
  <2>3. CASE ~JobLive(k) BY <2>1, <2>3 DEF JobRecords, JobStatuses
  <2> QED BY <2>2, <2>3
<1>3. jobs' = f BY DEF SidecarRestarts
<1>4. DOMAIN f = 1 .. Len(jobs) BY <1>1
<1> HIDE DEF f
<1>5. f \in Seq(JobRecords) /\ Len(f) = Len(jobs)
  <2>1. f \in [1 .. Len(jobs) -> JobRecords]
    <3>1. f = [k \in DOMAIN jobs |-> f[k]] BY DEF f
    <3> QED BY <1>1, <1>2, <1>4, <3>1
  <2> QED BY <1>1, <2>1
<1>6. JobsKept BY <1>1, <1>3, <1>5 DEF JobsKept
<1>7. Noticed
  BY CoroutineFacts, EventsTyped DEF SidecarRestarts, Noticed, Excuses
<1> QED BY <1>6, <1>7, NothingWritten, OutsideTyped DEF SidecarRestarts, coroutines

LEMMA ReturnedTyped ==
  ASSUME Typed, NEW c \in Coroutines
  PROVE  \/ Returned(c) = numbers
         \/ \E n \in Nat : Returned(c) = Released(n)
<1>1. got[c] \in Nat /\ seen[c].number \in Nat BY NatsAtHand
<1> QED BY <1>1 DEF Returned

LEMMA DatabaseFailsTyped ==
  ASSUME Typed, NEW c \in Coroutines, DatabaseFails(c) PROVE Typed'
<1>1. Written
  BY NatsAtHand, NothingWritten, NumberSays, SaidWritten DEF DatabaseFails, WithNumber
<1>2. numbers' = Returned(c) => NumbersKept
  BY ReturnedTyped, ReleasesTyped, NothingWritten
<1>3. JobsKept
  <2>1. jobs' = Answered(c) /\ Asks(c) => JobsKept BY AnsweringTyped DEF JobsKept
  <2> QED BY <2>1, AnsweringTyped, NothingWritten DEF DatabaseFails, DoneUnanswered
<1>4. NumbersKept
  BY <1>2, BuyingTyped, NothingWritten DEF DatabaseFails, DoneUnanswered
<1>5. Noticed
  BY EventsTyped DEF DatabaseFails, Noticed, Excuses
<1>6. "idle" \in Places \ {"job", "tracks"} BY DEF Places, Phases
<1> QED BY <1>1, <1>3, <1>4, <1>5, <1>6, NothingWritten, GoesTyped DEF DatabaseFails

LEMMA StutterTyped == ASSUME Typed, UNCHANGED vars PROVE Typed'
  BY NothingWritten, OutsideTyped DEF vars, services

LEMMA TypedNext == ASSUME Typed, [Next]_vars PROVE Typed'
<1>1. CASE Tick
  BY <1>1, TickBeginsTyped, FindingTyped, SettleExtractionTyped, GetJobTyped, SettlesTyped,
     SettleCompletedTyped, SettleFailedTyped, RefreshTyped, ReadSmsTyped, RotateTyped,
     NoteCodeTyped, TellPhoneTyped, MarkExpiredTyped, QueueRetriesTyped DEF Tick
<1>2. ASSUME NEW c \in Coroutines, Step(c) PROVE Typed'
  BY <1>2, CreateTaskTyped, BeginExtractionTyped, CheckPaymentTyped, BuyNumberTyped,
     NoteNumberTyped, PostJobTyped, PostJobFailsTyped, TrackJobTyped, EnterCodeTyped,
     NoteAnswerTyped DEF Step
<1>3. CASE Outside
  BY <1>3, TaskEndsTyped, JobStepsTyped, NumberLapsesTyped, QuietStepsTyped, RestartTyped,
     SidecarRestartsTyped DEF Outside
<1>4. CASE Answers
  BY <1>4, CancelJobTyped, ResetTyped, DeleteTyped DEF Answers
<1> QED BY <1>1, <1>2, <1>3, <1>4, AskedTyped, DatabaseFailsTyped, StutterTyped DEF Next

LEMMA TypedInit == Init => Typed
<1> SUFFICES ASSUME Init PROVE Typed OBVIOUS
<1>1. item = Blank /\ tasks = <<>> /\ jobs = <<>> /\ numbers = <<>> /\ events = 0 /\ excuses = {}
  BY DEF Init
<1>2. at \in [Coroutines -> Places] /\ \A c \in Coroutines : at[c] = "idle"
  BY DEF Init, Places, Phases
<1>3. seen \in [Coroutines -> Docs] /\ \A c \in Coroutines : seen[c] = Blank
  BY BlankTyped DEF Init
<1>4. got \in [Coroutines -> Nat] BY DEF Init
<1> QED BY <1>1, <1>2, <1>3, <1>4, BlankTyped, CoroutineFacts DEF Typed

------------------------------------------------------------------------------
(* The record and the hands it is in.                                           *)

LEMMA OneHolds ==
  ASSUME Typed, Hands, NEW c \in Coroutines, Holds(c)
  PROVE  /\ \A d \in Coroutines \ {c} : at[d] \in Phases
         /\ Exists /\ item.id = seen[c].id /\ item.job = seen[c].job
         /\ \A doc : Writes(c, doc) => item' = doc
<1>1. \A d \in Coroutines \ {c} : at[d] \in Phases
  BY CoroutineFacts DEF Hands, Alone, Holds
<1> QED BY <1>1 DEF Hands, InHand, Writes

LEMMA HandedOn ==
  ASSUME Typed, Hands, NEW c \in Coroutines, Holds(c), OtherStays(c), InHand(c)', Staged(c)'
  PROVE  Hands'
<1>1. \A d \in Coroutines \ {c} : at'[d] \in Phases
  BY OneHolds DEF OtherStays
<1>2. ASSUME NEW d \in Coroutines \ {c} PROVE InHand(d)' /\ Staged(d)'
  BY <1>1 DEF InHand, Staged, Holds, Phases, Starting, Rotating, JobStatuses
<1>3. Alone' BY <1>1, CoroutineFacts DEF Alone, Holds
<1> QED BY <1>2, <1>3 DEF Hands

LEMMA PutDown ==
  ASSUME Typed, Hands, NEW c \in Coroutines, Holds(c), NEW place \in Phases, NEW thing,
         Moved(c, place, thing)
  PROVE  Hands'
<1>1. InHand(c)' /\ Staged(c)'
  BY DEF Moved, InHand, Staged, Holds, Phases, Starting, Rotating, JobStatuses
<1> QED BY <1>1, HandedOn DEF Moved

(* A coroutine that goes on to another place, its record having changed as it   *)
(* was written.                                                                 *)
LEMMA HandedAlong ==
  ASSUME Typed, Hands, NEW c \in Coroutines, Holds(c),
         NEW place \in Places \ Phases, NEW thing, Moved(c, place, thing),
         item'.stage # "absent", item'.id = item.id, item'.job = item.job,
         item'.extraction = item.extraction,
         \/ place \in {"posts", "tracks", "tells", "told"}
         \/ /\ at[c] \notin {"posts", "tracks", "tells", "told"}
            /\ item'.number = item.number /\ item'.sms = item.sms
            /\ item'.attempt = item.attempt,
         Staged(c)'
  PROVE  Hands'
<1>1. InHand(c)'
  BY DEF Hands, InHand, Moved, Holds, Exists
<1> QED BY <1>1, HandedOn DEF Moved

(* The same with the record unchanged.                                          *)
LEMMA HeldOn ==
  ASSUME Typed, Hands, NEW c \in Coroutines, Holds(c), item' = item,
         NEW place \in Places \ Phases, NEW thing, Moved(c, place, thing),
         \/ place \in {"posts", "tracks", "tells", "told"}
         \/ at[c] \notin {"posts", "tracks", "tells", "told"},
         Staged(c)'
  PROVE  Hands'
<1>1. item'.stage # "absent" BY OneHolds DEF Exists
<1> QED BY <1>1, HandedAlong

(* What a coroutine writes to the record in its hands.                          *)
Wrote(stage, extraction, payment, job, number, sms, attempt) ==
  Says(item', item.id, stage, extraction, payment, job, number, sms, attempt,
       item.paymentRetry)
Turned(stage, extraction, payment, sms) ==
  Wrote(stage, extraction, payment, item.job, item.number, sms, item.attempt)
Cleared(stage, extraction, payment) ==
  Wrote(stage, extraction, payment, 0, 0, "none", 0)
Failing(sms) == Turned("payment_failed", item.extraction, "failed", sms)

LEMMA Writing ==
  ASSUME Typed, Hands, NEW c \in Coroutines, Holds(c), NEW doc,
         NEW stage, NEW extraction, NEW payment, NEW job, NEW number, NEW sms, NEW attempt,
         Says(doc, item.id, stage, extraction, payment, job, number, sms, attempt,
              item.paymentRetry),
         Writes(c, doc)
  PROVE  Wrote(stage, extraction, payment, job, number, sms, attempt)
<1>1. item' = doc BY OneHolds
<1> QED BY <1>1 DEF Wrote, Says

LEMMA SettleExtractionShape ==
  ASSUME Typed, Hands, SettleExtraction
  PROVE  /\ at["tick"] = "task" /\ Moved("tick", "payments", 0)
         /\ \/ Turned("payment_ready", "succeeded", "pending", item.sms)
            \/ Turned(item.stage, "running", item.payment, item.sms)
            \/ Turned("extraction_failed", "failed", item.payment, item.sms)
<1>1. Holds("tick") /\ "tick" \in Coroutines /\ item \in Docs /\ seen["tick"].task \in Nat
  BY CoroutineFacts, NatsAtHand DEF SettleExtraction, At, Holds, Phases
<1>2. Moved("tick", "payments", 0) /\ at["tick"] = "task"
  BY <1>1, Going DEF SettleExtraction, At, Places, Phases
<1>3. \/ Turned("payment_ready", "succeeded", "pending", item.sms)
      \/ Turned(item.stage, "running", item.payment, item.sms)
      \/ Turned("extraction_failed", "failed", item.payment, item.sms)
  BY <1>1, ReadySays, RunningSays, ExtractionFailedSays, Writing
     DEF SettleExtraction, Turned
<1> QED BY <1>2, <1>3

LEMMA SettleExtractionHands ==
  ASSUME Typed, Sound, Hands, SettleExtraction PROVE Sound' /\ Hands'
<1>1. Holds("tick") /\ "tick" \in Coroutines /\ item.stage = "extracting"
  BY CoroutineFacts, SettleExtractionShape DEF Holds, Phases, Hands, Staged
<1>2. Sound'
  BY <1>1, SettleExtractionShape DEF Sound, Turned, Wrote, Says, Early
<1>3. Hands'
  BY <1>1, SettleExtractionShape, PutDown DEF Phases
<1> QED BY <1>2, <1>3

LEMMA CreateTaskShape ==
  ASSUME Typed, Hands, NEW c \in Coroutines, CreateTask(c)
  PROVE  /\ at[c] = "creates"
         /\ \/ Moved(c, "begins", Len(tasks) + 1) /\ item' = item
            \/ Moved(c, "idle", 0) /\ item' = item
            \/ /\ \E phase \in {"pay", "idle"} : Moved(c, phase, 0)
               /\ Turned("extraction_failed", "failed", item.payment, item.sms)
<1>1. Holds(c) /\ item \in Docs /\ at[c] = "creates"
  BY NatsAtHand DEF CreateTask, At, Holds, Phases
<1>2. CASE GoesWith(c, "begins", Len(tasks) + 1) /\ item' = item
  <2>1. Moved(c, "begins", Len(tasks) + 1)
    BY <1>2, BuyingTyped, Moving DEF Places
  <2> QED BY <1>1, <1>2, <2>1
<1>3. CASE Writes(c, ExtractionFailed(item)) /\ Leaves(c, "pay")
  <2>1. Turned("extraction_failed", "failed", item.payment, item.sms)
    BY <1>1, <1>3, ExtractionFailedSays, Writing DEF Turned
  <2>2. \E phase \in {"pay", "idle"} : Moved(c, phase, 0)
    BY <1>3, Going DEF Leaves, Places, Phases
  <2> QED BY <1>1, <2>1, <2>2
<1>4. CASE GoesTo(c, "idle") /\ item' = item
  BY <1>1, <1>4, Going DEF Places, Phases
<1> QED BY <1>2, <1>3, <1>4 DEF CreateTask

LEMMA CreateTaskHands ==
  ASSUME Typed, Sound, Hands, NEW c \in Coroutines, CreateTask(c) PROVE Sound' /\ Hands'
<1>1. Holds(c) /\ item.stage = "eligible" /\ at[c] = "creates"
  BY CreateTaskShape DEF Holds, Phases, Hands, Staged
<1>2. CASE Moved(c, "begins", Len(tasks) + 1) /\ item' = item
  <2>1. Staged(c)' BY <1>1, <1>2 DEF Moved, Staged, Starting, Rotating, JobStatuses
  <2>2. "begins" \in Places \ Phases BY DEF Places, Phases
  <2> QED BY <1>1, <1>2, <2>1, <2>2, HeldOn DEF Sound
<1>3. CASE /\ \E phase \in {"pay", "idle"} : Moved(c, phase, 0)
           /\ Turned("extraction_failed", "failed", item.payment, item.sms)
  <2>1. Sound' BY <1>1, <1>3 DEF Sound, Turned, Wrote, Says, Early
  <2>2. Hands' BY <1>1, <1>3, PutDown DEF Phases
  <2> QED BY <2>1, <2>2
<1>4. CASE Moved(c, "idle", 0) /\ item' = item
  BY <1>1, <1>4, PutDown DEF Phases, Sound
<1> QED BY <1>2, <1>3, <1>4, CreateTaskShape

LEMMA BeginExtractionShape ==
  ASSUME Typed, Hands, NEW c \in Coroutines, BeginExtraction(c)
  PROVE  /\ at[c] = "begins" /\ \E phase \in {"pay", "idle"} : Moved(c, phase, 0)
         /\ Turned("extracting", "running", item.payment, item.sms)
<1>1. Holds(c) /\ item \in Docs /\ at[c] = "begins" /\ got[c] \in Nat
  BY NatsAtHand DEF BeginExtraction, At, Holds, Phases
<1>2. Turned("extracting", "running", item.payment, item.sms)
  BY <1>1, ExtractingSays, Writing DEF BeginExtraction, Turned
<1>3. \E phase \in {"pay", "idle"} : Moved(c, phase, 0)
  BY Going DEF BeginExtraction, Leaves, Places, Phases
<1> QED BY <1>1, <1>2, <1>3

LEMMA BeginExtractionHands ==
  ASSUME Typed, Sound, Hands, NEW c \in Coroutines, BeginExtraction(c) PROVE Sound' /\ Hands'
<1>1. Holds(c) /\ item.stage = "eligible"
  BY BeginExtractionShape DEF Holds, Phases, Hands, Staged
<1>2. Sound'
  BY <1>1, BeginExtractionShape DEF Sound, Turned, Wrote, Says, Early
<1>3. Hands' BY <1>1, BeginExtractionShape, PutDown DEF Phases
<1> QED BY <1>2, <1>3

LEMMA CheckPaymentShape ==
  ASSUME Typed, Hands, NEW c \in Coroutines, CheckPayment(c)
  PROVE  /\ at[c] = "checks"
         /\ \/ /\ \E place \in {"buys", "posts"} : Moved(c, place, got[c])
               /\ Moved(c, "posts", got[c]) => c = "request"
               /\ item' = item
            \/ /\ Moved(c, "idle", 0)
               /\ item' = item \/ Cleared("payment_failed", "succeeded", "failed")
<1>1. Holds(c) /\ item \in Docs /\ at[c] = "checks"
  BY NatsAtHand DEF CheckPayment, At, Holds, Phases
<1>2. CASE GoesTo(c, "buys") /\ item' = item
  <2>1. Moved(c, "buys", got[c]) BY <1>2, Going DEF Places, Starting, Phases
  <2> QED BY <1>1, <1>2, <2>1 DEF Moved
<1>3. CASE c = "request" /\ GoesTo(c, "posts") /\ item' = item
  BY <1>1, <1>3, Going DEF Places, Starting, Phases
<1>4. CASE Expires(c, seen[c]) /\ GoesTo(c, "idle")
  <2>1. item' = item \/ Cleared("payment_failed", "succeeded", "failed")
    BY <1>1, <1>4, ExpiredSays, Writing DEF Expires, Cleared
  <2>2. Moved(c, "idle", 0)
    BY <1>4, Going DEF Places, Phases
  <2> QED BY <1>1, <2>1, <2>2
<1> QED BY <1>2, <1>3, <1>4 DEF CheckPayment

LEMMA CheckPaymentHands ==
  ASSUME Typed, Sound, Hands, NEW c \in Coroutines, CheckPayment(c) PROVE Sound' /\ Hands'
<1>1. Holds(c) /\ item.stage = "payment_ready" /\ at[c] = "checks"
  BY CheckPaymentShape DEF Holds, Phases, Hands, Staged, Starting
<1>2. ASSUME NEW place \in {"buys", "posts"}, Moved(c, place, got[c]), item' = item
      PROVE  Sound' /\ Hands'
  <2>1. place \in Places \ Phases BY DEF Places, Starting, Phases
  <2>2. Staged(c)' BY <1>1, <1>2 DEF Moved, Staged, Starting, Rotating, JobStatuses
  <2> QED BY <1>1, <1>2, <2>1, <2>2, HeldOn DEF Sound
<1>3. ASSUME item' = item \/ Cleared("payment_failed", "succeeded", "failed"),
             Moved(c, "idle", 0)
      PROVE Sound' /\ Hands'
  <2>1. Sound' BY <1>1, <1>3 DEF Sound, Cleared, Wrote, Says, Early
  <2>2. Hands' BY <1>1, <1>3, PutDown DEF Phases
  <2> QED BY <2>1, <2>2
<1> QED BY <1>2, <1>3, CheckPaymentShape

LEMMA BuyNumberShape ==
  ASSUME Typed, Hands, NEW c \in Coroutines, BuyNumber(c)
  PROVE  /\ at[c] \in {"buys", "rebuys"}
         /\ \/ /\ Moved(c, IF at[c] = "buys" THEN "notes" ELSE "renotes", Len(numbers) + 1)
               /\ numbers' = Append(numbers, "active") /\ UNCHANGED <<item, excuses>>
            \/ /\ Moved(c, IF at[c] = "buys" THEN "idle" ELSE "expiry", 0)
               /\ UNCHANGED <<numbers, excuses>> \/ "blind" \in excuses'
               /\ Failing(item.sms)
<1>1. Holds(c) /\ item \in Docs /\ at[c] \in {"buys", "rebuys"}
  BY NatsAtHand DEF BuyNumber, Holds, Phases
<1>2. CASE /\ GoesWith(c, IF At(c, "buys") THEN "notes" ELSE "renotes", Len(numbers) + 1)
           /\ numbers' = Append(numbers, "active") /\ UNCHANGED <<item, excuses>>
  <2>1. Moved(c, IF at[c] = "buys" THEN "notes" ELSE "renotes", Len(numbers) + 1)
    BY <1>2, BuyingTyped, Moving DEF At, Places, Starting, Rotating
  <2> QED BY <1>1, <1>2, <2>1
<1>3. CASE /\ \/ UNCHANGED <<numbers, excuses>>
              \/ Excused({"blind"})
           /\ Writes(c, PaymentFailed(item))
           /\ GoesTo(c, IF At(c, "buys") THEN "idle" ELSE "expiry")
  <2>1. Failing(item.sms)
    BY <1>1, <1>3, FailedSays, Writing DEF Failing, Turned
  <2>2. Moved(c, IF at[c] = "buys" THEN "idle" ELSE "expiry", 0)
    BY <1>3, Going DEF At, Places, Phases
  <2>3. UNCHANGED <<numbers, excuses>> \/ "blind" \in excuses'
    BY <1>3 DEF Excused
  <2> QED BY <1>1, <2>1, <2>2, <2>3
<1> QED BY <1>2, <1>3 DEF BuyNumber

(* A payment that fails is put down.                                            *)
LEMMA FailingHands ==
  ASSUME Typed, Sound, Hands, NEW c \in Coroutines, Holds(c),
         item.stage \in UnderWay \cup {"payment_ready"},
         NEW phase \in Phases, Moved(c, phase, 0), NEW sms, Failing(sms)
  PROVE  Sound' /\ Hands'
<1>1. Sound' BY DEF UnderWay, Sound, Failing, Turned, Wrote, Says, Early
<1> QED BY <1>1, PutDown

LEMMA BuyNumberHands ==
  ASSUME Typed, Sound, Hands, NEW c \in Coroutines, BuyNumber(c) PROVE Sound' /\ Hands'
<1>1. /\ Holds(c) /\ at[c] \in {"buys", "rebuys"}
      /\ item.stage = IF at[c] = "buys" THEN "payment_ready" ELSE "payment_waiting_otp"
  BY BuyNumberShape DEF Holds, Phases, Hands, Staged, Starting, Rotating
<1>2. CASE /\ Moved(c, IF at[c] = "buys" THEN "notes" ELSE "renotes", Len(numbers) + 1)
           /\ item' = item
  <2>1. Staged(c)'
    BY <1>1, <1>2 DEF Moved, Staged, Starting, Rotating, JobStatuses
  <2>2. (IF at[c] = "buys" THEN "notes" ELSE "renotes") \in Places \ Phases
    BY DEF Places, Phases, Starting, Rotating
  <2> QED BY <1>1, <1>2, <2>1, <2>2, HeldOn DEF Sound
<1>3. CASE /\ Moved(c, IF at[c] = "buys" THEN "idle" ELSE "expiry", 0)
           /\ Failing(item.sms)
  BY <1>1, <1>3, FailingHands DEF UnderWay, Phases
<1> QED BY <1>2, <1>3, BuyNumberShape

LEMMA NoteNumberShape ==
  ASSUME Typed, Hands, NEW c \in Coroutines, NoteNumber(c)
  PROVE  /\ at[c] \in {"notes", "renotes"}
         /\ Moved(c, IF at[c] = "notes" THEN "posts" ELSE "tells", got[c])
         /\ Wrote(item.stage, item.extraction, item.payment, item.job, got[c], "waiting",
                  IF at[c] = "notes" THEN 1 ELSE item.attempt + 1)
<1>1. Holds(c) /\ item \in Docs /\ at[c] \in {"notes", "renotes"}
  BY NatsAtHand DEF NoteNumber, Holds, Phases
<1>2. Moved(c, IF at[c] = "notes" THEN "posts" ELSE "tells", got[c])
  BY Going DEF NoteNumber, At, Places, Phases, Starting, Rotating
<1>3. seen[c].attempt = item.attempt
  BY <1>1 DEF Hands, InHand
<1>4. (IF at[c] = "notes" THEN 1 ELSE item.attempt + 1) \in Nat /\ got[c] \in Nat
  BY <1>3, NatsAtHand
<1>5. Writes(c, [item EXCEPT !.number = got[c], !.sms = "waiting",
                   !.attempt = IF at[c] = "notes" THEN 1 ELSE item.attempt + 1])
  BY <1>3 DEF NoteNumber, WithNumber, At
<1>6. Wrote(item.stage, item.extraction, item.payment, item.job, got[c], "waiting",
            IF at[c] = "notes" THEN 1 ELSE item.attempt + 1)
  BY <1>1, <1>4, <1>5, NumberSays, Writing
<1> QED BY <1>1, <1>2, <1>6

LEMMA NoteNumberHands ==
  ASSUME Typed, Sound, Hands, NEW c \in Coroutines, NoteNumber(c) PROVE Sound' /\ Hands'
<1>1. /\ Holds(c) /\ at[c] \in {"notes", "renotes"}
      /\ item.stage = IF at[c] = "notes" THEN "payment_ready" ELSE "payment_waiting_otp"
  BY NoteNumberShape DEF Holds, Phases, Hands, Staged, Starting, Rotating
<1>2. /\ item'.id = item.id /\ item'.stage = item.stage /\ item'.job = item.job
      /\ item'.extraction = item.extraction /\ item'.payment = item.payment
  BY NoteNumberShape DEF Wrote, Says
<1>3. Moved(c, IF at[c] = "notes" THEN "posts" ELSE "tells", got[c])
  BY NoteNumberShape
<1>4. Staged(c)'
  BY <1>1, <1>2, <1>3 DEF Moved, Staged, Starting, Rotating, JobStatuses
<1>5. (IF at[c] = "notes" THEN "posts" ELSE "tells") \in Places \ Phases
  BY DEF Places, Phases, Starting, Rotating
<1>6. Hands' BY <1>1, <1>2, <1>3, <1>4, <1>5, HandedAlong
<1> QED BY <1>2, <1>6 DEF Sound

LEMMA PostJobShape ==
  ASSUME Typed, Hands, NEW c \in Coroutines, PostJob(c)
  PROVE  /\ at[c] = "posts" /\ Moved(c, "tracks", Len(jobs) + 1)
         /\ jobs' = Append(jobs, NewJob(c)) /\ UNCHANGED <<item, numbers, excuses>>
<1>1. Moved(c, "tracks", Len(jobs) + 1)
  BY BuyingTyped, Moving DEF PostJob, Places, Starting
<1> QED BY <1>1 DEF PostJob, At

LEMMA PostJobHands ==
  ASSUME Typed, Sound, Hands, NEW c \in Coroutines, PostJob(c) PROVE Sound' /\ Hands'
<1>1. /\ Holds(c) /\ item' = item /\ at[c] = "posts" /\ item.stage = "payment_ready"
      /\ Moved(c, "tracks", Len(jobs) + 1)
  BY PostJobShape DEF Holds, Phases, Hands, Staged, Starting
<1>2. Staged(c)'
  BY <1>1 DEF Moved, Staged, Starting, Rotating, JobStatuses
<1>3. "tracks" \in Places \ Phases BY DEF Places, Phases, Starting
<1> QED BY <1>1, <1>2, <1>3, HeldOn DEF Sound

LEMMA PostJobFailsShape ==
  ASSUME Typed, Hands, NEW c \in Coroutines, PostJobFails(c)
  PROVE  /\ at[c] = "posts" /\ Moved(c, "idle", 0) /\ Failing(item.sms)
         /\ jobs' = jobs \/ "blind" \in excuses'
         /\ numbers' = Released(got[c]) \/ "refused" \in excuses'
<1>1. Holds(c) /\ item \in Docs /\ at[c] = "posts"
  BY NatsAtHand DEF PostJobFails, At, Holds, Phases
<1>2. Failing(item.sms)
  BY <1>1, FailedSays, Writing DEF PostJobFails, Failing, Turned
<1>3. Moved(c, "idle", 0) BY Going DEF PostJobFails, Places, Phases
<1> QED BY <1>1, <1>2, <1>3 DEF PostJobFails, Releases, ReleaseRefused, Excused

LEMMA PostJobFailsHands ==
  ASSUME Typed, Sound, Hands, NEW c \in Coroutines, PostJobFails(c) PROVE Sound' /\ Hands'
<1>1. Holds(c) /\ item.stage = "payment_ready"
  BY PostJobFailsShape DEF Holds, Phases, Hands, Staged, Starting
<1> QED BY <1>1, PostJobFailsShape, FailingHands DEF Phases

LEMMA TrackJobShape ==
  ASSUME Typed, Hands, NEW c \in Coroutines, TrackJob(c)
  PROVE  /\ at[c] = "tracks" /\ Moved(c, "idle", 0)
         /\ Wrote("paying", item.extraction, "running", got[c], item.number, item.sms,
                  item.attempt)
         /\ UNCHANGED <<jobs, numbers, excuses>>
<1>1. Holds(c) /\ item \in Docs /\ at[c] = "tracks" /\ got[c] \in Nat
  BY NatsAtHand DEF TrackJob, At, Holds, Phases
<1>2. Wrote("paying", item.extraction, "running", got[c], item.number, item.sms, item.attempt)
  BY <1>1, TrackedSays, Writing DEF TrackJob
<1>3. Moved(c, "idle", 0) BY Going DEF TrackJob, Places, Phases
<1> QED BY <1>1, <1>2, <1>3 DEF TrackJob, services

LEMMA TrackJobHands ==
  ASSUME Typed, Sound, Hands, NEW c \in Coroutines, TrackJob(c) PROVE Sound' /\ Hands'
<1>1. Holds(c) /\ item.stage = "payment_ready"
  BY TrackJobShape DEF Holds, Phases, Hands, Staged, Starting
<1>2. Sound' BY <1>1, TrackJobShape DEF Sound, Wrote, Says, Early
<1>3. Hands' BY <1>1, TrackJobShape, PutDown DEF Phases
<1> QED BY <1>2, <1>3

LEMMA GetJobShape ==
  ASSUME Typed, Hands, GetJob
  PROVE  /\ at["tick"] = "job" /\ item.job \in DOMAIN jobs
         /\ UNCHANGED <<jobs, numbers, excuses>>
         /\ \/ /\ Moved("tick", jobs[item.job].status, got["tick"]) /\ item' = item
               /\ jobs[item.job].status \in JobStatuses
            \/ /\ \E phase \in {"expiry", "idle"} : Moved("tick", phase, 0)
               /\ item' = item \/ (~jobs[item.job].known /\ Failing(item.sms))
<1>1. Holds("tick") /\ "tick" \in Coroutines /\ item \in Docs /\ at["tick"] = "job"
  BY CoroutineFacts, NatsAtHand DEF GetJob, At, Holds, Phases
<1>2. seen["tick"].job = item.job /\ item.job \in DOMAIN jobs
  <2>1. seen["tick"].job = item.job BY <1>1, OneHolds
  <2> QED BY <1>1, <2>1 DEF Typed
<1>3. jobs[item.job].status \in JobStatuses
  <2>1. jobs \in Seq(JobRecords) BY DEF Typed
  <2>2. jobs[item.job] \in JobRecords BY <1>2, <2>1
  <2> QED BY <2>2 DEF JobRecords
<1>4. UNCHANGED <<jobs, numbers, excuses>>
  BY DEF GetJob, services
<1>5. CASE GoesTo("tick", jobs[item.job].status) /\ item' = item
  <2>1. jobs[item.job].status \in Places \ Phases
    BY <1>3 DEF Places, Phases, JobStatuses
  <2> QED BY <1>1, <1>2, <1>3, <1>4, <1>5, <2>1, Going
<1>6. CASE ~jobs[item.job].known /\ Writes("tick", PaymentFailed(item)) /\ GoesTo("tick", "expiry")
  <2>1. Failing(item.sms) BY <1>1, <1>6, FailedSays, Writing DEF Failing, Turned
  <2>2. Moved("tick", "expiry", 0) BY <1>1, <1>6, Going DEF Places, Phases
  <2> QED BY <1>1, <1>2, <1>4, <1>6, <2>1, <2>2
<1>7. CASE (GoesTo("tick", "expiry") \/ GoesTo("tick", "idle")) /\ item' = item
  <2>1. Moved("tick", "expiry", 0) \/ Moved("tick", "idle", 0)
    BY <1>1, <1>7, Going DEF Places, Phases
  <2> QED BY <1>1, <1>2, <1>4, <1>7, <2>1
<1> QED BY <1>2, <1>5, <1>6, <1>7 DEF GetJob

LEMMA GetJobHands ==
  ASSUME Typed, Sound, Hands, GetJob PROVE Sound' /\ Hands'
<1>1. Holds("tick") /\ "tick" \in Coroutines /\ item.stage \in UnderWay /\ at["tick"] = "job"
  BY CoroutineFacts, GetJobShape DEF Holds, Phases, Hands, Staged
<1>2. ASSUME NEW place \in JobStatuses, Moved("tick", place, got["tick"]), item' = item
      PROVE  Sound' /\ Hands'
  <2>1. Staged("tick")'
    BY <1>1, <1>2 DEF Moved, Staged, Starting, Rotating, JobStatuses
  <2>2. place \in Places \ Phases BY <1>2 DEF Places, Phases, JobStatuses
  <2> QED BY <1>1, <1>2, <2>1, <2>2, HeldOn DEF Sound
<1>3. ASSUME NEW phase \in {"expiry", "idle"}, Moved("tick", phase, 0),
             item' = item \/ Failing(item.sms)
      PROVE  Sound' /\ Hands'
  <2>1. phase \in Phases BY DEF Phases
  <2> QED BY <1>1, <1>3, <2>1, PutDown, FailingHands DEF Sound
<1> QED BY <1>2, <1>3, GetJobShape

LEMMA SettleRunningShape ==
  ASSUME Typed, Hands, SettleRunning
  PROVE  /\ at["tick"] = "running" /\ Moved("tick", "expiry", 0)
         /\ Turned("paying", item.extraction, "running", item.sms)
         /\ UNCHANGED <<jobs, numbers, excuses>>
<1>1. Holds("tick") /\ "tick" \in Coroutines /\ item \in Docs /\ at["tick"] = "running"
  BY CoroutineFacts, NatsAtHand DEF SettleRunning, At, Holds, Phases
<1>2. Turned("paying", item.extraction, "running", item.sms)
  BY <1>1, PayingSays, Writing DEF SettleRunning, Turned
<1>3. Moved("tick", "expiry", 0) BY <1>1, Going DEF SettleRunning, Places, Phases
<1> QED BY <1>1, <1>2, <1>3 DEF SettleRunning, services

LEMMA SettleRunningHands ==
  ASSUME Typed, Sound, Hands, SettleRunning PROVE Sound' /\ Hands'
<1>1. Holds("tick") /\ "tick" \in Coroutines /\ item.stage \in UnderWay
  BY CoroutineFacts, SettleRunningShape DEF Holds, Phases, Hands, Staged, JobStatuses
<1>2. Sound' BY <1>1, SettleRunningShape DEF Sound, Turned, Wrote, Says, Early, UnderWay
<1>3. Hands' BY <1>1, SettleRunningShape, PutDown DEF Phases
<1> QED BY <1>2, <1>3

LEMMA SettleAwaitingShape ==
  ASSUME Typed, Hands, SettleAwaiting
  PROVE  /\ at["tick"] = "awaiting_otp"
         /\ Moved("tick", "refresh", got["tick"]) \/ Moved("tick", "expiry", 0)
         /\ Turned("payment_waiting_otp", item.extraction, "awaiting_otp", item.sms)
         /\ UNCHANGED <<jobs, numbers, excuses>>
<1>1. Holds("tick") /\ "tick" \in Coroutines /\ item \in Docs /\ at["tick"] = "awaiting_otp"
  BY CoroutineFacts, NatsAtHand DEF SettleAwaiting, At, Holds, Phases
<1>2. Turned("payment_waiting_otp", item.extraction, "awaiting_otp", item.sms)
  BY <1>1, PromptedSays, Writing DEF SettleAwaiting, Turned
<1>3. Moved("tick", "refresh", got["tick"]) \/ Moved("tick", "expiry", 0)
  BY <1>1, Going DEF SettleAwaiting, Places, Phases, Rotating
<1> QED BY <1>1, <1>2, <1>3 DEF SettleAwaiting, services

LEMMA SettleAwaitingHands ==
  ASSUME Typed, Sound, Hands, SettleAwaiting PROVE Sound' /\ Hands'
<1>1. /\ Holds("tick") /\ "tick" \in Coroutines /\ item.stage \in UnderWay
      /\ at["tick"] = "awaiting_otp"
  BY CoroutineFacts, SettleAwaitingShape DEF Holds, Phases, Hands, Staged, JobStatuses
<1>2. /\ item'.stage = "payment_waiting_otp" /\ item'.id = item.id /\ item'.job = item.job
      /\ item'.extraction = item.extraction /\ item'.number = item.number
      /\ item'.sms = item.sms /\ item'.attempt = item.attempt
  BY SettleAwaitingShape DEF Turned, Wrote, Says
<1>3. Sound' BY <1>1, <1>2 DEF Sound, Early, UnderWay
<1>4. CASE Moved("tick", "refresh", got["tick"])
  <2>1. Staged("tick")'
    BY <1>2, <1>4 DEF Moved, Staged, Starting, Rotating, JobStatuses
  <2>2. "refresh" \in Places \ Phases BY DEF Places, Phases, Rotating
  <2> QED BY <1>1, <1>2, <1>3, <1>4, <2>1, <2>2, HandedAlong
<1>5. CASE Moved("tick", "expiry", 0)
  BY <1>1, <1>3, <1>5, PutDown DEF Phases
<1> QED BY <1>4, <1>5, SettleAwaitingShape

LEMMA SettleCompletedShape ==
  ASSUME Typed, Hands, SettleCompleted
  PROVE  /\ at["tick"] = "completed" /\ Moved("tick", "expiry", 0)
         /\ Turned("paid", item.extraction, "completed", "completed")
         /\ \/ numbers' = Released(IF item.sms \in {"code_submitted", "completed"} THEN 0
                                   ELSE item.number)
            \/ "refused" \in excuses'
         /\ jobs' = jobs
<1>1. Holds("tick") /\ "tick" \in Coroutines /\ item \in Docs /\ at["tick"] = "completed"
  BY CoroutineFacts, NatsAtHand DEF SettleCompleted, At, Holds, Phases
<1>2. Turned("paid", item.extraction, "completed", "completed")
  BY <1>1, PaidSays, Writing DEF SettleCompleted, Turned
<1>3. Moved("tick", "expiry", 0) BY <1>1, Going DEF SettleCompleted, Places, Phases
<1>4. seen["tick"].sms = item.sms /\ seen["tick"].number = item.number
  BY <1>1 DEF Hands, InHand
<1> QED BY <1>1, <1>2, <1>3, <1>4 DEF SettleCompleted, Releases, ReleaseRefused, Excused

LEMMA SettleCompletedHands ==
  ASSUME Typed, Sound, Hands, SettleCompleted PROVE Sound' /\ Hands'
<1>1. Holds("tick") /\ "tick" \in Coroutines /\ item.stage \in UnderWay
  BY CoroutineFacts, SettleCompletedShape DEF Holds, Phases, Hands, Staged, JobStatuses
<1>2. Sound' BY <1>1, SettleCompletedShape DEF Sound, Turned, Wrote, Says, Early, UnderWay
<1>3. Hands' BY <1>1, SettleCompletedShape, PutDown DEF Phases
<1> QED BY <1>2, <1>3

LEMMA SettleFailedShape ==
  ASSUME Typed, Hands, SettleFailed
  PROVE  /\ at["tick"] \in {"failed", "cancelled"} /\ Moved("tick", "expiry", 0)
         /\ Failing("cancelled")
         /\ numbers' = Released(item.number) \/ "refused" \in excuses'
         /\ jobs' = jobs
<1>1. Holds("tick") /\ "tick" \in Coroutines /\ item \in Docs /\ at["tick"] \in {"failed", "cancelled"}
  BY CoroutineFacts, NatsAtHand DEF SettleFailed, Holds, Phases
<1>2. Failing("cancelled")
  BY <1>1, CancelledSays, Writing DEF SettleFailed, Failing, Turned
<1>3. Moved("tick", "expiry", 0) BY <1>1, Going DEF SettleFailed, Places, Phases
<1>4. seen["tick"].number = item.number
  BY <1>1 DEF Hands, InHand
<1> QED BY <1>1, <1>2, <1>3, <1>4 DEF SettleFailed, Releases, ReleaseRefused, Excused

LEMMA SettleFailedHands ==
  ASSUME Typed, Sound, Hands, SettleFailed PROVE Sound' /\ Hands'
<1>1. Holds("tick") /\ "tick" \in Coroutines /\ item.stage \in UnderWay
  BY CoroutineFacts, SettleFailedShape DEF Holds, Phases, Hands, Staged, JobStatuses
<1> QED BY <1>1, SettleFailedShape, FailingHands DEF Phases

(* A coroutine takes the record in its hands.                                   *)
Took(c, place) ==
  /\ HandsTyped /\ OtherStays(c)
  /\ at'[c] = place /\ got'[c] = got[c] /\ seen'[c] = item

LEMMA TakenUp ==
  ASSUME Typed, NEW c \in Coroutines, \A d \in Coroutines \ {c} : at[d] \in Phases,
         NEW place, Took(c, place), item' = item, Exists, Staged(c)'
  PROVE  Hands'
<1>1. \A d \in Coroutines \ {c} : at'[d] \in Phases
  BY DEF Took, OtherStays
<1>2. ASSUME NEW d \in Coroutines \ {c} PROVE InHand(d)' /\ Staged(d)'
  BY <1>1 DEF InHand, Staged, Holds, Phases, Starting, Rotating, JobStatuses
<1>3. Alone' BY <1>1, CoroutineFacts DEF Alone, Holds
<1>4. InHand(c)' BY DEF InHand, Took, Exists
<1> QED BY <1>2, <1>3, <1>4 DEF Hands

LEMMA RefreshShape ==
  ASSUME Typed, Hands, Refresh
  PROVE  /\ at["tick"] = "refresh" /\ Took("tick", "sms")
         /\ UNCHANGED <<item, jobs, numbers, excuses>>
<1>1. Holds("tick") /\ "tick" \in Coroutines /\ at["tick"] = "refresh"
  BY CoroutineFacts DEF Refresh, At, Holds, Phases
<1>2. Reads("tick", "sms")
  BY <1>1, OneHolds DEF Refresh
<1>3. Took("tick", "sms")
  BY <1>1, <1>2, Reading DEF Reads, Took, Places, Rotating
<1>4. excuses' = excuses
  <2>1. ~Holds(Other("tick")) BY <1>1, OneHolds, OtherFacts DEF Holds
  <2> QED BY <1>2, <2>1 DEF Reads, Raced, Excused
<1> QED BY <1>1, <1>3, <1>4 DEF Refresh, services

LEMMA RefreshHands ==
  ASSUME Typed, Sound, Hands, Refresh PROVE Sound' /\ Hands'
<1>1. /\ Holds("tick") /\ "tick" \in Coroutines /\ item.stage = "payment_waiting_otp"
      /\ item' = item /\ Took("tick", "sms")
  BY CoroutineFacts, RefreshShape DEF Holds, Phases, Hands, Staged, Rotating
<1>2. Staged("tick")'
  BY <1>1 DEF Took, Staged, Starting, Rotating, JobStatuses
<1> QED BY <1>1, <1>2, OneHolds, TakenUp DEF Sound

LEMMA ReadSmsShape ==
  ASSUME Typed, Hands, ReadSms
  PROVE  /\ at["tick"] = "sms" /\ UNCHANGED <<item, jobs, numbers, excuses>>
         /\ \/ Moved("tick", "expiry", 0)
            \/ \E place \in {"rotates", "enters"} : Moved("tick", place, got["tick"])
<1>1. \/ GoesTo("tick", "expiry") \/ GoesTo("tick", "rotates") \/ GoesTo("tick", "enters")
  BY DEF ReadSms
<1>2. \/ Moved("tick", "expiry", 0)
      \/ \E place \in {"rotates", "enters"} : Moved("tick", place, got["tick"])
  BY <1>1, CoroutineFacts, Going DEF Places, Phases, Rotating
<1> QED BY <1>2 DEF ReadSms, At, services

LEMMA ReadSmsHands ==
  ASSUME Typed, Sound, Hands, ReadSms PROVE Sound' /\ Hands'
<1>1. /\ Holds("tick") /\ "tick" \in Coroutines /\ item.stage = "payment_waiting_otp"
      /\ item' = item /\ at["tick"] = "sms"
  BY CoroutineFacts, ReadSmsShape DEF Holds, Phases, Hands, Staged, Rotating
<1>2. ASSUME NEW place \in {"rotates", "enters"}, Moved("tick", place, got["tick"])
      PROVE  Sound' /\ Hands'
  <2>1. Staged("tick")'
    BY <1>1, <1>2 DEF Moved, Staged, Starting, Rotating, JobStatuses
  <2>2. place \in Places \ Phases BY DEF Places, Phases, Rotating
  <2> QED BY <1>1, <1>2, <2>1, <2>2, HeldOn DEF Sound
<1>3. CASE Moved("tick", "expiry", 0)
  BY <1>1, <1>3, PutDown DEF Phases, Sound
<1> QED BY <1>2, <1>3, ReadSmsShape

LEMMA RotateShape ==
  ASSUME Typed, Hands, Rotate
  PROVE  /\ at["tick"] = "rotates" /\ jobs' = jobs
         /\ \/ /\ "refused" \in excuses' /\ Moved("tick", "expiry", 0)
               /\ Turned(item.stage, item.extraction, item.payment, "cancel_retry")
            \/ /\ numbers' = Released(item.number) /\ excuses' = excuses
               /\ \/ Failing(item.sms) /\ Moved("tick", "expiry", 0)
                  \/ /\ item.attempt < 1 + NumberChanges /\ item' = item
                     /\ Moved("tick", "rebuys", got["tick"])
<1>1. Holds("tick") /\ "tick" \in Coroutines /\ item \in Docs /\ at["tick"] = "rotates"
  BY CoroutineFacts, NatsAtHand DEF Rotate, At, Holds, Phases
<1>2. seen["tick"].number = item.number /\ seen["tick"].attempt = item.attempt
  BY <1>1 DEF Hands, InHand
<1>3. CASE /\ ReleaseRefused("tick", item.number)
           /\ Writes("tick", [item EXCEPT !.sms = "cancel_retry"])
           /\ GoesTo("tick", "expiry")
  <2>1. Turned(item.stage, item.extraction, item.payment, "cancel_retry")
    BY <1>1, <1>3, RetrySays, Writing DEF Turned
  <2>2. Moved("tick", "expiry", 0) BY <1>1, <1>3, Going DEF Places, Phases
  <2> QED BY <1>1, <1>3, <2>1, <2>2 DEF Rotate, ReleaseRefused, Excused
<1>4. CASE /\ Releases(item.number)
           /\ Writes("tick", PaymentFailed(item)) /\ GoesTo("tick", "expiry")
  <2>1. Failing(item.sms) BY <1>1, <1>4, FailedSays, Writing DEF Failing, Turned
  <2>2. Moved("tick", "expiry", 0) BY <1>1, <1>4, Going DEF Places, Phases
  <2> QED BY <1>1, <1>4, <2>1, <2>2 DEF Rotate, Releases
<1>5. CASE /\ Releases(item.number) /\ ~(item.attempt >= 1 + NumberChanges)
           /\ GoesTo("tick", "rebuys") /\ item' = item
  <2>1. Moved("tick", "rebuys", got["tick"])
    BY <1>1, <1>5, Going DEF Places, Phases, Rotating
  <2>2. item.attempt \in Nat /\ NumberChanges \in Nat
    BY <1>1, SettingsAssumption DEF Docs
  <2> QED BY <1>1, <1>5, <2>1, <2>2 DEF Rotate, Releases
<1> QED BY <1>2, <1>3, <1>4, <1>5 DEF Rotate

LEMMA RotateHands ==
  ASSUME Typed, Sound, Hands, Rotate PROVE Sound' /\ Hands'
<1>1. /\ Holds("tick") /\ "tick" \in Coroutines /\ item.stage = "payment_waiting_otp"
      /\ at["tick"] = "rotates"
  BY CoroutineFacts, RotateShape DEF Holds, Phases, Hands, Staged, Rotating
<1>2. CASE /\ Turned(item.stage, item.extraction, item.payment, "cancel_retry")
           /\ Moved("tick", "expiry", 0)
  <2>1. Sound' BY <1>1, <1>2 DEF Sound, Turned, Wrote, Says, Early
  <2> QED BY <1>1, <1>2, <2>1, PutDown DEF Phases
<1>3. CASE Failing(item.sms) /\ Moved("tick", "expiry", 0)
  BY <1>1, <1>3, FailingHands DEF Phases, UnderWay
<1>4. CASE item' = item /\ Moved("tick", "rebuys", got["tick"])
  <2>1. Staged("tick")'
    BY <1>1, <1>4 DEF Moved, Staged, Starting, Rotating, JobStatuses
  <2>2. "rebuys" \in Places \ Phases BY DEF Places, Phases, Rotating
  <2> QED BY <1>1, <1>4, <2>1, <2>2, HeldOn DEF Sound
<1> QED BY <1>2, <1>3, <1>4, RotateShape

LEMMA EnterCodeShape ==
  ASSUME Typed, Hands, NEW c \in Coroutines, EnterCode(c)
  PROVE  /\ at[c] = "enters" /\ UNCHANGED <<item, numbers>>
         /\ \/ /\ Moved(c, IF c = "tick" THEN "entered" ELSE "told", got[c])
               /\ Asks(c) /\ jobs' = Answered(c) /\ excuses' = excuses
            \/ Moved(c, "idle", 0) /\ (UNCHANGED <<jobs, excuses>> \/ "blind" \in excuses')
<1>1. CASE /\ GoesTo(c, IF c = "tick" THEN "entered" ELSE "told")
           /\ Asks(c) /\ jobs' = Answered(c) /\ excuses' = excuses
  <2>1. Moved(c, IF c = "tick" THEN "entered" ELSE "told", got[c])
    BY <1>1, Going DEF Places, Phases, Rotating
  <2> QED BY <1>1, <2>1 DEF EnterCode, At
<1>2. CASE /\ AnswerLost(c) \/ UNCHANGED <<jobs, events, excuses>>
           /\ GoesTo(c, "idle")
  <2>1. Moved(c, "idle", 0) BY <1>2, Going DEF Places, Phases
  <2>2. UNCHANGED <<jobs, excuses>> \/ "blind" \in excuses'
    BY <1>2 DEF AnswerLost, Excused
  <2> QED BY <2>1, <2>2 DEF EnterCode, At
<1> QED BY <1>1, <1>2 DEF EnterCode

LEMMA EnterCodeHands ==
  ASSUME Typed, Sound, Hands, NEW c \in Coroutines, EnterCode(c) PROVE Sound' /\ Hands'
<1>1. /\ Holds(c) /\ item' = item /\ at[c] = "enters"
      /\ IF c = "tick" THEN item.stage = "payment_waiting_otp" ELSE item.job # 0
  BY EnterCodeShape DEF Holds, Phases, Hands, Staged
<1>2. CASE Moved(c, IF c = "tick" THEN "entered" ELSE "told", got[c])
  <2>1. Staged(c)'
    BY <1>1, <1>2 DEF Moved, Staged, Starting, Rotating, JobStatuses
  <2>2. (IF c = "tick" THEN "entered" ELSE "told") \in Places \ Phases
    BY DEF Places, Phases, Rotating
  <2> QED BY <1>1, <1>2, <2>1, <2>2, HeldOn DEF Sound
<1>3. CASE Moved(c, "idle", 0)
  BY <1>1, <1>3, PutDown DEF Phases, Sound
<1> QED BY <1>2, <1>3, EnterCodeShape

LEMMA NoteCodeShape ==
  ASSUME Typed, Hands, NoteCode
  PROVE  /\ at["tick"] = "entered" /\ Moved("tick", "expiry", 0)
         /\ Turned("paying", item.extraction, "running", "code_submitted")
         /\ numbers' = Released(item.number) \/ "refused" \in excuses'
         /\ jobs' = jobs
<1>1. Holds("tick") /\ "tick" \in Coroutines /\ item \in Docs /\ at["tick"] = "entered"
  BY CoroutineFacts, NatsAtHand DEF NoteCode, At, Holds, Phases
<1>2. Turned("paying", item.extraction, "running", "code_submitted")
  BY <1>1, SubmittedSays, Writing DEF NoteCode, Turned
<1>3. Moved("tick", "expiry", 0) BY <1>1, Going DEF NoteCode, Places, Phases
<1>4. seen["tick"].number = item.number
  BY <1>1 DEF Hands, InHand
<1> QED BY <1>1, <1>2, <1>3, <1>4 DEF NoteCode, Releases, ReleaseRefused, Excused

LEMMA NoteCodeHands ==
  ASSUME Typed, Sound, Hands, NoteCode PROVE Sound' /\ Hands'
<1>1. Holds("tick") /\ "tick" \in Coroutines /\ item.stage = "payment_waiting_otp"
  BY CoroutineFacts, NoteCodeShape DEF Holds, Phases, Hands, Staged, Rotating
<1>2. Sound' BY <1>1, NoteCodeShape DEF Sound, Turned, Wrote, Says, Early
<1>3. Hands' BY <1>1, NoteCodeShape, PutDown DEF Phases
<1> QED BY <1>2, <1>3

LEMMA TellPhoneShape ==
  ASSUME Typed, Hands, TellPhone
  PROVE  /\ at["tick"] = "tells"
         /\ \/ /\ Moved("tick", "told", got["tick"])
               /\ Asks("tick") /\ jobs' = Answered("tick")
               /\ UNCHANGED <<item, numbers, excuses>>
            \/ /\ Moved("tick", "idle", 0) /\ UNCHANGED <<item, numbers>>
               /\ UNCHANGED <<jobs, excuses>> \/ "blind" \in excuses'
            \/ /\ Moved("tick", "expiry", 0) /\ Failing(item.sms)
               /\ jobs' = jobs \/ "blind" \in excuses'
               /\ numbers' = Released(got["tick"]) \/ "refused" \in excuses'
<1>1. Holds("tick") /\ "tick" \in Coroutines /\ item \in Docs /\ at["tick"] = "tells"
  BY CoroutineFacts, NatsAtHand DEF TellPhone, At, Holds, Phases
<1>2. AnswerLost("tick") => UNCHANGED <<jobs, excuses>> \/ "blind" \in excuses'
  BY DEF AnswerLost, Excused
<1>3. CASE /\ GoesTo("tick", "told") /\ Asks("tick") /\ jobs' = Answered("tick")
           /\ UNCHANGED <<item, numbers, excuses>>
  <2>1. Moved("tick", "told", got["tick"])
    BY <1>1, <1>3, Going DEF Places, Phases
  <2> QED BY <1>1, <1>3, <2>1
<1>4. CASE AnswerLost("tick") /\ GoesTo("tick", "idle") /\ UNCHANGED <<item, numbers>>
  <2>1. Moved("tick", "idle", 0) BY <1>1, <1>4, Going DEF Places, Phases
  <2> QED BY <1>1, <1>2, <1>4, <2>1
<1>5. CASE /\ \/ AnswerLost("tick") /\ numbers' = Released(got["tick"])
              \/ /\ UNCHANGED jobs
                 /\ \/ Releases(got["tick"])
                    \/ ReleaseRefused("tick", got["tick"])
           /\ Writes("tick", PaymentFailed(item))
           /\ GoesTo("tick", "expiry")
  <2>1. Moved("tick", "expiry", 0) BY <1>1, <1>5, Going DEF Places, Phases
  <2>2. Failing(item.sms) BY <1>1, <1>5, FailedSays, Writing DEF Failing, Turned
  <2> QED BY <1>1, <1>2, <1>5, <2>1, <2>2 DEF Releases, ReleaseRefused, Excused
<1> QED BY <1>3, <1>4, <1>5 DEF TellPhone

LEMMA TellPhoneHands ==
  ASSUME Typed, Sound, Hands, TellPhone PROVE Sound' /\ Hands'
<1>1. /\ Holds("tick") /\ "tick" \in Coroutines /\ item.stage = "payment_waiting_otp"
      /\ at["tick"] = "tells"
  BY CoroutineFacts, TellPhoneShape DEF Holds, Phases, Hands, Staged, Rotating
<1>2. CASE Moved("tick", "told", got["tick"]) /\ item' = item
  <2>1. Staged("tick")'
    BY <1>1, <1>2 DEF Moved, Staged, Starting, Rotating, JobStatuses
  <2>2. "told" \in Places \ Phases BY DEF Places, Phases
  <2> QED BY <1>1, <1>2, <2>1, <2>2, HeldOn DEF Sound
<1>3. CASE Moved("tick", "idle", 0) /\ item' = item
  BY <1>1, <1>3, PutDown DEF Phases, Sound
<1>4. CASE Moved("tick", "expiry", 0) /\ Failing(item.sms)
  BY <1>1, <1>4, FailingHands DEF Phases, UnderWay
<1> QED BY <1>2, <1>3, <1>4, TellPhoneShape

LEMMA NoteAnswerShape ==
  ASSUME Typed, Hands, NEW c \in Coroutines, NoteAnswer(c)
  PROVE  /\ at[c] = "told" /\ \E phase \in {"expiry", "idle"} : Moved(c, phase, 0)
         /\ Turned("paying", item.extraction, "running", item.sms)
         /\ UNCHANGED <<jobs, numbers, excuses>>
<1>1. Holds(c) /\ item \in Docs /\ at[c] = "told"
  BY NatsAtHand DEF NoteAnswer, At, Holds, Phases
<1>2. Turned("paying", item.extraction, "running", item.sms)
  BY <1>1, PayingSays, Writing DEF NoteAnswer, Turned
<1>3. \E phase \in {"expiry", "idle"} : Moved(c, phase, 0)
  BY Going DEF NoteAnswer, Leaves, Places, Phases
<1> QED BY <1>1, <1>2, <1>3 DEF NoteAnswer, services

LEMMA NoteAnswerHands ==
  ASSUME Typed, Sound, Hands, NEW c \in Coroutines, NoteAnswer(c) PROVE Sound' /\ Hands'
<1>1. /\ Holds(c)
      /\ IF c = "tick" THEN item.stage = "payment_waiting_otp" ELSE item.job # 0
  BY NoteAnswerShape DEF Holds, Phases, Hands, Staged
<1>2. Sound' BY <1>1, NoteAnswerShape DEF Sound, Turned, Wrote, Says, Early
<1>3. Hands' BY <1>1, NoteAnswerShape, PutDown DEF Phases
<1> QED BY <1>2, <1>3

LEMMA CancelJobShape ==
  ASSUME Typed, Hands, CancelJob
  PROVE  /\ at["request"] = "cancels" /\ UNCHANGED <<item, numbers>>
         /\ \/ /\ Moved("request", "rewrites", got["request"])
               /\ jobs' = IF item.job # 0 /\ JobLive(item.job)
                          THEN [jobs EXCEPT ![item.job].status = "cancelled"] ELSE jobs
               /\ item.job \in Completed => "insisted" \in excuses'
            \/ Moved("request", "idle", 0) /\ UNCHANGED <<jobs, excuses>>
<1>1. Holds("request") /\ "request" \in Coroutines /\ at["request"] = "cancels"
  BY CoroutineFacts DEF CancelJob, At, Holds, Phases
<1>2. seen["request"].job = item.job BY <1>1, OneHolds
<1>3. CASE /\ jobs' = IF item.job # 0 /\ JobLive(item.job)
                      THEN [jobs EXCEPT ![item.job].status = "cancelled"] ELSE jobs
           /\ Excused(IF item.job \in Completed THEN {"insisted"} ELSE {})
           /\ GoesTo("request", "rewrites")
  <2>1. Moved("request", "rewrites", got["request"])
    BY <1>1, <1>3, Going DEF Places, Phases
  <2> QED BY <1>1, <1>3, <2>1 DEF CancelJob, Excused
<1>4. CASE GoesTo("request", "idle") /\ UNCHANGED <<jobs, excuses>>
  BY <1>1, <1>4, Going DEF CancelJob, Places, Phases
<1> QED BY <1>2, <1>3, <1>4 DEF CancelJob

LEMMA CancelJobHands ==
  ASSUME Typed, Sound, Hands, CancelJob PROVE Sound' /\ Hands'
<1>1. /\ Holds("request") /\ "request" \in Coroutines /\ at["request"] = "cancels"
      /\ item' = item
  BY CoroutineFacts, CancelJobShape DEF Holds, Phases
<1>2. CASE Moved("request", "rewrites", got["request"])
  <2>1. Staged("request")'
    BY <1>1, <1>2 DEF Moved, Staged, Starting, Rotating, JobStatuses
  <2>2. "rewrites" \in Places \ Phases BY DEF Places, Phases
  <2> QED BY <1>1, <1>2, <2>1, <2>2, HeldOn DEF Sound
<1>3. CASE Moved("request", "idle", 0)
  BY <1>1, <1>3, PutDown DEF Phases, Sound
<1> QED BY <1>2, <1>3, CancelJobShape

LEMMA ResetShape ==
  ASSUME Typed, Hands, Reset
  PROVE  /\ at["request"] = "rewrites" /\ jobs' = jobs /\ Moved("request", "idle", 0)
         /\ \/ "refused" \in excuses' /\ item' = item
            \/ /\ numbers' = Released(item.number) /\ excuses' = excuses
               /\ \/ item' = item
                  \/ Cleared("eligible", "pending", "pending")
                  \/ item.extraction = "succeeded"
                     /\ Cleared("payment_ready", item.extraction, "pending")
                  \/ Cleared("payment_failed", "succeeded", "failed")
<1>1. Holds("request") /\ "request" \in Coroutines /\ at["request"] = "rewrites"
      /\ item \in Docs
  BY CoroutineFacts, NatsAtHand DEF Reset, At, Holds, Phases
<1>2. seen["request"].number = item.number /\ seen["request"].extraction = item.extraction
  BY <1>1 DEF Hands, InHand
<1>3. Moved("request", "idle", 0) BY <1>1, Going DEF Reset, Places, Phases
<1>4. CASE ReleaseRefused("request", item.number) /\ UNCHANGED item
  BY <1>1, <1>3, <1>4 DEF Reset, ReleaseRefused, Excused
<1>5. CASE Releases(item.number) /\ (ResetExtraction \/ ResetPayment)
  <2>1. numbers' = Released(item.number) /\ excuses' = excuses /\ jobs' = jobs
    BY <1>5 DEF Releases, Reset
  <2>2. ResetExtraction => Cleared("eligible", "pending", "pending")
    BY <1>1, ResetSays, Writing DEF ResetExtraction, Cleared
  <2>3. Expires("request", seen["request"]) =>
          item' = item \/ Cleared("payment_failed", "succeeded", "failed")
    BY <1>1, ExpiredSays, Writing DEF Expires, Cleared
  <2>4. ResetPayment => \/ item' = item
                        \/ item.extraction = "succeeded"
                           /\ Cleared("payment_ready", item.extraction, "pending")
                        \/ Cleared("payment_failed", "succeeded", "failed")
    <3>1. Writes("request", [WithoutPayment(item, "pending") EXCEPT !.stage = "payment_ready"])
            => Cleared("payment_ready", item.extraction, "pending")
      BY <1>1, AgainSays, Writing DEF Cleared
    <3> QED BY <1>2, <2>3, <3>1 DEF ResetPayment
  <2> QED BY <1>1, <1>3, <1>5, <2>1, <2>2, <2>4
<1> QED BY <1>2, <1>4, <1>5 DEF Reset

LEMMA ResetHands ==
  ASSUME Typed, Sound, Hands, Reset PROVE Sound' /\ Hands'
<1>1. /\ Holds("request") /\ "request" \in Coroutines
  BY CoroutineFacts, ResetShape DEF Holds, Phases
<1>2. Sound' BY <1>1, ResetShape DEF Sound, Cleared, Wrote, Says, Early
<1>3. Hands' BY <1>1, ResetShape, PutDown DEF Phases
<1> QED BY <1>2, <1>3

(* What a deletion leaves.                                                      *)
Wiped == Says(item', item.id, "absent", "pending", "pending", 0, 0, "none", 0, 0)

LEMMA DeleteShape ==
  ASSUME Typed, Hands, Delete
  PROVE  /\ at["request"] = "deletes" /\ jobs' = jobs /\ Moved("request", "idle", 0)
         /\ \/ "refused" \in excuses' /\ item' = item
            \/ /\ numbers' = Released(IF item.sms \in {"completed", "code_submitted"} THEN 0
                                      ELSE item.number)
               /\ item.job # 0 /\ (JobLive(item.job) \/ item.job \in Completed) =>
                    "insisted" \in excuses'
               /\ \/ item' = item
                  \/ item.stage = "paid"
                     /\ Turned("archived", item.extraction, item.payment, item.sms)
                  \/ Wiped
<1>1. Holds("request") /\ "request" \in Coroutines /\ at["request"] = "deletes"
      /\ item \in Docs
  BY CoroutineFacts, NatsAtHand DEF Delete, At, Holds, Phases
<1>2. /\ seen["request"].number = item.number /\ seen["request"].sms = item.sms
      /\ seen["request"].job = item.job
  BY <1>1 DEF Hands, InHand
<1>3. Moved("request", "idle", 0) BY <1>1, Going DEF Delete, Places, Phases
<1>4. Writes("request", [item EXCEPT !.stage = "archived"]) =>
        Turned("archived", item.extraction, item.payment, item.sms)
  BY <1>1, ArchivedSays, Writing DEF Turned
<1>5. Writes("request", [Blank EXCEPT !.id = item.id]) => Wiped
  BY <1>1, OneHolds, DeletedSays DEF Wiped
<1>6. jobs' = jobs BY DEF Delete
<1>7. CASE \E n : ReleaseRefused("request", n) /\ UNCHANGED item
  BY <1>1, <1>3, <1>6, <1>7 DEF ReleaseRefused, Excused
<1>8. CASE /\ numbers' = Released(IF item.sms \in {"completed", "code_submitted"} THEN 0
                                  ELSE item.number)
           /\ Excused(IF item.job # 0 /\ (JobLive(item.job) \/ item.job \in Completed)
                      THEN {"insisted"} ELSE {})
           /\ \/ UNCHANGED item
              \/ item.stage = "paid" /\ Writes("request", [item EXCEPT !.stage = "archived"])
              \/ Writes("request", [Blank EXCEPT !.id = item.id])
  <2>1. item.job # 0 /\ (JobLive(item.job) \/ item.job \in Completed) => "insisted" \in excuses'
    BY <1>8 DEF Excused
  <2> QED BY <1>1, <1>3, <1>4, <1>5, <1>6, <1>8, <2>1
<1> QED BY <1>2, <1>7, <1>8 DEF Delete

LEMMA DeleteHands ==
  ASSUME Typed, Sound, Hands, Delete PROVE Sound' /\ Hands'
<1>1. /\ Holds("request") /\ "request" \in Coroutines
  BY CoroutineFacts, DeleteShape DEF Holds, Phases
<1>2. Sound' BY <1>1, DeleteShape DEF Sound, Turned, Wrote, Wiped, Says, Early
<1>3. Hands' BY <1>1, DeleteShape, PutDown DEF Phases
<1> QED BY <1>2, <1>3

------------------------------------------------------------------------------
(* Between the phases of the tick, and outside; until somebody has raced.       *)

LEMMA NobodyHolds ==
  ASSUME \A c \in Coroutines : at'[c] \in Phases
  PROVE  Hands'
<1>1. ASSUME NEW c \in Coroutines PROVE InHand(c)' /\ Staged(c)'
  BY DEF InHand, Staged, Holds, Phases, Starting, Rotating, JobStatuses
<1> QED BY <1>1, CoroutineFacts DEF Hands, Alone, Holds

(* The tick goes on without the record, which a request may have in its hands.  *)
LEMMA PhaseHands ==
  ASSUME Typed, Hands, at["tick"] \in Phases, item' = item,
         NEW phase \in Phases, NEW thing, Moved("tick", phase, thing)
  PROVE  Hands'
<1>1. at'["tick"] \in Phases BY DEF Moved
<1>2. InHand("tick")' /\ Staged("tick")'
  BY <1>1 DEF InHand, Staged, Holds, Phases, Starting, Rotating, JobStatuses
<1>3. InHand("request")' /\ Staged("request")'
  BY CoroutineFacts DEF Hands, InHand, Staged, Moved, OtherStays, Holds, Exists
<1>4. Alone' BY <1>1 DEF Alone, Holds
<1> QED BY <1>2, <1>3, <1>4, CoroutineFacts DEF Hands

LEMMA NotRaced ==
  ASSUME Typed, Calm', NEW c \in Coroutines, NEW reasons,
         Excused(reasons \cup Raced(c)) \/ Excused(Raced(c)), at[c] \in Phases
  PROVE  /\ \A d \in Coroutines : at[d] \in Phases
         /\ Raced(c) = {}
<1>1. "raced" \notin excuses' BY DEF Calm
<1>2. "raced" \notin Raced(c) BY <1>1 DEF Excused
<1>3. ~Holds(Other(c)) BY <1>2 DEF Raced
<1> QED BY <1>3, OtherFacts DEF Holds, Raced

LEMMA TickBeginsShape ==
  ASSUME Typed, TickBegins
  PROVE  /\ at["tick"] = "idle" /\ Moved("tick", "extractions", 0)
         /\ UNCHANGED <<jobs, numbers, excuses>>
         /\ \/ item' = item
            \/ /\ ~Exists
               /\ Says(item', item.id + 1, "eligible", "pending", "pending", 0, 0, "none", 0, 0)
<1>1. Moved("tick", "extractions", 0)
  BY CoroutineFacts, Going DEF TickBegins, Places, Phases
<1>2. \/ item' = item
      \/ /\ ~Exists
         /\ Says(item', item.id + 1, "eligible", "pending", "pending", 0, 0, "none", 0, 0)
  <2>1. item \in Docs BY DEF Typed
  <2>2. Says([Blank EXCEPT !.id = item.id + 1, !.stage = "eligible"],
             item.id + 1, "eligible", "pending", "pending", 0, 0, "none", 0, 0)
    BY <2>1, CreatedSays
  <2> QED BY <2>2 DEF TickBegins
<1> QED BY <1>1, <1>2 DEF TickBegins, At, services

LEMMA TickBeginsHands ==
  ASSUME Typed, Sound, Hands, TickBegins PROVE Sound' /\ Hands'
<1>1. at["tick"] \in Phases /\ "extractions" \in Phases
  BY TickBeginsShape DEF Phases
<1>2. CASE item' = item
  BY <1>1, <1>2, TickBeginsShape, PhaseHands DEF Sound
<1>3. CASE /\ ~Exists
           /\ Says(item', item.id + 1, "eligible", "pending", "pending", 0, 0, "none", 0, 0)
  <2>1. Sound' BY <1>3 DEF Says, Sound
  <2>2. \A c \in Coroutines : at[c] \in Phases
    BY <1>3 DEF Hands, InHand, Holds
  <2>3. \A c \in Coroutines : at'[c] \in Phases
    BY <1>1, <2>2, TickBeginsShape, CoroutineFacts DEF Moved, OtherStays
  <2> QED BY <2>1, <2>3, NobodyHolds
<1> QED BY <1>2, <1>3, TickBeginsShape

LEMMA FindsShape ==
  ASSUME Typed, Calm', NEW phase \in Phases, NEW found \in BOOLEAN, NEW place \in Places,
         NEW next \in Phases, Finds(phase, found, place, next)
  PROVE  /\ at["tick"] = phase /\ UNCHANGED <<item, jobs, numbers, excuses>>
         /\ \/ ~found /\ Moved("tick", next, 0)
            \/ /\ found /\ Took("tick", place)
               /\ \A c \in Coroutines : at[c] \in Phases
<1>1. at["tick"] = phase /\ UNCHANGED <<item, jobs, numbers>>
  BY DEF Finds, At, services
<1>2. CASE found
  <2>1. Reads("tick", place) BY <1>2 DEF Finds
  <2>2. Took("tick", place) BY <2>1, Reading, CoroutineFacts DEF Reads, Took
  <2>3. Raced("tick") = {} /\ \A c \in Coroutines : at[c] \in Phases
    BY <1>1, <2>1, CoroutineFacts, NotRaced DEF Reads
  <2>4. excuses' = excuses BY <2>1, <2>3 DEF Reads, Excused
  <2> QED BY <1>1, <1>2, <2>2, <2>3, <2>4
<1>3. CASE ~found
  <2>1. GoesTo("tick", next) /\ excuses' = excuses BY <1>3 DEF Finds
  <2>2. next \in Places BY DEF Places, Phases
  <2>3. Moved("tick", next, 0) BY <2>1, <2>2, Going, CoroutineFacts
  <2> QED BY <1>1, <1>3, <2>1, <2>3
<1> QED BY <1>2, <1>3

(* The four searches of the tick.                                               *)
Search == FindExtraction \/ FindPayment \/ FindEligible \/ FindReady

LEMMA SearchShape ==
  ASSUME Typed, Calm', Search
  PROVE  /\ UNCHANGED <<item, jobs, numbers, excuses>> /\ at["tick"] \in Phases
         /\ \/ \E next \in {"payments", "expiry", "pay", "idle"} : Moved("tick", next, 0)
            \/ /\ \A c \in Coroutines : at[c] \in Phases
               /\ \/ Took("tick", "task") /\ item.extraction = "running"
                  \/ /\ Took("tick", "job")
                     /\ item.job # 0 /\ item.payment \notin {"completed", "failed"}
                  \/ Took("tick", "creates") /\ item.stage = "eligible"
                  \/ Took("tick", "checks") /\ item.stage = "payment_ready"
<1>1. {"extractions", "payments", "expiry", "extract", "pay", "idle"} \subseteq Phases
      /\ {"task", "job", "creates", "checks"} \subseteq Places
  BY DEF Phases, Places, Starting
<1>2. CASE FindExtraction BY <1>1, <1>2, FindsShape DEF FindExtraction
<1>3. CASE FindPayment BY <1>1, <1>3, FindsShape DEF FindPayment
<1>4. CASE FindEligible BY <1>1, <1>4, FindsShape DEF FindEligible, Waiting
<1>5. CASE FindReady
  <2>1. Finds("pay", Payable, "checks", "idle") BY <1>5 DEF FindReady, Finds
  <2> QED BY <1>1, <2>1, FindsShape DEF Payable
<1> QED BY <1>2, <1>3, <1>4, <1>5 DEF Search

LEMMA SearchHands ==
  ASSUME Typed, Calm', Sound, Hands, Search PROVE Sound' /\ Hands'
<1>1. Sound' BY SearchShape DEF Sound
<1>2. CASE \E next \in {"payments", "expiry", "pay", "idle"} : Moved("tick", next, 0)
  BY <1>1, <1>2, SearchShape, PhaseHands DEF Phases
<1>3. ASSUME \A c \in Coroutines : at[c] \in Phases, NEW place, Took("tick", place),
             \/ place = "task" /\ item.extraction = "running"
             \/ /\ place = "job"
                /\ item.job # 0 /\ item.payment \notin {"completed", "failed"}
             \/ place = "creates" /\ item.stage = "eligible"
             \/ place = "checks" /\ item.stage = "payment_ready"
      PROVE  Hands'
  <2>1. Exists /\ item' = item
    BY <1>3, SearchShape DEF Sound, Exists, Early
  <2>2. item.stage \in Stages BY DEF Typed, Docs
  <2>3. place = "job" => item.stage \in UnderWay
    BY <1>3, <2>2 DEF Sound, Early, UnderWay, Stages
  <2>4. Staged("tick")'
    BY <1>3, <2>1, <2>3 DEF Took, Sound, Staged, Starting, Rotating, JobStatuses
  <2> QED BY <1>3, <2>1, <2>4, CoroutineFacts, TakenUp
<1> QED BY <1>1, <1>2, <1>3, SearchShape

LEMMA MarkExpiredShape ==
  ASSUME Typed, Calm', MarkExpired
  PROVE  /\ at["tick"] = "expiry" /\ Moved("tick", "retries", 0) /\ UNCHANGED <<jobs, numbers>>
         /\ \/ item' = item
            \/ /\ \A c \in Coroutines : at[c] \in Phases
               /\ item.extraction = "succeeded"
               /\ item.stage \in {"payment_ready", "payment_failed"}
               /\ Cleared("payment_failed", item.extraction, "failed")
<1>1. at["tick"] = "expiry" /\ Moved("tick", "retries", 0)
  BY CoroutineFacts, Going DEF MarkExpired, At, Places, Phases
<1>2. CASE item' # item
  <2>1. Excused(Raced("tick")) BY <1>2 DEF MarkExpired
  <2>2. \A c \in Coroutines : at[c] \in Phases
    BY <1>1, <2>1, CoroutineFacts, NotRaced DEF Phases
  <2>3. item \in Docs BY DEF Typed
  <2>4. Says([WithoutPayment(item, "failed") EXCEPT !.stage = "payment_failed"],
             item.id, "payment_failed", item.extraction, "failed", 0, 0, "none", 0,
             item.paymentRetry)
    BY <2>3, LapsedSays
  <2> QED BY <1>1, <1>2, <2>2, <2>4 DEF MarkExpired, Cleared, Wrote, services
<1> QED BY <1>1, <1>2 DEF MarkExpired, services

LEMMA MarkExpiredHands ==
  ASSUME Typed, Calm', Sound, Hands, MarkExpired PROVE Sound' /\ Hands'
<1>1. at["tick"] \in Phases /\ Moved("tick", "retries", 0) /\ "retries" \in Phases
  BY MarkExpiredShape DEF Phases
<1>2. CASE item' = item
  BY <1>1, <1>2, PhaseHands DEF Sound
<1>3. CASE item' # item
  <2>1. Sound' BY <1>3, MarkExpiredShape DEF Cleared, Wrote, Says, Sound, Early
  <2>2. \A c \in Coroutines : at'[c] \in Phases
    BY <1>1, <1>3, MarkExpiredShape, CoroutineFacts DEF Moved, OtherStays
  <2> QED BY <2>1, <2>2, NobodyHolds
<1> QED BY <1>2, <1>3

(* A payment that is tried again.                                               *)
Requeued == Says(item', item.id, "payment_ready", item.extraction, "pending", 0, 0, "none", 0,
                 item.paymentRetry + 1)

LEMMA QueueRetriesShape ==
  ASSUME Typed, Calm', QueueRetries
  PROVE  /\ at["tick"] = "retries" /\ Moved("tick", "extract", 0) /\ UNCHANGED <<jobs, numbers>>
         /\ \/ item' = item
            \/ /\ \A c \in Coroutines : at[c] \in Phases
               /\ \/ /\ item.stage = "extraction_failed"
                     /\ Turned("eligible", "pending", item.payment, item.sms)
                  \/ /\ item.stage = "payment_failed" /\ item.extraction = "succeeded"
                     /\ item.paymentRetry < PaymentRetries /\ Requeued
<1>1. at["tick"] = "retries" /\ Moved("tick", "extract", 0)
  BY CoroutineFacts, Going DEF QueueRetries, At, Places, Phases
<1>2. CASE item' # item
  <2>1. Excused(Raced("tick")) BY <1>2 DEF QueueRetries
  <2>2. \A c \in Coroutines : at[c] \in Phases
    BY <1>1, <2>1, CoroutineFacts, NotRaced DEF Phases
  <2>3. item \in Docs BY DEF Typed
  <2>4. CASE item.stage = "extraction_failed"
    <3>1. item' = [item EXCEPT !.stage = "eligible", !.extraction = "pending",
                               !.task = 0, !.extractionRetry = @ + 1]
      BY <1>2, <2>4 DEF QueueRetries
    <3>2. Turned("eligible", "pending", item.payment, item.sms)
      BY <2>3, <3>1, RetriedSays DEF Turned, Wrote
    <3> QED BY <1>1, <2>2, <2>4, <3>2 DEF QueueRetries, services
  <2>5. CASE item.stage # "extraction_failed"
    <3>1. /\ item.stage = "payment_failed" /\ item.extraction = "succeeded"
          /\ item.paymentRetry < PaymentRetries
          /\ item' = [WithoutPayment(item, "pending") EXCEPT
                        !.stage = "payment_ready", !.paymentRetry = @ + 1]
      BY <1>2, <2>5 DEF QueueRetries
    <3>2. Requeued BY <2>3, <3>1, RequeuedSays DEF Requeued
    <3> QED BY <1>1, <2>2, <3>1, <3>2 DEF QueueRetries, services
  <2> QED BY <2>4, <2>5
<1> QED BY <1>1, <1>2 DEF QueueRetries, services

LEMMA QueueRetriesHands ==
  ASSUME Typed, Calm', Sound, Hands, QueueRetries PROVE Sound' /\ Hands'
<1>1. at["tick"] \in Phases /\ Moved("tick", "extract", 0) /\ "extract" \in Phases
  BY QueueRetriesShape DEF Phases
<1>2. CASE item' = item
  BY <1>1, <1>2, PhaseHands DEF Sound
<1>3. CASE item' # item
  <2>1. Sound' BY <1>3, QueueRetriesShape DEF Turned, Wrote, Requeued, Says, Sound, Early
  <2>2. \A c \in Coroutines : at'[c] \in Phases
    BY <1>1, <1>3, QueueRetriesShape, CoroutineFacts DEF Moved, OtherStays
  <2> QED BY <2>1, <2>2, NobodyHolds
<1> QED BY <1>2, <1>3

LEMMA AskedShape ==
  ASSUME Typed, Calm', Asked
  PROVE  /\ UNCHANGED <<item, jobs, numbers>> /\ "asked" \in excuses'
         /\ \A c \in Coroutines : at[c] \in Phases
         /\ \/ Took("request", "creates") /\ item.stage = "eligible"
            \/ Took("request", "checks") /\ item.stage = "payment_ready"
            \/ Took("request", "enters") /\ item.job # 0
            \/ Exists /\ \E place \in {"cancels", "deletes"} : Took("request", place)
<1>1. ASSUME NEW place \in Places, NEW when, Request(place, when)
      PROVE  /\ UNCHANGED <<item, jobs, numbers>> /\ "asked" \in excuses' /\ when
             /\ \A c \in Coroutines : at[c] \in Phases
             /\ Took("request", place)
  <2>1. Took("request", place)
    BY <1>1, CoroutineFacts, Reading DEF Request, Took
  <2>2. at["request"] \in Phases BY <1>1 DEF Request, At, Phases
  <2>3. \A c \in Coroutines : at[c] \in Phases
    BY <1>1, <2>2, CoroutineFacts, NotRaced DEF Request
  <2> QED BY <1>1, <2>1, <2>3 DEF Request, Excused, services
<1>2. {"creates", "checks", "enters", "cancels", "deletes"} \subseteq Places
  BY DEF Places, Starting
<1>3. CASE AskExtraction BY <1>1, <1>2, <1>3 DEF AskExtraction, Waiting
<1>4. CASE AskPayment BY <1>1, <1>2, <1>4 DEF AskPayment, Payable
<1>5. CASE AskOtp BY <1>1, <1>2, <1>5 DEF AskOtp
<1>6. CASE AskReset BY <1>1, <1>2, <1>6 DEF AskReset
<1>7. CASE AskDelete BY <1>1, <1>2, <1>7 DEF AskDelete
<1> QED BY <1>3, <1>4, <1>5, <1>6, <1>7 DEF Asked

LEMMA AskedHands ==
  ASSUME Typed, Calm', Sound, Hands, Asked PROVE Sound' /\ Hands'
<1>1. Sound' BY AskedShape DEF Sound
<1>2. ASSUME NEW place, Took("request", place),
             \/ place = "creates" /\ item.stage = "eligible"
             \/ place = "checks" /\ item.stage = "payment_ready"
             \/ place = "enters" /\ item.job # 0
             \/ place \in {"cancels", "deletes"} /\ Exists
      PROVE  Hands'
  <2>1. Exists /\ item' = item
    BY <1>2, AskedShape DEF Sound, Exists, Early
  <2>2. Staged("request")'
    BY <1>2, <2>1 DEF Took, Staged, Starting, Rotating, JobStatuses
  <2> QED BY <1>2, <2>1, <2>2, AskedShape, CoroutineFacts, TakenUp
<1> QED BY <1>1, <1>2, AskedShape

(* What happens outside leaves the coroutines as they are, but for a restart.   *)
LEMMA OutsideShape ==
  ASSUME Outside
  PROVE  \/ UNCHANGED <<item, at, seen, got>>
         \/ Restart
  BY DEF Outside, TaskEnds, LinkAges, JobPrompts, JobEnds, NumberLapses, AccountLapses,
         SidecarRestarts, coroutines

LEMMA OutsideHands ==
  ASSUME Typed, Sound, Hands, Outside PROVE Sound' /\ Hands'
<1>1. CASE UNCHANGED <<item, at, seen, got>>
  BY <1>1 DEF Sound, Hands, Alone, InHand, Staged, Holds, Exists
<1>2. CASE Restart
  BY <1>2, NobodyHolds DEF Restart, Sound, Phases
<1> QED BY <1>1, <1>2, OutsideShape

(* Where the database fails and nothing is lost, the hands are empty, and a      *)
(* number may have been given back.                                             *)
LEMMA DatabaseFailsShape ==
  ASSUME Typed, Calm', NEW c \in Coroutines, DatabaseFails(c)
  PROVE  /\ at[c] \notin {"idle", "notes", "renotes", "posts", "tracks", "enters"}
         /\ c = "request" => at[c] # "told"
         /\ Moved(c, "idle", 0) /\ UNCHANGED <<item, jobs>>
         /\ numbers' = numbers \/ \E n \in Nat : numbers' = Released(n)
<1>1. "blind" \notin excuses' /\ "unrecorded" \notin excuses' BY DEF Calm
<1>2. numbers' \in {numbers, Returned(c)} /\ UNCHANGED jobs /\ ~Lost(c)
  BY <1>1 DEF DatabaseFails, Excused
<1>3. UNCHANGED item BY <1>2 DEF DatabaseFails, Lost, At
<1>4. Moved(c, "idle", 0) BY Going DEF DatabaseFails, Places, Phases
<1> QED BY <1>2, <1>3, <1>4, ReturnedTyped DEF DatabaseFails, Lost, At

LEMMA DatabaseFailsHands ==
  ASSUME Typed, Calm', Sound, Hands, NEW c \in Coroutines, DatabaseFails(c)
  PROVE  Sound' /\ Hands'
<1>1. Moved(c, "idle", 0) /\ item' = item BY DatabaseFailsShape
<1>2. Sound' BY <1>1 DEF Sound
<1>3. CASE Holds(c) BY <1>1, <1>2, <1>3, PutDown DEF Phases
<1>4. CASE ~Holds(c)
  <2>1. at[c] \in Phases /\ at'[c] \in Phases BY <1>1, <1>4 DEF Holds, Moved, Phases
  <2>2. \A d \in Coroutines \ {c} : InHand(d)' /\ Staged(d)'
    BY <1>1 DEF Hands, InHand, Staged, Moved, OtherStays, Holds, Exists
  <2>3. InHand(c)' /\ Staged(c)'
    BY <2>1 DEF InHand, Staged, Holds, Phases, Starting, Rotating, JobStatuses
  <2>4. Alone' BY <1>1, <2>1, CoroutineFacts DEF Hands, Alone, Holds, Moved, OtherStays
  <2> QED BY <1>2, <2>2, <2>3, <2>4 DEF Hands
<1> QED BY <1>2, <1>3, <1>4

LEMMA HandsNext ==
  ASSUME Typed, Calm', Sound, Hands, [Next]_vars PROVE Sound' /\ Hands'
<1>1. CASE Tick
  BY <1>1, TickBeginsHands, SearchHands, SettleExtractionHands, GetJobHands,
     SettleRunningHands, SettleAwaitingHands, SettleCompletedHands, SettleFailedHands,
     RefreshHands, ReadSmsHands, RotateHands, NoteCodeHands, TellPhoneHands,
     MarkExpiredHands, QueueRetriesHands DEF Tick, Search
<1>2. ASSUME NEW c \in Coroutines, Step(c) PROVE Sound' /\ Hands'
  BY <1>2, CreateTaskHands, BeginExtractionHands, CheckPaymentHands, BuyNumberHands,
     NoteNumberHands, PostJobHands, PostJobFailsHands, TrackJobHands, EnterCodeHands,
     NoteAnswerHands DEF Step
<1>3. CASE Answers
  BY <1>3, CancelJobHands, ResetHands, DeleteHands DEF Answers
<1>4. CASE UNCHANGED vars
  BY <1>4 DEF vars, Sound, Hands, Alone, InHand, Staged, Holds, Exists
<1> QED BY <1>1, <1>2, <1>3, <1>4, AskedHands, OutsideHands, DatabaseFailsHands DEF Next

------------------------------------------------------------------------------
(* The sidecar does not forget a job.                                           *)

(* Only jobs are added, and the statuses of jobs changed.                       *)
JobsWorkedOn ==
  \/ jobs' = jobs
  \/ \E c \in Coroutines : jobs' = Append(jobs, NewJob(c))
  \/ \E k \in DOMAIN jobs, s \in JobStatuses : jobs' = [jobs EXCEPT ![k].status = s]

LEMMA WorkingOnJobs ==
  ASSUME Typed, Calm', Hands, [Next]_vars
  PROVE  JobsWorkedOn
<1>1. ASSUME NEW c \in Coroutines, Asks(c), jobs' = Answered(c) PROVE JobsWorkedOn
  <2>1. seen[c].job \in DOMAIN jobs /\ "running" \in JobStatuses
    BY <1>1 DEF Asks, Typed, JobStatuses
  <2> QED BY <1>1, <2>1 DEF JobsWorkedOn, Answered
<1>2. ASSUME NEW c \in Coroutines, Step(c) PROVE JobsWorkedOn
  <2>1. CASE EnterCode(c) BY <1>1, <2>1, EnterCodeShape DEF Calm, JobsWorkedOn
  <2>2. CASE PostJob(c) \/ PostJobFails(c)
    BY <2>2, PostJobShape, PostJobFailsShape DEF Calm, JobsWorkedOn
  <2> QED BY <1>2, <2>1, <2>2
         DEF Step, CreateTask, BeginExtraction, CheckPayment, BuyNumber, NoteNumber, TrackJob,
             NoteAnswer, services, JobsWorkedOn
<1>3. CASE Tick
  <2>1. CASE TellPhone
    BY <1>1, <2>1, TellPhoneShape, CoroutineFacts DEF Calm, JobsWorkedOn
  <2>2. CASE FindExtraction \/ FindPayment \/ FindEligible \/ FindReady \/ TickBegins
    BY <2>2 DEF FindExtraction, FindPayment, FindEligible, FindReady, TickBegins, Finds,
                services, JobsWorkedOn
  <2> QED BY <1>3, <2>1, <2>2
         DEF Tick, SettleExtraction, GetJob, SettleRunning, SettleAwaiting, SettleCompleted,
             SettleFailed, Refresh, ReadSms, Rotate, NoteCode, MarkExpired, QueueRetries,
             services, JobsWorkedOn
<1>4. CASE Answers
  <2>1. CASE CancelJob
    <3>1. item.job # 0 => item.job \in DOMAIN jobs BY DEF Typed
    <3> QED BY <2>1, <3>1, CancelJobShape DEF JobStatuses, JobsWorkedOn
  <2> QED BY <1>4, <2>1 DEF Answers, Reset, Delete, JobsWorkedOn
<1>5. CASE Outside
  <2>1. ~SidecarRestarts BY DEF SidecarRestarts, Calm, Excused
  <2> QED BY <1>5, <2>1
         DEF Outside, TaskEnds, LinkAges, JobPrompts, JobEnds, NumberLapses, AccountLapses,
             Restart, services, JobStatuses, JobsWorkedOn
<1>6. CASE Asked BY <1>6, AskedShape DEF JobsWorkedOn
<1>7. CASE UNCHANGED vars BY <1>7 DEF vars, services, JobsWorkedOn
<1>8. ASSUME NEW c \in Coroutines, DatabaseFails(c) PROVE JobsWorkedOn
  BY <1>8, DatabaseFailsShape DEF JobsWorkedOn
<1> QED BY <1>2, <1>3, <1>4, <1>5, <1>6, <1>7, <1>8 DEF Next

LEMMA RememberedNext ==
  ASSUME Typed, Calm', Hands, Remembered, [Next]_vars
  PROVE  Remembered'
<1>1. CASE jobs' = jobs BY <1>1 DEF Remembered
<1>2. ASSUME NEW c \in Coroutines, jobs' = Append(jobs, NewJob(c)) PROVE Remembered'
  <2>1. /\ jobs' \in Seq(JobRecords) /\ Len(jobs') = Len(jobs) + 1
        /\ jobs'[Len(jobs) + 1] = NewJob(c)
        /\ \A k \in DOMAIN jobs : jobs'[k] = jobs[k]
    BY <1>2, AnsweringTyped DEF JobsKept
  <2>2. \A k \in DOMAIN jobs' : k \in DOMAIN jobs \/ k = Len(jobs) + 1
    <3>1. jobs \in Seq(JobRecords) BY DEF Typed
    <3> QED BY <2>1, <3>1
  <2> QED BY <2>1, <2>2 DEF Remembered, NewJob
<1>3. ASSUME NEW k \in DOMAIN jobs, NEW s, jobs' = [jobs EXCEPT ![k].status = s]
      PROVE  Remembered'
  <2>1. \A m \in DOMAIN jobs : jobs[m] \in JobRecords BY DEF Typed
  <2> QED BY <1>3, <2>1 DEF Remembered, JobRecords
<1> QED BY <1>1, <1>2, <1>3, WorkingOnJobs DEF JobsWorkedOn

------------------------------------------------------------------------------
(* The jobs that have paid, or may do so without being asked.                   *)

NonePays == \A k \in DOMAIN jobs : ~Paying(k)

LEMMA NonePaysKept ==
  ASSUME Typed', JobsKnown, NonePays, jobs' = jobs
  PROVE  JobsKnown'
<1>1. item'.job \in 0 .. Len(jobs') /\ jobs' \in Seq(JobRecords) BY DEF Typed
<1>2. item'.job # 0 => item'.job \in DOMAIN jobs' BY <1>1
<1> QED BY <1>2 DEF JobsKnown, NonePays, Paying, Quiet

(* Nothing pays for a record that is not under way, nor where a coroutine knows *)
(* that the job of the record does no more.                                     *)
LEMMA NothingTracked ==
  ASSUME JobsKnown, \A c \in Coroutines : at[c] \notin {"tracks", "told"},
         item.stage \notin UnderWay \cup {"paid"}
  PROVE  NonePays
  BY CoroutineFacts DEF JobsKnown, NonePays, Tracked

LEMMA OnlyTheRecords ==
  ASSUME JobsKnown, \A c \in Coroutines : at[c] # "tracks",
         NEW k \in DOMAIN jobs, Paying(k)
  PROVE  item.job = k
  BY DEF JobsKnown, Tracked

LEMMA NonePaysHeld ==
  ASSUME Typed, Hands, JobsKnown, NEW c \in Coroutines, Holds(c),
         \/ /\ at[c] \notin {"tracks", "told"}
            /\ item.stage \notin UnderWay \cup {"paid"}
         \/ at[c] \in Prompted
         \/ c = "tick" /\ at[c] = "enters"
  PROVE  NonePays
<1>1. \A d \in Coroutines \ {c} : at[d] \notin {"tracks", "told"}
  BY OneHolds DEF Phases
<1>2. CASE at[c] \notin {"tracks", "told"} /\ item.stage \notin UnderWay \cup {"paid"}
  BY <1>1, <1>2, NothingTracked
<1>3. CASE at[c] \in Prompted \/ (c = "tick" /\ at[c] = "enters")
  <2>1. \A d \in Coroutines : at[d] # "tracks"
    BY <1>1, <1>3 DEF Prompted
  <2>2. item.job # 0 => ~Paying(item.job)
    BY <1>3 DEF JobsKnown, Quiet
  <2>3. \A k \in DOMAIN jobs : k # 0 BY DEF Typed
  <2> QED BY <2>1, <2>2, <2>3, OnlyTheRecords DEF NonePays
<1> QED BY <1>2, <1>3

(* The coroutine c goes to a place that says nothing of the job, the record     *)
(* keeps it, and is under way or stays where it was.                            *)
LEMMA JobsStay ==
  ASSUME JobsKnown, jobs' = jobs, item'.job = item.job, NEW c \in Coroutines, OtherStays(c),
         at[c] # "tracks", at'[c] \notin Prompted \cup {"tracks"},
         c = "tick" => at'[c] # "enters",
         \/ item'.stage \in UnderWay \cup {"paid"}
         \/ item'.stage = item.stage /\ (c = "request" => at[c] # "told")
  PROVE  JobsKnown'
<1>1. \A k \in DOMAIN jobs : Tracked(k) => Tracked(k)'
  BY CoroutineFacts DEF Tracked, OtherStays
<1>2. ASSUME NEW d \in Coroutines PROVE Quiet(d)'
  <2>1. CASE d = c BY <2>1 DEF Quiet
  <2>2. CASE d # c
    BY <2>2 DEF Quiet, JobsKnown, OtherStays, Paying
  <2> QED BY <2>1, <2>2
<1> QED BY <1>1, <1>2 DEF JobsKnown, Paying

LEMMA ExtractionJobs ==
  ASSUME Typed, Typed', Sound, Hands, JobsKnown, NEW c \in Coroutines,
         \/ c = "tick" /\ SettleExtraction
         \/ CreateTask(c) \/ BeginExtraction(c) \/ CheckPayment(c)
  PROVE  JobsKnown'
<1>1. /\ at[c] \in {"task", "creates", "begins", "checks"} /\ jobs' = jobs
  BY SettleExtractionShape, CreateTaskShape, BeginExtractionShape, CheckPaymentShape
     DEF SettleExtraction, CreateTask, BeginExtraction, CheckPayment, services
<1>2. Holds(c) BY <1>1 DEF Holds, Phases
<1>3. item.stage \notin UnderWay \cup {"paid"} /\ at[c] \notin {"tracks", "told"}
  BY <1>1 DEF Hands, Staged, Starting, UnderWay
<1>4. NonePays BY <1>2, <1>3, NonePaysHeld
<1> QED BY <1>1, <1>4, NonePaysKept

LEMMA BuyingJobs ==
  ASSUME Typed, Typed', Sound, Hands, JobsKnown, NEW c \in Coroutines,
         BuyNumber(c) \/ NoteNumber(c)
  PROVE  JobsKnown'
<1>1. /\ at[c] \in {"buys", "rebuys", "notes", "renotes"} /\ jobs' = jobs
  BY BuyNumberShape, NoteNumberShape DEF BuyNumber, NoteNumber, services
<1>2. Holds(c) BY <1>1 DEF Holds, Phases
<1>3. at[c] \in {"buys", "notes"} =>
        item.stage \notin UnderWay \cup {"paid"} /\ at[c] \notin {"tracks", "told"}
  BY <1>1 DEF Hands, Staged, Starting, UnderWay
<1>4. NonePays BY <1>1, <1>2, <1>3, NonePaysHeld DEF Prompted
<1> QED BY <1>1, <1>4, NonePaysKept

LEMMA PostJobJobs ==
  ASSUME Typed, Typed', Sound, Hands, JobsKnown, NEW c \in Coroutines, PostJob(c)
  PROVE  JobsKnown'
<1>1. /\ at[c] = "posts" /\ Moved(c, "tracks", Len(jobs) + 1) /\ item' = item
      /\ jobs' = Append(jobs, NewJob(c))
  BY PostJobShape
<1>2. Holds(c) BY <1>1 DEF Holds, Phases
<1>3. item.stage \notin UnderWay \cup {"paid"}
  BY <1>1 DEF Hands, Staged, Starting, UnderWay
<1>4. NonePays BY <1>1, <1>2, <1>3, NonePaysHeld
<1>5. /\ Len(jobs') = Len(jobs) + 1 /\ jobs'[Len(jobs) + 1] = NewJob(c)
      /\ \A k \in DOMAIN jobs : jobs'[k] = jobs[k]
  BY <1>1, AnsweringTyped
<1>6. \A k \in DOMAIN jobs' : k \in DOMAIN jobs \/ k = Len(jobs) + 1
  <2>1. jobs \in Seq(JobRecords) /\ jobs' \in Seq(JobRecords) BY DEF Typed
  <2> QED BY <1>5, <2>1
<1>7. at'[c] = "tracks" /\ got'[c] = Len(jobs) + 1 BY <1>1 DEF Moved
<1>8. ASSUME NEW k \in DOMAIN jobs' PROVE Paying(k)' => Tracked(k)'
  <2>1. CASE k \in DOMAIN jobs
    BY <1>4, <1>5, <2>1 DEF NonePays, Paying
  <2>2. CASE k = Len(jobs) + 1
    BY <1>7, <2>2 DEF Tracked
  <2> QED BY <1>6, <2>1, <2>2
<1>9. ASSUME NEW d \in Coroutines PROVE Quiet(d)'
  <2>1. d # c => at'[d] \in Phases BY <1>1, <1>2, OneHolds DEF Moved, OtherStays
  <2> QED BY <1>7, <2>1 DEF Quiet, Prompted, Phases
<1> QED BY <1>8, <1>9 DEF JobsKnown

LEMMA PostJobFailsJobs ==
  ASSUME Typed, Typed', Calm', Sound, Hands, JobsKnown, NEW c \in Coroutines, PostJobFails(c)
  PROVE  JobsKnown'
<1>1. /\ at[c] = "posts" /\ jobs' = jobs
  BY PostJobFailsShape DEF Calm
<1>2. Holds(c) BY <1>1 DEF Holds, Phases
<1>3. item.stage \notin UnderWay \cup {"paid"}
  BY <1>1 DEF Hands, Staged, Starting, UnderWay
<1>4. NonePays BY <1>1, <1>2, <1>3, NonePaysHeld
<1> QED BY <1>1, <1>4, NonePaysKept

LEMMA TrackJobJobs ==
  ASSUME Typed, Typed', Sound, Hands, JobsKnown, NEW c \in Coroutines, TrackJob(c)
  PROVE  JobsKnown'
<1>1. /\ at[c] = "tracks" /\ Moved(c, "idle", 0) /\ jobs' = jobs
      /\ item'.stage = "paying" /\ item'.job = got[c]
  BY TrackJobShape DEF Wrote, Says
<1>2. Holds(c) BY <1>1 DEF Holds, Phases
<1>3. item.job = 0
  BY <1>1 DEF Hands, Staged, Starting, Sound
<1>4. \A d \in Coroutines \ {c} : at[d] \in Phases BY <1>2, OneHolds
<1>5. ASSUME NEW k \in DOMAIN jobs, Paying(k) PROVE k = got[c]
  <2>1. k # 0 BY DEF Typed
  <2> QED BY <1>3, <1>4, <1>5, <2>1 DEF JobsKnown, Tracked, Phases
<1>6. \A k \in DOMAIN jobs : Paying(k) => Tracked(k)'
  BY <1>1, <1>5 DEF Tracked, UnderWay
<1>7. \A d \in Coroutines : at'[d] \in Phases
  BY <1>1, <1>4 DEF Moved, OtherStays, Phases
<1>8. \A d \in Coroutines : Quiet(d)'
  BY <1>7 DEF Quiet, Prompted, Phases
<1> QED BY <1>1, <1>6, <1>8 DEF JobsKnown, Paying

LEMMA GetJobJobs ==
  ASSUME Typed, Typed', Sound, Hands, Remembered, JobsKnown, GetJob
  PROVE  JobsKnown'
<1>1. at["tick"] = "job" /\ item.job \in DOMAIN jobs /\ jobs' = jobs /\ "tick" \in Coroutines
  BY GetJobShape, CoroutineFacts
<1>2. item' = item
  BY <1>1, GetJobShape DEF Remembered
<1>3. CASE \E phase \in {"expiry", "idle"} : Moved("tick", phase, 0)
  BY <1>1, <1>2, <1>3, JobsStay DEF Moved, Prompted
<1>4. CASE Moved("tick", jobs[item.job].status, got["tick"])
  <2>1. at'["tick"] = jobs[item.job].status /\ OtherStays("tick") BY <1>4 DEF Moved
  <2>2. jobs[item.job].status \in JobStatuses
    <3>1. jobs[item.job] \in JobRecords BY <1>1 DEF Typed
    <3> QED BY <3>1 DEF JobRecords
  <2>3. CASE jobs[item.job].status \in {"running", "completed"}
    BY <1>1, <1>2, <2>1, <2>3, JobsStay DEF Prompted
  <2>4. CASE jobs[item.job].status \in {"awaiting_otp", "failed", "cancelled"}
    <3>1. ~Paying(item.job) BY <2>4 DEF Paying
    <3>2. \A d \in Coroutines : Quiet(d)'
      <4>1. ~Paying(item.job)' BY <1>1, <1>2, <3>1 DEF Paying
      <4> QED BY <4>1 DEF Quiet
    <3>3. \A k \in DOMAIN jobs : Tracked(k) => Tracked(k)'
      BY <1>1, <1>2, <2>1, CoroutineFacts DEF Tracked, OtherStays
    <3> QED BY <1>1, <3>2, <3>3 DEF JobsKnown, Paying
  <2> QED BY <2>2, <2>3, <2>4 DEF JobStatuses
<1> QED BY <1>3, <1>4, GetJobShape

LEMMA SettlingJobs ==
  ASSUME Typed, Typed', Sound, Hands, JobsKnown,
         SettleRunning \/ SettleCompleted \/ NoteCode
  PROVE  JobsKnown'
<1>1. /\ at["tick"] # "tracks" /\ Moved("tick", "expiry", 0) /\ jobs' = jobs
      /\ item'.stage \in UnderWay \cup {"paid"} /\ item'.job = item.job
  BY SettleRunningShape, SettleCompletedShape, NoteCodeShape DEF Turned, Wrote, Says, UnderWay
<1> QED BY <1>1, CoroutineFacts, JobsStay DEF Moved, Prompted

LEMMA PromptedJobs ==
  ASSUME Typed, Typed', Sound, Hands, JobsKnown,
         SettleAwaiting \/ SettleFailed \/ Refresh \/ ReadSms \/ Rotate
  PROVE  JobsKnown'
<1>1. /\ at["tick"] \in {"awaiting_otp", "failed", "cancelled", "refresh", "sms", "rotates"}
      /\ jobs' = jobs
  BY SettleAwaitingShape, SettleFailedShape, RefreshShape, ReadSmsShape, RotateShape
<1>2. Holds("tick") BY <1>1 DEF Holds, Phases
<1>3. NonePays BY <1>1, <1>2, NonePaysHeld, CoroutineFacts DEF Prompted
<1> QED BY <1>1, <1>3, NonePaysKept

(* The job takes an answer, and the coroutine goes where that is known.         *)
LEMMA AnsweredJobs ==
  ASSUME Typed, Typed', Hands, JobsKnown, NEW c \in Coroutines, Holds(c), Asks(c),
         jobs' = Answered(c), item' = item, at[c] # "tracks",
         at'[c] \notin Prompted \cup Phases \cup {"enters"}, OtherStays(c),
         item.stage \in UnderWay \/ (c = "request" /\ at'[c] = "told")
  PROVE  JobsKnown'
<1>1. item.job = seen[c].job /\ \A d \in Coroutines \ {c} : at[d] \in Phases
  BY OneHolds
<1>2. DOMAIN jobs' = DOMAIN jobs
  BY AnsweringTyped DEF Typed
<1>3. ASSUME NEW k \in DOMAIN jobs PROVE Paying(k)' => Tracked(k)'
  <2>1. CASE k = item.job BY <2>1 DEF Tracked
  <2>2. CASE k # item.job
    <3>1. jobs'[k] = jobs[k] BY <1>1, <2>2, AnsweringTyped
    <3>2. ~Paying(k) BY <1>1, <2>2, OnlyTheRecords DEF Phases
    <3> QED BY <3>1, <3>2 DEF Paying
  <2> QED BY <2>1, <2>2
<1>4. ASSUME NEW d \in Coroutines PROVE Quiet(d)'
  <2>1. d # c => at'[d] \in Phases BY <1>1 DEF OtherStays
  <2> QED BY <2>1 DEF Quiet, Prompted, Phases
<1> QED BY <1>2, <1>3, <1>4 DEF JobsKnown

LEMMA EnterCodeJobs ==
  ASSUME Typed, Typed', Calm', Sound, Hands, JobsKnown, NEW c \in Coroutines, EnterCode(c)
  PROVE  JobsKnown'
<1>1. /\ at[c] = "enters" /\ Holds(c) /\ item' = item
      /\ c = "tick" => item.stage \in UnderWay
  BY EnterCodeShape DEF Holds, Phases, Hands, Staged, UnderWay
<1>2. CASE /\ Moved(c, IF c = "tick" THEN "entered" ELSE "told", got[c])
           /\ Asks(c) /\ jobs' = Answered(c)
  <2>1. /\ at'[c] = (IF c = "tick" THEN "entered" ELSE "told") /\ OtherStays(c)
        /\ c = "tick" \/ c = "request"
    BY <1>2, CoroutineFacts DEF Moved
  <2>2. at'[c] \notin Prompted \cup Phases \cup {"enters"}
    BY <2>1 DEF Prompted, Phases
  <2> QED BY <1>1, <1>2, <2>1, <2>2, AnsweredJobs
<1>3. CASE Moved(c, "idle", 0) /\ jobs' = jobs
  BY <1>1, <1>3, JobsStay DEF Moved, Prompted
<1> QED BY <1>2, <1>3, EnterCodeShape DEF Calm

LEMMA TellPhoneJobs ==
  ASSUME Typed, Typed', Calm', Sound, Hands, JobsKnown, TellPhone
  PROVE  JobsKnown'
<1>1. /\ at["tick"] = "tells" /\ Holds("tick") /\ "tick" \in Coroutines
      /\ item.stage \in UnderWay
  BY TellPhoneShape, CoroutineFacts DEF Holds, Phases, Hands, Staged, Rotating, UnderWay
<1>2. CASE /\ Moved("tick", "told", got["tick"]) /\ item' = item
           /\ Asks("tick") /\ jobs' = Answered("tick")
  <2>1. at'["tick"] = "told" /\ OtherStays("tick") BY <1>2 DEF Moved
  <2>2. at'["tick"] \notin Prompted \cup Phases \cup {"enters"}
    BY <2>1 DEF Prompted, Phases
  <2> QED BY <1>1, <1>2, <2>1, <2>2, AnsweredJobs
<1>3. CASE jobs' = jobs
  <2>1. NonePays BY <1>1, NonePaysHeld DEF Prompted
  <2> QED BY <1>3, <2>1, NonePaysKept
<1> QED BY <1>2, <1>3, TellPhoneShape DEF Calm

LEMMA NoteAnswerJobs ==
  ASSUME Typed, Typed', Sound, Hands, JobsKnown, NEW c \in Coroutines, NoteAnswer(c)
  PROVE  JobsKnown'
<1>1. /\ at[c] = "told" /\ jobs' = jobs /\ item'.stage = "paying" /\ item'.job = item.job
      /\ \E phase \in {"expiry", "idle"} : Moved(c, phase, 0)
  BY NoteAnswerShape DEF Turned, Wrote, Says
<1>2. at'[c] \in {"expiry", "idle"} /\ OtherStays(c) BY <1>1 DEF Moved
<1> QED BY <1>1, <1>2, JobsStay DEF Prompted, UnderWay

LEMMA CancelJobJobs ==
  ASSUME Typed, Typed', Sound, Hands, JobsKnown, CancelJob, "insisted" \notin excuses'
  PROVE  JobsKnown'
<1>1. /\ at["request"] = "cancels" /\ Holds("request") /\ "request" \in Coroutines
      /\ item' = item
  BY CancelJobShape, CoroutineFacts DEF Holds, Phases
<1>2. CASE Moved("request", "idle", 0) /\ jobs' = jobs
  BY <1>1, <1>2, JobsStay DEF Moved, Prompted
<1>3. CASE /\ jobs' = IF item.job # 0 /\ JobLive(item.job)
                      THEN [jobs EXCEPT ![item.job].status = "cancelled"] ELSE jobs
           /\ item.job \in Completed => "insisted" \in excuses'
  <2>1. \A d \in Coroutines : at[d] # "tracks"
    BY <1>1, OneHolds DEF Phases
  <2>2. /\ DOMAIN jobs' = DOMAIN jobs
        /\ \A k \in DOMAIN jobs : k # item.job => jobs'[k] = jobs[k]
    BY <1>3
  <2>3. ASSUME NEW k \in DOMAIN jobs PROVE ~Paying(k)'
    <3>1. jobs[k] \in JobRecords BY DEF Typed
    <3>2. CASE k # item.job
      BY <2>1, <2>2, <3>2, OnlyTheRecords DEF Paying
    <3>3. CASE k = item.job /\ JobLive(k)
      <4>1. k # 0 BY DEF Typed
      <4>2. jobs'[k] = [jobs[k] EXCEPT !.status = "cancelled"] BY <1>3, <3>3, <4>1
      <4> QED BY <3>1, <4>2 DEF Paying, JobRecords
    <3>4. CASE k = item.job /\ ~JobLive(k)
      <4>1. jobs' = jobs BY <1>3, <3>4
      <4>2. k \notin Completed BY <1>3, <3>4
      <4> QED BY <3>4, <4>1, <4>2 DEF Paying, JobLive, Completed
    <3> QED BY <3>2, <3>3, <3>4
  <2>4. item'.job # 0 => item'.job \in DOMAIN jobs'
    BY DEF Typed
  <2> QED BY <2>2, <2>3, <2>4 DEF JobsKnown, Quiet
<1> QED BY <1>2, <1>3, CancelJobShape

LEMMA ResetJobs ==
  ASSUME Typed, Typed', Sound, Hands, JobsKnown, Reset
  PROVE  JobsKnown'
<1>1. at["request"] = "rewrites" /\ Holds("request") /\ jobs' = jobs
  BY ResetShape DEF Holds, Phases
<1>2. NonePays BY <1>1, NonePaysHeld, CoroutineFacts DEF Prompted
<1> QED BY <1>1, <1>2, NonePaysKept

LEMMA DeleteJobs ==
  ASSUME Typed, Typed', Sound, Hands, JobsKnown, Delete, "insisted" \notin excuses'
  PROVE  JobsKnown'
<1>1. /\ at["request"] = "deletes" /\ Holds("request") /\ "request" \in Coroutines
      /\ jobs' = jobs /\ Moved("request", "idle", 0)
  BY DeleteShape, CoroutineFacts DEF Holds, Phases
<1>2. CASE item' = item
  BY <1>1, <1>2, JobsStay DEF Moved, Prompted
<1>3. CASE item.job # 0 /\ (JobLive(item.job) \/ item.job \in Completed) =>
             "insisted" \in excuses'
  <2>1. \A d \in Coroutines : at[d] # "tracks"
    BY <1>1, OneHolds DEF Phases
  <2>2. ASSUME NEW k \in DOMAIN jobs PROVE ~Paying(k)
    <3>1. k # 0 BY DEF Typed
    <3> QED BY <1>3, <2>1, <3>1, OnlyTheRecords DEF Paying, JobLive, Completed
  <2> QED BY <1>1, <2>2, NonePaysKept DEF NonePays
<1> QED BY <1>2, <1>3, DeleteShape

(* A record that no one has in hand, and that is not under way.                 *)
LEMMA ReworkedJobs ==
  ASSUME Typed', JobsKnown, \A c \in Coroutines : at[c] \in Phases,
         item.stage \notin UnderWay \cup {"paid"}, jobs' = jobs
  PROVE  JobsKnown'
<1>1. NonePays BY NothingTracked DEF Phases
<1> QED BY <1>1, NonePaysKept

LEMMA PhaseJobs ==
  ASSUME Typed, Typed', Calm', Sound, Hands, JobsKnown,
         TickBegins \/ Search \/ MarkExpired \/ QueueRetries
  PROVE  JobsKnown'
<1>1. /\ at["tick"] \in Phases /\ jobs' = jobs /\ OtherStays("tick") /\ "tick" \in Coroutines
      /\ at'["tick"] \in Phases \cup {"task", "job", "creates", "checks"}
  BY TickBeginsShape, SearchShape, MarkExpiredShape, QueueRetriesShape, CoroutineFacts
     DEF Moved, Took, Phases
<1>2. CASE item' = item
  BY <1>1, <1>2, JobsStay DEF Prompted, Phases
<1>3. CASE item' # item
  <2>1. CASE TickBegins
    <3>1. ~Exists BY <1>3, <2>1, TickBeginsShape
    <3>2. \A c \in Coroutines : at[c] \in Phases
      BY <3>1 DEF Hands, InHand, Holds
    <3> QED BY <1>1, <3>1, <3>2, ReworkedJobs DEF Exists, UnderWay
  <2>2. CASE Search BY <1>3, <2>2, SearchShape
  <2>3. CASE MarkExpired
    BY <1>1, <1>3, <2>3, MarkExpiredShape, ReworkedJobs DEF UnderWay
  <2>4. CASE QueueRetries
    BY <1>1, <1>3, <2>4, QueueRetriesShape, ReworkedJobs DEF UnderWay
  <2> QED BY <2>1, <2>2, <2>3, <2>4
<1> QED BY <1>2, <1>3

LEMMA AskedJobs ==
  ASSUME Typed, Typed', Calm', Sound, Hands, JobsKnown, Asked
  PROVE  JobsKnown'
<1>1. /\ at["request"] \in Phases /\ jobs' = jobs /\ item' = item
      /\ OtherStays("request") /\ "request" \in Coroutines
      /\ at'["request"] \in {"creates", "checks", "enters", "cancels", "deletes"}
  BY AskedShape, CoroutineFacts DEF Took
<1> QED BY <1>1, JobsStay DEF Prompted, Phases

(* A job by itself only comes to do less.                                       *)
LEMMA JobsCalmDown ==
  ASSUME JobsKnown, UNCHANGED <<item, at, got>>, DOMAIN jobs' = DOMAIN jobs,
         \A k \in DOMAIN jobs : Paying(k)' => Paying(k),
         item.job = 0 \/ item.job \in DOMAIN jobs
  PROVE  JobsKnown'
<1>1. \A k \in DOMAIN jobs' : Paying(k)' => Tracked(k)'
  BY DEF JobsKnown, Tracked
<1>2. \A c \in Coroutines : Quiet(c)'
  BY DEF JobsKnown, Quiet
<1> QED BY <1>1, <1>2 DEF JobsKnown

LEMMA OutsideJobs ==
  ASSUME Typed, Typed', Calm', Sound, Hands, JobsKnown, Outside
  PROVE  JobsKnown'
<1>1. item.job = 0 \/ item.job \in DOMAIN jobs BY DEF Typed
<1>2. CASE UNCHANGED <<item, at, got, jobs>>
  BY <1>1, <1>2, JobsCalmDown DEF Paying
<1>3. ASSUME NEW k, JobPrompts(k) \/ JobEnds(k) PROVE JobsKnown'
  <2>1. PICK s \in JobStatuses : jobs' = [jobs EXCEPT ![k].status = s] /\ k \in DOMAIN jobs
                                 /\ (s = "completed" => jobs[k].status = "running")
                                 /\ s # "running"
    BY <1>3 DEF JobPrompts, JobEnds, JobStatuses
  <2>2. DOMAIN jobs' = DOMAIN jobs BY <2>1
  <2>3. ASSUME NEW m \in DOMAIN jobs
        PROVE  Paying(m)' => Paying(m)
    <3>1. jobs[m] \in JobRecords BY DEF Typed
    <3>2. jobs'[m] = IF m = k THEN [jobs[m] EXCEPT !.status = s] ELSE jobs[m]
      BY <2>1
    <3> QED BY <2>1, <3>1, <3>2 DEF Paying, JobRecords
  <2>4. UNCHANGED <<item, at, got>> BY <1>3 DEF JobPrompts, JobEnds, coroutines
  <2> QED BY <1>1, <2>2, <2>3, <2>4, JobsCalmDown
<1>4. CASE Restart
  <2>1. \A c \in Coroutines : at[c] \in Phases
    <3>1. "blind" \notin excuses' BY DEF Calm
    <3> QED BY <1>4, <3>1 DEF Restart, Excused, Holds
  <2>2. \A c \in Coroutines : at'[c] = "idle" BY <1>4 DEF Restart
  <2>3. item' = item /\ jobs' = jobs BY <1>4 DEF Restart
  <2>4. \A k \in DOMAIN jobs : Paying(k) => Tracked(k)'
    BY <2>1, <2>3, CoroutineFacts DEF JobsKnown, Tracked, Phases
  <2>5. \A c \in Coroutines : Quiet(c)'
    BY <2>2 DEF Quiet, Prompted
  <2> QED BY <2>3, <2>4, <2>5 DEF JobsKnown, Paying
<1>5. ~SidecarRestarts BY DEF SidecarRestarts, Calm, Excused
<1> QED BY <1>2, <1>3, <1>4, <1>5
       DEF Outside, TaskEnds, LinkAges, NumberLapses, AccountLapses, coroutines, services

LEMMA DatabaseFailsJobs ==
  ASSUME Typed, Typed', Calm', Sound, Hands, JobsKnown, NEW c \in Coroutines, DatabaseFails(c)
  PROVE  JobsKnown'
<1>1. /\ jobs' = jobs /\ item' = item /\ OtherStays(c) /\ at'[c] = "idle" /\ at[c] # "tracks"
      /\ c = "request" => at[c] # "told"
  BY DatabaseFailsShape DEF Moved
<1> QED BY <1>1, JobsStay DEF Prompted

LEMMA JobsNext ==
  ASSUME Typed, Typed', Calm', "insisted" \notin excuses', Sound, Hands, Remembered, JobsKnown,
         [Next]_vars
  PROVE  JobsKnown'
<1>1. CASE Tick
  BY <1>1, PhaseJobs, ExtractionJobs, GetJobJobs, SettlingJobs, PromptedJobs, TellPhoneJobs,
     CoroutineFacts DEF Tick, Search
<1>2. ASSUME NEW c \in Coroutines, Step(c) PROVE JobsKnown'
  BY <1>2, ExtractionJobs, BuyingJobs, PostJobJobs, PostJobFailsJobs, TrackJobJobs,
     EnterCodeJobs, NoteAnswerJobs DEF Step
<1>3. CASE Answers
  BY <1>3, CancelJobJobs, ResetJobs, DeleteJobs DEF Answers
<1>4. CASE UNCHANGED vars
  <2>1. item.job = 0 \/ item.job \in DOMAIN jobs BY DEF Typed
  <2> QED BY <1>4, <2>1, JobsCalmDown DEF vars, services, Paying
<1> QED BY <1>1, <1>2, <1>3, <1>4, AskedJobs, OutsideJobs, DatabaseFailsJobs DEF Next

------------------------------------------------------------------------------
(* The numbers that are paid for.                                               *)

NoneActive == \A n \in DOMAIN numbers : numbers[n] # "active"

LEMMA NoneActiveKnown ==
  ASSUME NoneActive'
  PROVE  NumbersKnown'
  BY DEF NoneActive, NumbersKnown

(* No number is active where there is no payment, or a new one is to be bought. *)
LEMMA NoneActiveHeld ==
  ASSUME Typed, Hands, NumbersKnown, NEW c \in Coroutines, Holds(c),
         \/ /\ at[c] \notin {"posts", "tracks", "notes", "renotes"}
            /\ item.stage \notin UnderWay
         \/ at[c] = "rebuys"
  PROVE  NoneActive
<1>1. \A d \in Coroutines \ {c} : at[d] \notin {"posts", "tracks", "notes", "renotes"}
  BY OneHolds DEF Phases
<1> QED BY <1>1 DEF NumbersKnown, NoneActive, Numbered, Noted

LEMMA NoneActiveFree ==
  ASSUME NumbersKnown, \A c \in Coroutines : at[c] \in Phases, item.stage \notin UnderWay
  PROVE  NoneActive
  BY DEF NumbersKnown, NoneActive, Numbered, Noted, Phases

(* The only number that may be active is given back.                            *)
LEMMA GivenBack ==
  ASSUME Typed, NEW n \in Nat,
         numbers' = Released(n),
         \A m \in DOMAIN numbers : numbers[m] = "active" => m = n
  PROVE  NumbersKnown'
<1>1. /\ Released(n) \in Seq(Activations) /\ Len(Released(n)) = Len(numbers)
      /\ \A m \in DOMAIN numbers :
           Released(n)[m] = IF m = n /\ n # 0 /\ numbers[n] = "active"
                            THEN "over" ELSE numbers[m]
  BY Releasing
<1>2. DOMAIN Released(n) = DOMAIN numbers
  BY <1>1 DEF Typed
<1>3. ASSUME NEW m \in DOMAIN numbers PROVE numbers'[m] # "active"
  <2>1. m # 0 BY DEF Typed
  <2> QED BY <1>1, <2>1
<1>4. NoneActive' BY <1>2, <1>3 DEF NoneActive
<1> QED BY <1>4, NoneActiveKnown

(* The number of the record, where the record is one that knows it.             *)
LEMMA OnlyTheNumber ==
  ASSUME NumbersKnown, \A c \in Coroutines : at[c] \notin {"notes", "renotes"},
         NEW n \in DOMAIN numbers, numbers[n] = "active"
  PROVE  item.number = n /\ item.sms \notin {"code_submitted", "completed"}
  BY DEF NumbersKnown, Numbered, Noted

(* The coroutine c goes on, and the record keeps its number.                    *)
LEMMA NumbersStay ==
  ASSUME NumbersKnown, numbers' = numbers,
         item'.number = item.number, item'.sms = item.sms,
         NEW c \in Coroutines, OtherStays(c),
         at[c] \notin {"notes", "renotes"},
         at'[c] \notin {"rebuys", "notes", "renotes", "posts", "tells"},
         \/ item'.stage \in UnderWay
         \/ /\ item'.stage = item.stage
            /\ at[c] \in {"posts", "tracks"} => at'[c] = "tracks"
  PROVE  NumbersKnown'
<1>1. ASSUME NEW n \in DOMAIN numbers, Numbered(n) PROVE Numbered(n)'
  <2>1. \A d \in Coroutines : at'[d] \notin {"rebuys", "renotes"}
    BY <1>1 DEF Numbered, OtherStays
  <2>2. item'.stage \in UnderWay \/ \E d \in Coroutines : at'[d] \in {"posts", "tracks"}
    BY <1>1 DEF Numbered, OtherStays
  <2> QED BY <1>1, <2>1, <2>2 DEF Numbered
<1>2. ASSUME NEW n \in DOMAIN numbers, Noted(n) PROVE Noted(n)'
  BY <1>2 DEF Noted, OtherStays
<1>3. ASSUME NEW d \in Coroutines, NEW n \in DOMAIN numbers, numbers[n] = "active"
      PROVE  /\ at'[d] \in {"posts", "tells"} => n = got'[d]
             /\ at'[d] \in {"notes", "renotes"} => n = got'[d]
  BY <1>3 DEF NumbersKnown, OtherStays
<1> QED BY <1>1, <1>2, <1>3 DEF NumbersKnown

LEMMA ExtractionNumbers ==
  ASSUME Typed, Typed', Sound, Hands, NumbersKnown, NEW c \in Coroutines,
         \/ c = "tick" /\ SettleExtraction
         \/ CreateTask(c) \/ BeginExtraction(c) \/ CheckPayment(c)
  PROVE  NumbersKnown'
<1>1. /\ at[c] \in {"task", "creates", "begins", "checks"} /\ numbers' = numbers
  BY SettleExtractionShape, CreateTaskShape, BeginExtractionShape, CheckPaymentShape
     DEF SettleExtraction, CreateTask, BeginExtraction, CheckPayment, services
<1>2. Holds(c) BY <1>1 DEF Holds, Phases
<1>3. item.stage \notin UnderWay
  BY <1>1 DEF Hands, Staged, Starting, UnderWay
<1>4. NoneActive BY <1>1, <1>2, <1>3, NoneActiveHeld
<1> QED BY <1>1, <1>4, NoneActiveKnown DEF NoneActive

LEMMA BuyNumberNumbers ==
  ASSUME Typed, Typed', Calm', Sound, Hands, NumbersKnown, NEW c \in Coroutines, BuyNumber(c)
  PROVE  NumbersKnown'
<1>1. /\ at[c] \in {"buys", "rebuys"} BY BuyNumberShape
<1>2. Holds(c) BY <1>1 DEF Holds, Phases
<1>3. at[c] = "buys" => item.stage \notin UnderWay
  BY DEF Hands, Staged, Starting, UnderWay
<1>4. NoneActive BY <1>1, <1>2, <1>3, NoneActiveHeld
<1>5. CASE numbers' = numbers
  BY <1>4, <1>5, NoneActiveKnown DEF NoneActive
<1>6. CASE /\ Moved(c, IF at[c] = "buys" THEN "notes" ELSE "renotes", Len(numbers) + 1)
           /\ numbers' = Append(numbers, "active")
  <2>1. numbers \in Seq(Activations) BY DEF Typed
  <2>2. \A n \in DOMAIN numbers' : numbers'[n] = "active" => n = Len(numbers) + 1
    BY <1>4, <1>6, <2>1 DEF NoneActive
  <2>3. at'[c] \in {"notes", "renotes"} /\ got'[c] = Len(numbers) + 1
    BY <1>6 DEF Moved
  <2>4. \A d \in Coroutines \ {c} : at'[d] \in Phases
    BY <1>2, <1>6, OneHolds DEF Moved, OtherStays
  <2>5. \A n \in DOMAIN numbers' : numbers'[n] = "active" => Noted(n)'
    BY <2>2, <2>3 DEF Noted
  <2>6. \A d \in Coroutines, n \in DOMAIN numbers' :
          /\ at'[d] \in {"posts", "tells"} /\ numbers'[n] = "active" => n = got'[d]
          /\ at'[d] \in {"notes", "renotes"} /\ numbers'[n] = "active" => n = got'[d]
    BY <2>2, <2>3, <2>4 DEF Phases
  <2> QED BY <2>5, <2>6 DEF NumbersKnown
<1> QED BY <1>5, <1>6, BuyNumberShape DEF Calm

LEMMA NoteNumberNumbers ==
  ASSUME Typed, Typed', Sound, Hands, NumbersKnown, NEW c \in Coroutines, NoteNumber(c)
  PROVE  NumbersKnown'
<1>1. /\ at[c] \in {"notes", "renotes"} /\ numbers' = numbers
      /\ Moved(c, IF at[c] = "notes" THEN "posts" ELSE "tells", got[c])
      /\ item'.stage = item.stage /\ item'.number = got[c] /\ item'.sms = "waiting"
  BY NoteNumberShape DEF Wrote, Says, NoteNumber, services
<1>2. Holds(c) BY <1>1 DEF Holds, Phases
<1>3. at[c] = "renotes" => item.stage \in UnderWay
  BY DEF Hands, Staged, Starting, Rotating, UnderWay
<1>4. \A n \in DOMAIN numbers : numbers[n] = "active" => n = got[c]
  BY <1>1 DEF NumbersKnown
<1>5. /\ at'[c] = (IF at[c] = "notes" THEN "posts" ELSE "tells") /\ got'[c] = got[c]
      /\ \A d \in Coroutines \ {c} : at'[d] \in Phases
  BY <1>1, <1>2, OneHolds DEF Moved, OtherStays
<1>6. item'.stage \in UnderWay \/ \E d \in Coroutines : at'[d] \in {"posts", "tracks"}
  BY <1>1, <1>3, <1>5
<1>7. \A d \in Coroutines : at'[d] \notin {"rebuys", "renotes", "notes"}
  BY <1>5 DEF Phases
<1>8. \A n \in DOMAIN numbers' : numbers'[n] = "active" => Numbered(n)'
  BY <1>1, <1>4, <1>6, <1>7 DEF Numbered
<1>9. \A d \in Coroutines, n \in DOMAIN numbers' :
        /\ at'[d] \in {"posts", "tells"} /\ numbers'[n] = "active" => n = got'[d]
        /\ at'[d] \in {"notes", "renotes"} /\ numbers'[n] = "active" => n = got'[d]
  BY <1>1, <1>4, <1>5, <1>7 DEF Phases
<1> QED BY <1>8, <1>9 DEF NumbersKnown

LEMMA PostJobFailsNumbers ==
  ASSUME Typed, Typed', "refused" \notin excuses', Sound, Hands, NumbersKnown,
         NEW c \in Coroutines, PostJobFails(c)
  PROVE  NumbersKnown'
<1>1. at[c] = "posts" /\ numbers' = Released(got[c]) /\ got[c] \in Nat
  BY PostJobFailsShape, NatsAtHand
<1>2. \A n \in DOMAIN numbers : numbers[n] = "active" => n = got[c]
  BY <1>1 DEF NumbersKnown
<1> QED BY <1>1, <1>2, GivenBack

LEMMA TrackingNumbers ==
  ASSUME Typed, Typed', Sound, Hands, NumbersKnown, NEW c \in Coroutines,
         PostJob(c) \/ TrackJob(c)
  PROVE  NumbersKnown'
<1>1. CASE PostJob(c)
  BY <1>1, PostJobShape, NumbersStay DEF Moved
<1>2. CASE TrackJob(c)
  BY <1>2, TrackJobShape, NumbersStay DEF Moved, Wrote, Says, UnderWay
<1> QED BY <1>1, <1>2

LEMMA WaitingNumbers ==
  ASSUME Typed, Typed', Sound, Hands, Remembered, NumbersKnown,
         GetJob \/ SettleRunning \/ SettleAwaiting \/ Refresh \/ ReadSms
  PROVE  NumbersKnown'
<1>1. CASE GetJob
  <2>1. /\ at["tick"] = "job" /\ numbers' = numbers /\ item' = item /\ OtherStays("tick")
        /\ at'["tick"] \in JobStatuses \cup {"expiry", "idle"}
    BY <1>1, GetJobShape DEF Remembered, Moved
  <2> QED BY <2>1, NumbersStay, CoroutineFacts DEF JobStatuses
<1>2. CASE SettleRunning \/ SettleAwaiting
  <2>1. /\ at["tick"] \in {"running", "awaiting_otp"} /\ numbers' = numbers
        /\ item'.stage \in UnderWay /\ item'.number = item.number /\ item'.sms = item.sms
        /\ at'["tick"] \in {"refresh", "expiry"} /\ OtherStays("tick")
    BY <1>2, SettleRunningShape, SettleAwaitingShape DEF Moved, Turned, Wrote, Says, UnderWay
  <2> QED BY <2>1, NumbersStay, CoroutineFacts
<1>3. CASE Refresh \/ ReadSms
  <2>1. /\ at["tick"] \in {"refresh", "sms"} /\ numbers' = numbers /\ item' = item
        /\ at'["tick"] \in {"sms", "rotates", "enters", "expiry"} /\ OtherStays("tick")
    BY <1>3, RefreshShape, ReadSmsShape DEF Moved, Took
  <2> QED BY <2>1, NumbersStay, CoroutineFacts
<1> QED BY <1>1, <1>2, <1>3

(* The number of the record is given back.                                      *)
LEMMA SettlingNumbers ==
  ASSUME Typed, Typed', "refused" \notin excuses', Sound, Hands, NumbersKnown,
         SettleCompleted \/ SettleFailed \/ Rotate \/ NoteCode
  PROVE  NumbersKnown'
<1>1. at["tick"] \in {"completed", "failed", "cancelled", "rotates", "entered"}
  BY SettleCompletedShape, SettleFailedShape, RotateShape, NoteCodeShape
<1>2. Holds("tick") /\ "tick" \in Coroutines BY <1>1, CoroutineFacts DEF Holds, Phases
<1>3. \A c \in Coroutines : at[c] \notin {"notes", "renotes"}
  BY <1>1, <1>2, OneHolds DEF Phases
<1>4. \A n \in DOMAIN numbers : numbers[n] = "active" =>
        item.number = n /\ item.sms \notin {"code_submitted", "completed"}
  BY <1>3, OnlyTheNumber
<1>5. item.number \in Nat BY DEF Typed, Docs
<1>6. CASE SettleCompleted
  <2>1. CASE item.sms \in {"code_submitted", "completed"}
    BY <1>4, <1>6, <2>1, SettleCompletedShape, GivenBack
  <2>2. CASE item.sms \notin {"code_submitted", "completed"}
    BY <1>4, <1>5, <1>6, <2>2, SettleCompletedShape, GivenBack
  <2> QED BY <2>1, <2>2
<1>7. CASE SettleFailed BY <1>4, <1>5, <1>7, SettleFailedShape, GivenBack
<1>8. CASE Rotate BY <1>4, <1>5, <1>8, RotateShape, GivenBack
<1>9. CASE NoteCode BY <1>4, <1>5, <1>9, NoteCodeShape, GivenBack
<1> QED BY <1>6, <1>7, <1>8, <1>9

LEMMA EnterCodeNumbers ==
  ASSUME Typed, Typed', Sound, Hands, NumbersKnown, NEW c \in Coroutines, EnterCode(c)
  PROVE  NumbersKnown'
<1>1. /\ at[c] = "enters" /\ numbers' = numbers /\ item' = item /\ OtherStays(c)
      /\ at'[c] \in {"entered", "told", "idle"}
  BY EnterCodeShape DEF Moved
<1> QED BY <1>1, NumbersStay

LEMMA TellPhoneNumbers ==
  ASSUME Typed, Typed', "refused" \notin excuses', Sound, Hands, NumbersKnown, TellPhone
  PROVE  NumbersKnown'
<1>1. at["tick"] = "tells" /\ "tick" \in Coroutines /\ got["tick"] \in Nat
  BY TellPhoneShape, CoroutineFacts, NatsAtHand
<1>2. CASE /\ UNCHANGED <<item, numbers>>
           /\ Moved("tick", "told", got["tick"]) \/ Moved("tick", "idle", 0)
  <2>1. at'["tick"] \in {"told", "idle"} /\ OtherStays("tick") BY <1>2 DEF Moved
  <2> QED BY <1>1, <1>2, <2>1, NumbersStay
<1>3. CASE numbers' = Released(got["tick"])
  <2>1. \A n \in DOMAIN numbers : numbers[n] = "active" => n = got["tick"]
    BY <1>1 DEF NumbersKnown
  <2> QED BY <1>1, <1>3, <2>1, GivenBack
<1> QED BY <1>2, <1>3, TellPhoneShape

LEMMA NoteAnswerNumbers ==
  ASSUME Typed, Typed', Sound, Hands, NumbersKnown, NEW c \in Coroutines, NoteAnswer(c)
  PROVE  NumbersKnown'
<1>1. /\ at[c] = "told" /\ numbers' = numbers /\ item'.stage = "paying"
      /\ item'.number = item.number /\ item'.sms = item.sms
      /\ \E phase \in {"expiry", "idle"} : Moved(c, phase, 0)
  BY NoteAnswerShape DEF Turned, Wrote, Says
<1>2. at'[c] \in {"expiry", "idle"} /\ OtherStays(c) BY <1>1 DEF Moved
<1> QED BY <1>1, <1>2, NumbersStay DEF UnderWay

LEMMA AnswersNumbers ==
  ASSUME Typed, Typed', "refused" \notin excuses', Sound, Hands, NumbersKnown, Answers
  PROVE  NumbersKnown'
<1>1. CASE CancelJob
  <2>1. /\ at["request"] = "cancels" /\ numbers' = numbers /\ item' = item
        /\ at'["request"] \in {"rewrites", "idle"} /\ OtherStays("request")
    BY <1>1, CancelJobShape DEF Moved
  <2> QED BY <2>1, CoroutineFacts, NumbersStay
<1>2. CASE Reset \/ Delete
  <2>1. at["request"] \in {"rewrites", "deletes"} BY <1>2, ResetShape, DeleteShape
  <2>2. Holds("request") /\ "request" \in Coroutines BY <2>1, CoroutineFacts DEF Holds, Phases
  <2>3. \A c \in Coroutines : at[c] \notin {"notes", "renotes"}
    BY <2>1, <2>2, OneHolds DEF Phases
  <2>4. \A n \in DOMAIN numbers : numbers[n] = "active" =>
          item.number = n /\ item.sms \notin {"code_submitted", "completed"}
    BY <2>3, OnlyTheNumber
  <2>5. item.number \in Nat BY DEF Typed, Docs
  <2>6. CASE Reset BY <2>4, <2>5, <2>6, ResetShape, GivenBack
  <2>7. CASE Delete
    <3>1. CASE item.sms \in {"completed", "code_submitted"}
      BY <2>4, <2>7, <3>1, DeleteShape, GivenBack
    <3>2. CASE item.sms \notin {"completed", "code_submitted"}
      BY <2>4, <2>5, <2>7, <3>2, DeleteShape, GivenBack
    <3> QED BY <3>1, <3>2
  <2> QED BY <1>2, <2>6, <2>7
<1> QED BY <1>1, <1>2 DEF Answers

LEMMA PhaseNumbers ==
  ASSUME Typed, Typed', Calm', Sound, Hands, NumbersKnown,
         TickBegins \/ Search \/ MarkExpired \/ QueueRetries
  PROVE  NumbersKnown'
<1>1. /\ at["tick"] \in Phases /\ numbers' = numbers /\ OtherStays("tick") /\ "tick" \in Coroutines
      /\ at'["tick"] \in Phases \cup {"task", "job", "creates", "checks"}
  BY TickBeginsShape, SearchShape, MarkExpiredShape, QueueRetriesShape, CoroutineFacts
     DEF Moved, Took, Phases
<1>2. CASE item' = item
  BY <1>1, <1>2, NumbersStay DEF Phases
<1>3. CASE item' # item
  <2>1. item.stage \notin UnderWay /\ \A c \in Coroutines : at[c] \in Phases
    <3>1. CASE TickBegins
      BY <1>3, <3>1, TickBeginsShape DEF Exists, Hands, InHand, Holds, UnderWay
    <3>2. CASE Search BY <1>3, <3>2, SearchShape
    <3>3. CASE MarkExpired BY <1>3, <3>3, MarkExpiredShape DEF UnderWay
    <3>4. CASE QueueRetries BY <1>3, <3>4, QueueRetriesShape DEF UnderWay
    <3> QED BY <3>1, <3>2, <3>3, <3>4
  <2>2. NoneActive BY <2>1, NoneActiveFree
  <2> QED BY <1>1, <2>2, NoneActiveKnown DEF NoneActive
<1> QED BY <1>2, <1>3

LEMMA AskedNumbers ==
  ASSUME Typed, Typed', Calm', Sound, Hands, NumbersKnown, Asked
  PROVE  NumbersKnown'
<1>1. /\ at["request"] \in Phases /\ numbers' = numbers /\ item' = item
      /\ OtherStays("request") /\ "request" \in Coroutines
      /\ at'["request"] \in {"creates", "checks", "enters", "cancels", "deletes"}
  BY AskedShape, CoroutineFacts DEF Took
<1> QED BY <1>1, NumbersStay DEF Phases

LEMMA OutsideNumbers ==
  ASSUME Typed, Typed', Calm', Sound, Hands, NumbersKnown, Outside
  PROVE  NumbersKnown'
<1>1. CASE UNCHANGED <<item, at, got, numbers>>
  BY <1>1 DEF NumbersKnown, Numbered, Noted
<1>2. CASE NumberLapses
  <2>1. PICK n \in DOMAIN numbers : numbers' = Released(n)
    BY <1>2 DEF NumberLapses
  <2>2. n \in Nat BY DEF Typed
  <2>3. DOMAIN numbers' = DOMAIN numbers
    <3>1. numbers' \in Seq(Activations) /\ numbers \in Seq(Activations) /\ Len(numbers') = Len(numbers)
      BY <2>1, <2>2, Releasing DEF Typed
    <3> QED BY <3>1
  <2>4. \A m \in DOMAIN numbers : numbers'[m] = "active" => numbers[m] = "active"
    BY <2>1, <2>2, Releasing
  <2>5. UNCHANGED <<item, at, got>> BY <1>2 DEF NumberLapses, coroutines
  <2>6. \A m \in DOMAIN numbers' : numbers'[m] = "active" => Numbered(m)' \/ Noted(m)'
    BY <2>3, <2>4, <2>5 DEF NumbersKnown, Numbered, Noted
  <2>7. \A c \in Coroutines, m \in DOMAIN numbers' :
          /\ at'[c] \in {"posts", "tells"} /\ numbers'[m] = "active" => m = got'[c]
          /\ at'[c] \in {"notes", "renotes"} /\ numbers'[m] = "active" => m = got'[c]
    BY <2>3, <2>4, <2>5 DEF NumbersKnown
  <2> QED BY <2>6, <2>7 DEF NumbersKnown
<1>3. CASE Restart
  <2>1. \A c \in Coroutines : at[c] \in Phases
    <3>1. "blind" \notin excuses' BY DEF Calm
    <3> QED BY <1>3, <3>1 DEF Restart, Excused, Holds
  <2>2. \A c \in Coroutines : at'[c] = "idle" BY <1>3 DEF Restart
  <2>3. item' = item /\ numbers' = numbers BY <1>3 DEF Restart
  <2> QED BY <2>1, <2>2, <2>3 DEF NumbersKnown, Numbered, Noted, Phases
<1> QED BY <1>1, <1>2, <1>3
       DEF Outside, TaskEnds, LinkAges, JobPrompts, JobEnds, AccountLapses, SidecarRestarts,
           coroutines, services

LEMMA DatabaseFailsNumbers ==
  ASSUME Typed, Typed', Calm', Sound, Hands, NumbersKnown, NEW c \in Coroutines, DatabaseFails(c)
  PROVE  NumbersKnown'
<1>1. /\ at[c] \notin {"notes", "renotes", "posts", "tracks"}
      /\ OtherStays(c) /\ at'[c] = "idle" /\ UNCHANGED item
  BY DatabaseFailsShape DEF Moved
<1>2. DOMAIN numbers' = DOMAIN numbers
      /\ \A m \in DOMAIN numbers : numbers'[m] = "active" => numbers[m] = "active"
  <2>1. CASE numbers' = numbers BY <2>1
  <2>2. ASSUME NEW n \in Nat, numbers' = Released(n)
        PROVE  DOMAIN numbers' = DOMAIN numbers
               /\ \A m \in DOMAIN numbers : numbers'[m] = "active" => numbers[m] = "active"
    <3>1. /\ numbers' \in Seq(Activations) /\ numbers \in Seq(Activations)
          /\ Len(numbers') = Len(numbers)
      BY <2>2, Releasing DEF Typed
    <3>2. \A m \in DOMAIN numbers : numbers'[m] = "active" => numbers[m] = "active"
      BY <2>2, Releasing
    <3> QED BY <3>1, <3>2
  <2> QED BY <2>1, <2>2, DatabaseFailsShape
<1>3. ASSUME NEW n \in DOMAIN numbers, Numbered(n) PROVE Numbered(n)'
  <2>1. \A d \in Coroutines : at'[d] \notin {"rebuys", "renotes"}
    BY <1>1, <1>3 DEF Numbered, OtherStays
  <2>2. item'.stage \in UnderWay \/ \E d \in Coroutines : at'[d] \in {"posts", "tracks"}
    BY <1>1, <1>3 DEF Numbered, OtherStays
  <2> QED BY <1>1, <1>3, <2>1, <2>2 DEF Numbered
<1>4. ASSUME NEW n \in DOMAIN numbers, Noted(n) PROVE Noted(n)'
  BY <1>1, <1>4 DEF Noted, OtherStays
<1>5. ASSUME NEW d \in Coroutines, NEW n \in DOMAIN numbers, numbers'[n] = "active"
      PROVE  /\ at'[d] \in {"posts", "tells"} => n = got'[d]
             /\ at'[d] \in {"notes", "renotes"} => n = got'[d]
  BY <1>1, <1>2, <1>5 DEF NumbersKnown, OtherStays
<1> QED BY <1>2, <1>3, <1>4, <1>5 DEF NumbersKnown

LEMMA NumbersNext ==
  ASSUME Typed, Typed', Calm', "refused" \notin excuses', Sound, Hands, Remembered,
         NumbersKnown, [Next]_vars
  PROVE  NumbersKnown'
<1>1. CASE Tick
  BY <1>1, PhaseNumbers, ExtractionNumbers, WaitingNumbers, SettlingNumbers, TellPhoneNumbers,
     CoroutineFacts DEF Tick, Search
<1>2. ASSUME NEW c \in Coroutines, Step(c) PROVE NumbersKnown'
  BY <1>2, ExtractionNumbers, BuyNumberNumbers, NoteNumberNumbers, PostJobFailsNumbers,
     TrackingNumbers, EnterCodeNumbers, NoteAnswerNumbers DEF Step
<1>3. CASE UNCHANGED vars
  BY <1>3 DEF vars, services, NumbersKnown, Numbered, Noted
<1> QED BY <1>1, <1>2, <1>3, AnswersNumbers, AskedNumbers, OutsideNumbers, DatabaseFailsNumbers
       DEF Next

------------------------------------------------------------------------------
(* What is spent, as long as the pipeline is left to itself.                    *)

LEMMA Naturals2 ==
  ASSUME NEW a \in Nat, NEW b \in Nat
  PROVE  a * b \in Nat /\ (a + 1) * b = a * b + b
  OBVIOUS

LEMMA SpentNumbers ==
  ASSUME Typed
  PROVE  /\ Before \in Nat /\ Each \in Nat /\ NumberChanges \in Nat /\ PaymentRetries \in Nat
         /\ Each = 1 + NumberChanges
         /\ Len(numbers) \in Nat /\ item.attempt \in Nat /\ item.paymentRetry \in Nat
<1>1. NumberChanges \in Nat /\ PaymentRetries \in Nat BY SettingsAssumption
<1>2. Each \in Nat /\ Each = 1 + NumberChanges BY <1>1 DEF Each
<1>3. item.attempt \in Nat /\ item.paymentRetry \in Nat BY DEF Typed, Docs
<1>4. Before \in Nat BY <1>2, <1>3, Naturals2 DEF Before
<1>5. Len(numbers) \in Nat BY DEF Typed
<1> QED BY <1>1, <1>2, <1>3, <1>4, <1>5

NumbersCount == Len(numbers') = Len(numbers)

LEMMA ReleasedCount ==
  ASSUME Typed, NEW n \in Nat,
         numbers' = Released(n)
  PROVE  NumbersCount
  BY Releasing DEF NumbersCount

(* The record is where it was, and so is the money.                             *)
LEMMA SpentStill ==
  ASSUME Typed, Spent, item' = item, NumbersCount,
         at["tick"] \notin {"notes", "posts", "tracks", "rebuys", "renotes"},
         at'["tick"] \notin {"notes", "posts", "tracks", "rebuys", "renotes"}
  PROVE  Spent'
<1>1. Before' = Before BY DEF Before, Each
<1>2. Len(numbers') = Len(numbers) BY DEF NumbersCount
<1> QED BY <1>1, <1>2, SpentNumbers DEF Spent

(* Nothing is spent before there is a payment.                                  *)
LEMMA SpentEarly ==
  ASSUME Typed, Typed', Spent, item.stage \in Early, NumbersCount,
         item'.stage \notin UnderWay, item'.paymentRetry <= PaymentRetries,
         at'["tick"] \notin {"posts", "tracks"}
  PROVE  Spent'
<1>1. Len(numbers') = 0 BY DEF NumbersCount, Spent
<1>2. Before' \in Nat /\ Each \in Nat BY SpentNumbers, Naturals2, SettingsAssumption
       DEF Before, Each, Typed, Docs
<1>3. /\ Len(numbers') <= Before' /\ Len(numbers') <= Before' + 1
      /\ Len(numbers') <= Before' + Each
  <2>1. \A n, b, e \in Nat : n = 0 => n <= b /\ n <= b + 1 /\ n <= b + e OBVIOUS
  <2>2. Len(numbers') \in Nat BY DEF Typed
  <2> QED BY <1>1, <1>2, <2>1, <2>2
<1> QED BY <1>1, <1>3 DEF Spent

(* A payment that is over.                                                      *)
LEMMA SpentOver ==
  ASSUME Typed, Spent, item'.paymentRetry = item.paymentRetry, NumbersCount,
         item'.stage \notin Early \cup UnderWay \cup {"payment_ready"},
         at'["tick"] \notin {"posts", "tracks"}
  PROVE  Spent'
<1>1. Before' = Before BY DEF Before, Each
<1>2. Len(numbers') = Len(numbers) BY DEF NumbersCount
<1> QED BY <1>1, <1>2, SpentNumbers DEF Spent

(* A payment that goes on.                                                      *)
LEMMA SpentUnderWay ==
  ASSUME Typed, Spent, item.stage \in UnderWay, item'.stage \in UnderWay, NumbersCount,
         item'.paymentRetry = item.paymentRetry, item'.attempt = item.attempt,
         at["tick"] \notin {"rebuys", "renotes"},
         at'["tick"] \notin {"posts", "tracks", "renotes"},
         at'["tick"] = "rebuys" => item.attempt <= NumberChanges
  PROVE  Spent'
<1>1. Before' = Before BY DEF Before, Each
<1>2. Len(numbers') = Len(numbers) BY DEF NumbersCount
<1>3. item'.stage \notin Early \cup {"payment_ready"} BY DEF Early, UnderWay
<1> QED BY <1>1, <1>2, <1>3, SpentNumbers DEF Spent

LEMMA ExtractionSpent ==
  ASSUME Typed, Typed', Sound, Hands, Spent,
         SettleExtraction \/ CreateTask("tick") \/ BeginExtraction("tick") \/ CheckPayment("tick")
  PROVE  Spent'
<1>1. NumbersCount /\ "tick" \in Coroutines
  BY CoroutineFacts
     DEF SettleExtraction, CreateTask, BeginExtraction, CheckPayment, services, NumbersCount
<1>2. item.paymentRetry <= PaymentRetries BY DEF Spent
<1>3. CASE SettleExtraction
  <2>1. /\ at["tick"] = "task" /\ at'["tick"] = "payments"
        /\ item'.paymentRetry = item.paymentRetry
        /\ item'.stage \in {item.stage, "payment_ready", "extraction_failed"}
    BY <1>3, SettleExtractionShape DEF Moved, Turned, Wrote, Says
  <2>2. item.stage = "extracting" BY <1>1, <2>1 DEF Hands, Staged
  <2> QED BY <1>1, <1>2, <2>1, <2>2, SpentEarly DEF Early, UnderWay
<1>4. CASE CreateTask("tick")
  <2>1. /\ at["tick"] = "creates" /\ at'["tick"] \in {"begins", "pay", "idle"}
        /\ item'.paymentRetry = item.paymentRetry
        /\ item'.stage \in {item.stage, "extraction_failed"}
    BY <1>1, <1>4, CreateTaskShape DEF Moved, Turned, Wrote, Says
  <2>2. item.stage = "eligible" BY <1>1, <2>1 DEF Hands, Staged
  <2> QED BY <1>1, <1>2, <2>1, <2>2, SpentEarly DEF Early, UnderWay
<1>5. CASE BeginExtraction("tick")
  <2>1. /\ at["tick"] = "begins" /\ at'["tick"] \in {"pay", "idle"}
        /\ item'.paymentRetry = item.paymentRetry /\ item'.stage = "extracting"
    BY <1>1, <1>5, BeginExtractionShape DEF Moved, Turned, Wrote, Says
  <2>2. item.stage = "eligible" BY <1>1, <2>1 DEF Hands, Staged
  <2> QED BY <1>1, <1>2, <2>1, <2>2, SpentEarly DEF Early, UnderWay
<1>6. CASE CheckPayment("tick")
  <2>1. /\ at["tick"] = "checks"
        /\ \/ at'["tick"] \in {"buys", "idle"} /\ item' = item
           \/ at'["tick"] = "idle" /\ Cleared("payment_failed", "succeeded", "failed")
    BY <1>1, <1>6, CheckPaymentShape DEF Moved
  <2>2. CASE item' = item BY <1>1, <2>1, <2>2, SpentStill
  <2>3. CASE item' # item
    BY <1>1, <2>1, <2>3, SpentOver DEF Cleared, Wrote, Says, Early, UnderWay
  <2> QED BY <2>2, <2>3
<1> QED BY <1>3, <1>4, <1>5, <1>6

LEMMA BuyNumberSpent ==
  ASSUME Typed, Typed', Calm', Sound, Hands, Spent, BuyNumber("tick")
  PROVE  Spent'
<1>1. /\ at["tick"] \in {"buys", "rebuys"} /\ "tick" \in Coroutines
  BY BuyNumberShape, CoroutineFacts
<1>2. item.stage = IF at["tick"] = "buys" THEN "payment_ready" ELSE "payment_waiting_otp"
  BY <1>1 DEF Hands, Staged, Starting, Rotating
<1>3. CASE numbers' = numbers /\ Failing(item.sms)
           /\ Moved("tick", IF at["tick"] = "buys" THEN "idle" ELSE "expiry", 0)
  <2>1. at'["tick"] \in {"idle", "expiry"} BY <1>3 DEF Moved
  <2> QED BY <1>3, <2>1, SpentOver
         DEF NumbersCount, Failing, Turned, Wrote, Says, Early, UnderWay
<1>4. CASE /\ Moved("tick", IF at["tick"] = "buys" THEN "notes" ELSE "renotes", Len(numbers) + 1)
           /\ numbers' = Append(numbers, "active") /\ item' = item
  <2>1. Len(numbers') = Len(numbers) + 1
    BY <1>4 DEF Typed
  <2>2. Before' = Before BY <1>4 DEF Before, Each
  <2>3. at'["tick"] = IF at["tick"] = "buys" THEN "notes" ELSE "renotes"
    BY <1>4 DEF Moved
  <2>4. CASE at["tick"] = "buys"
    <3>1. item'.stage = "payment_ready" /\ at'["tick"] = "notes" BY <1>2, <1>4, <2>3, <2>4
    <3>2. Len(numbers) <= Before BY <1>2, <2>4 DEF Spent
    <3>3. Len(numbers') <= Before' + 1 /\ Len(numbers') <= Before' + Each
      BY <2>1, <2>2, <3>2, SpentNumbers
    <3> QED BY <1>4, <3>1, <3>3 DEF Spent, Early, UnderWay
  <2>5. CASE at["tick"] = "rebuys"
    <3>1. item'.stage = "payment_waiting_otp" /\ at'["tick"] = "renotes"
      BY <1>2, <1>4, <2>3, <2>5
    <3>2. Len(numbers) <= Before + item.attempt /\ item.attempt <= NumberChanges
      BY <1>2, <2>5, SpentNumbers DEF Spent, UnderWay
    <3>3. Len(numbers') <= Before' + item'.attempt + 1 /\ Len(numbers') <= Before' + Each
      BY <1>4, <2>1, <2>2, <3>2, SpentNumbers
    <3> QED BY <1>4, <3>1, <3>2, <3>3 DEF Spent, Early, UnderWay
  <2> QED BY <1>1, <2>4, <2>5
<1> QED BY <1>1, <1>3, <1>4, BuyNumberShape DEF Calm

LEMMA NoteNumberSpent ==
  ASSUME Typed, Typed', Sound, Hands, Spent, NoteNumber("tick")
  PROVE  Spent'
<1>1. /\ at["tick"] \in {"notes", "renotes"} /\ "tick" \in Coroutines
      /\ numbers' = numbers /\ item'.stage = item.stage /\ item'.paymentRetry = item.paymentRetry
      /\ item'.attempt = IF at["tick"] = "notes" THEN 1 ELSE item.attempt + 1
      /\ at'["tick"] = IF at["tick"] = "notes" THEN "posts" ELSE "tells"
  BY NoteNumberShape, CoroutineFacts DEF NoteNumber, services, Moved, Wrote, Says
<1>2. item.stage = IF at["tick"] = "notes" THEN "payment_ready" ELSE "payment_waiting_otp"
  BY <1>1 DEF Hands, Staged, Starting, Rotating
<1>3. Before' = Before BY <1>1 DEF Before, Each
<1>4. CASE at["tick"] = "notes"
  BY <1>1, <1>2, <1>3, <1>4, SpentNumbers DEF Spent, Early, UnderWay
<1>5. CASE at["tick"] = "renotes"
  BY <1>1, <1>2, <1>3, <1>5, SpentNumbers DEF Spent, Early, UnderWay
<1> QED BY <1>1, <1>4, <1>5

LEMMA PostingSpent ==
  ASSUME Typed, Typed', Calm', "refused" \notin excuses', Sound, Hands, Spent,
         PostJob("tick") \/ PostJobFails("tick") \/ TrackJob("tick")
  PROVE  Spent'
<1>1. CASE PostJob("tick")
  <2>1. /\ at["tick"] = "posts" /\ at'["tick"] = "tracks" /\ UNCHANGED <<item, numbers>>
    BY <1>1, PostJobShape, CoroutineFacts DEF Moved
  <2>2. Before' = Before BY <2>1 DEF Before, Each
  <2>3. item.stage = "payment_ready"
    BY <2>1, CoroutineFacts DEF Hands, Staged, Starting
  <2> QED BY <2>1, <2>2, <2>3 DEF Spent, Early, UnderWay
<1>2. CASE PostJobFails("tick")
  <2>1. /\ at'["tick"] = "idle" /\ Failing(item.sms)
        /\ numbers' = Released(got["tick"]) /\ got["tick"] \in Nat
    BY <1>2, PostJobFailsShape, CoroutineFacts, NatsAtHand DEF Moved
  <2>2. NumbersCount BY <2>1, ReleasedCount
  <2> QED BY <2>1, <2>2, SpentOver DEF Failing, Turned, Wrote, Says, Early, UnderWay
<1>3. CASE TrackJob("tick")
  <2>1. /\ at["tick"] = "tracks" /\ at'["tick"] = "idle" /\ numbers' = numbers
        /\ item'.stage = "paying" /\ item'.attempt = item.attempt
        /\ item'.paymentRetry = item.paymentRetry
    BY <1>3, TrackJobShape, CoroutineFacts DEF Moved, Wrote, Says
  <2>2. Before' = Before BY <2>1 DEF Before, Each
  <2>3. item.stage = "payment_ready"
    BY <2>1, CoroutineFacts DEF Hands, Staged, Starting
  <2> QED BY <2>1, <2>2, <2>3, SpentNumbers DEF Spent, Early, UnderWay
<1> QED BY <1>1, <1>2, <1>3

LEMMA PayingSpent ==
  ASSUME Typed, Typed', Calm', "refused" \notin excuses', Sound, Hands, Remembered, Spent,
         \/ GetJob \/ SettleRunning \/ SettleAwaiting \/ SettleCompleted \/ SettleFailed
         \/ NoteCode \/ NoteAnswer("tick")
  PROVE  Spent'
<1>1. "tick" \in Coroutines /\ item.number \in Nat
  BY CoroutineFacts DEF Typed, Docs
<1>2. CASE GetJob
  <2>1. /\ at["tick"] = "job" /\ UNCHANGED <<item, numbers>>
        /\ at'["tick"] \in JobStatuses \cup {"expiry", "idle"}
    BY <1>2, GetJobShape DEF Remembered, Moved
  <2> QED BY <2>1, SpentStill DEF JobStatuses, NumbersCount
<1>3. CASE SettleRunning \/ SettleAwaiting \/ NoteAnswer("tick")
  <2>1. /\ at["tick"] \in {"running", "awaiting_otp", "told"} /\ numbers' = numbers
        /\ item'.stage \in UnderWay /\ item'.paymentRetry = item.paymentRetry
        /\ item'.attempt = item.attempt
        /\ at'["tick"] \in {"expiry", "idle", "refresh"}
    BY <1>1, <1>3, SettleRunningShape, SettleAwaitingShape, NoteAnswerShape
       DEF Moved, Turned, Wrote, Says, UnderWay
  <2>2. item.stage \in UnderWay
    BY <1>1, <2>1 DEF Hands, Staged, JobStatuses, UnderWay
  <2> QED BY <2>1, <2>2, SpentUnderWay DEF NumbersCount
<1>4. CASE NoteCode
  <2>1. /\ at["tick"] = "entered" /\ numbers' = Released(item.number)
        /\ item'.stage \in UnderWay /\ item'.paymentRetry = item.paymentRetry
        /\ item'.attempt = item.attempt /\ at'["tick"] = "expiry"
    BY <1>4, NoteCodeShape DEF Moved, Turned, Wrote, Says, UnderWay
  <2>2. item.stage \in UnderWay
    BY <1>1, <2>1 DEF Hands, Staged, Rotating, UnderWay
  <2>3. NumbersCount BY <1>1, <2>1, ReleasedCount
  <2> QED BY <2>1, <2>2, <2>3, SpentUnderWay
<1>5. CASE SettleCompleted \/ SettleFailed
  <2>1. /\ at'["tick"] = "expiry" /\ item'.stage \in {"paid", "payment_failed"}
        /\ item'.paymentRetry = item.paymentRetry
    BY <1>5, SettleCompletedShape, SettleFailedShape DEF Moved, Failing, Turned, Wrote, Says
  <2>2. NumbersCount
    BY <1>1, <1>5, SettleCompletedShape, SettleFailedShape, ReleasedCount
  <2> QED BY <2>1, <2>2, SpentOver DEF Early, UnderWay
<1> QED BY <1>2, <1>3, <1>4, <1>5

LEMMA RotatingSpent ==
  ASSUME Typed, Typed', Calm', "refused" \notin excuses', Sound, Hands, Spent,
         Refresh \/ ReadSms \/ Rotate \/ EnterCode("tick") \/ TellPhone
  PROVE  Spent'
<1>1. "tick" \in Coroutines /\ item.number \in Nat /\ got["tick"] \in Nat
  BY CoroutineFacts, NatsAtHand DEF Typed, Docs
<1>2. CASE Refresh \/ ReadSms \/ EnterCode("tick")
  <2>1. /\ at["tick"] \in {"refresh", "sms", "enters"} /\ UNCHANGED <<item, numbers>>
        /\ at'["tick"] \in {"sms", "expiry", "rotates", "enters", "entered", "idle"}
    BY <1>1, <1>2, RefreshShape, ReadSmsShape, EnterCodeShape DEF Moved, Took
  <2> QED BY <2>1, SpentStill DEF NumbersCount
<1>3. CASE Rotate
  <2>1. /\ at["tick"] = "rotates" /\ numbers' = Released(item.number)
        /\ \/ Failing(item.sms) /\ at'["tick"] = "expiry"
           \/ item.attempt < 1 + NumberChanges /\ item' = item /\ at'["tick"] = "rebuys"
    BY <1>3, RotateShape DEF Moved
  <2>2. NumbersCount BY <1>1, <2>1, ReleasedCount
  <2>3. item.stage \in UnderWay
    BY <1>1, <2>1 DEF Hands, Staged, Rotating, UnderWay
  <2>4. item.attempt < 1 + NumberChanges => item.attempt <= NumberChanges
    BY SpentNumbers
  <2>5. CASE Failing(item.sms) /\ at'["tick"] = "expiry"
    BY <2>2, <2>5, SpentOver DEF Failing, Turned, Wrote, Says, Early, UnderWay
  <2>6. CASE item.attempt <= NumberChanges /\ item' = item /\ at'["tick"] = "rebuys"
    BY <2>1, <2>2, <2>3, <2>6, SpentUnderWay
  <2> QED BY <2>1, <2>4, <2>5, <2>6
<1>4. CASE TellPhone
  <2>1. at["tick"] = "tells" BY <1>4, TellPhoneShape
  <2>2. CASE item' = item /\ numbers' = numbers /\ at'["tick"] \in {"told", "idle"}
    BY <2>1, <2>2, SpentStill DEF NumbersCount
  <2>3. CASE /\ Failing(item.sms) /\ at'["tick"] = "expiry"
             /\ numbers' = Released(got["tick"])
    <3>1. NumbersCount BY <1>1, <2>3, ReleasedCount
    <3> QED BY <2>3, <3>1, SpentOver DEF Failing, Turned, Wrote, Says, Early, UnderWay
  <2> QED BY <1>4, <2>2, <2>3, TellPhoneShape DEF Moved
<1> QED BY <1>2, <1>3, <1>4

LEMMA PhaseSpent ==
  ASSUME Typed, Typed', Calm', Sound, Hands, Spent,
         TickBegins \/ Search \/ MarkExpired \/ QueueRetries
  PROVE  Spent'
<1>1. /\ at["tick"] \in Phases /\ numbers' = numbers
      /\ at'["tick"] \in Phases \cup {"task", "job", "creates", "checks"}
  BY TickBeginsShape, SearchShape, MarkExpiredShape, QueueRetriesShape
     DEF Moved, Took, Phases
<1>2. NumbersCount BY <1>1 DEF NumbersCount
<1>3. CASE item' = item
  BY <1>1, <1>2, <1>3, SpentStill DEF Phases
<1>4. CASE item' # item /\ TickBegins
  <2>1. item.stage = "absent" /\ item'.stage = "eligible" /\ item'.paymentRetry = 0
    BY <1>4, TickBeginsShape DEF Exists, Says
  <2>2. item'.paymentRetry <= PaymentRetries BY <2>1, SpentNumbers
  <2> QED BY <1>1, <1>2, <2>1, <2>2, SpentEarly DEF Early, UnderWay, Phases
<1>5. CASE item' # item /\ Search BY <1>5, SearchShape
<1>6. CASE item' # item /\ MarkExpired
  <2>1. Cleared("payment_failed", item.extraction, "failed") BY <1>6, MarkExpiredShape
  <2> QED BY <1>1, <1>2, <2>1, SpentOver DEF Cleared, Wrote, Says, Early, UnderWay, Phases
<1>7. CASE item' # item /\ QueueRetries
  <2>1. CASE Turned("eligible", "pending", item.payment, item.sms)
             /\ item.stage = "extraction_failed"
    <3>1. item'.stage = "eligible" /\ item'.paymentRetry = item.paymentRetry
      BY <2>1 DEF Turned, Wrote, Says
    <3>2. item'.paymentRetry <= PaymentRetries BY <3>1 DEF Spent
    <3> QED BY <1>1, <1>2, <2>1, <3>1, <3>2, SpentEarly DEF Early, UnderWay, Phases
  <2>2. CASE Requeued /\ item.paymentRetry < PaymentRetries
    <3>1. item'.stage = "payment_ready" /\ item'.paymentRetry = item.paymentRetry + 1
      BY <2>2 DEF Requeued, Says
    <3>2. item'.paymentRetry <= PaymentRetries
      BY <2>2, <3>1, SpentNumbers
    <3>3. Before' = Before + Each
      BY <3>1, SpentNumbers, Naturals2 DEF Before
    <3>4. Len(numbers') <= Before' /\ Len(numbers') <= Before' + Each
      <4>1. Len(numbers) <= Before + Each BY DEF Spent
      <4> QED BY <1>2, <3>3, <4>1, SpentNumbers DEF NumbersCount
    <3> QED BY <1>1, <3>1, <3>2, <3>4 DEF Spent, Early, UnderWay, Phases
  <2> QED BY <1>7, <2>1, <2>2, QueueRetriesShape
<1> QED BY <1>3, <1>4, <1>5, <1>6, <1>7

LEMMA OutsideSpent ==
  ASSUME Typed, Typed', Calm', Sound, Hands, Spent, Outside
  PROVE  Spent'
<1>1. CASE UNCHANGED <<item, at, numbers>>
  BY <1>1 DEF Spent, Before, Each
<1>2. CASE NumberLapses
  <2>1. PICK n \in DOMAIN numbers : numbers' = Released(n)
    BY <1>2 DEF NumberLapses
  <2>2. n \in Nat BY DEF Typed
  <2>3. Len(numbers') = Len(numbers) BY <2>1, <2>2, ReleasedCount DEF NumbersCount
  <2>4. UNCHANGED <<item, at>> BY <1>2 DEF NumberLapses, coroutines
  <2> QED BY <2>3, <2>4 DEF Spent, Before, Each
<1>3. CASE Restart
  <2>1. \A c \in Coroutines : at[c] \in Phases
    <3>1. "blind" \notin excuses' BY DEF Calm
    <3> QED BY <1>3, <3>1 DEF Restart, Excused, Holds
  <2>2. at'["tick"] = "idle" /\ UNCHANGED <<item, numbers>>
    BY <1>3, CoroutineFacts DEF Restart
  <2> QED BY <2>1, <2>2, CoroutineFacts, SpentStill DEF NumbersCount, Phases
<1> QED BY <1>1, <1>2, <1>3
       DEF Outside, TaskEnds, LinkAges, JobPrompts, JobEnds, AccountLapses, SidecarRestarts,
           coroutines, services

LEMMA DatabaseFailsSpent ==
  ASSUME Typed, Typed', Calm', Sound, Hands, Spent, DatabaseFails("tick")
  PROVE  Spent'
<1>1. /\ at["tick"] \notin {"notes", "renotes", "posts", "tracks"}
      /\ at'["tick"] = "idle" /\ UNCHANGED item
  BY CoroutineFacts, DatabaseFailsShape DEF Moved
<1>2. NumbersCount BY CoroutineFacts, DatabaseFailsShape, ReleasedCount DEF NumbersCount
<1>3. CASE at["tick"] # "rebuys" BY <1>1, <1>2, <1>3, SpentStill
<1>4. CASE at["tick"] = "rebuys"
  <2>1. item.stage \in UnderWay BY <1>4, CoroutineFacts DEF Hands, Staged, Rotating, UnderWay
  <2>2. Before' = Before BY <1>1 DEF Before, Each
  <2>3. item.attempt <= NumberChanges BY <1>4, <2>1 DEF Spent
  <2>4. item'.attempt <= Each BY <1>1, <2>3, SpentNumbers
  <2>5. Len(numbers') = Len(numbers) BY <1>2 DEF NumbersCount
  <2> QED BY <1>1, <1>4, <2>1, <2>2, <2>4, <2>5, SpentNumbers DEF Spent, UnderWay, Early
<1> QED BY <1>3, <1>4

LEMMA TickAlone ==
  ASSUME Typed, Calm', Hands, Tick \/ Step("tick")
  PROVE  OtherStays("tick")
<1>1. "tick" \in Coroutines BY CoroutineFacts
<1>2. CASE Tick
  BY <1>2, TickBeginsShape, SearchShape, SettleExtractionShape, GetJobShape, SettleRunningShape,
     SettleAwaitingShape, SettleCompletedShape, SettleFailedShape, RefreshShape, ReadSmsShape,
     RotateShape, NoteCodeShape, TellPhoneShape, MarkExpiredShape, QueueRetriesShape
     DEF Tick, Search, Moved, Took
<1>3. CASE Step("tick")
  BY <1>1, <1>3, CreateTaskShape, BeginExtractionShape, CheckPaymentShape, BuyNumberShape,
     NoteNumberShape, PostJobShape, PostJobFailsShape, TrackJobShape, EnterCodeShape,
     NoteAnswerShape DEF Step, Moved
<1> QED BY <1>2, <1>3

LEMMA SpentNext ==
  ASSUME Typed, Typed', excuses' = {}, Sound, Hands, Remembered, Unasked, Spent, [Next]_vars
  PROVE  Unasked' /\ Spent'
<1>1. Calm' /\ "refused" \notin excuses' BY DEF Calm
<1>2. ~Step("request") /\ ~Answers
  BY DEF Unasked, Step, Answers, CreateTask, BeginExtraction, CheckPayment, BuyNumber, NoteNumber,
         PostJob, PostJobFails, TrackJob, EnterCode, NoteAnswer, CancelJob, Reset, Delete, At
<1>3. ~Asked BY <1>1, AskedShape
<1>4. CASE Tick \/ Step("tick")
  <2>1. Unasked' BY <1>1, <1>4, TickAlone, CoroutineFacts DEF Unasked, OtherStays
  <2>2. CASE Tick
    BY <1>1, <2>1, <2>2, PhaseSpent, ExtractionSpent, PayingSpent, RotatingSpent DEF Tick, Search
  <2>3. CASE Step("tick")
    BY <1>1, <2>1, <2>3, ExtractionSpent, BuyNumberSpent, NoteNumberSpent, PostingSpent,
       PayingSpent, RotatingSpent DEF Step
  <2> QED BY <1>4, <2>1, <2>2, <2>3
<1>5. CASE Outside
  <2>1. Unasked'
    BY <1>5, OutsideShape, CoroutineFacts DEF Unasked, Restart
  <2> QED BY <1>1, <1>5, <2>1, OutsideSpent
<1>6. CASE UNCHANGED vars
  BY <1>6 DEF vars, services, Unasked, Spent, Before, Each
<1>7. CASE DatabaseFails("tick")
  <2>1. Unasked'
    BY <1>1, <1>7, CoroutineFacts, DatabaseFailsShape DEF Unasked, Moved, OtherStays
  <2> QED BY <1>1, <1>7, <2>1, DatabaseFailsSpent
<1>8. ~DatabaseFails("request") BY DEF Unasked, DatabaseFails
<1> QED BY <1>2, <1>3, <1>4, <1>5, <1>6, <1>7, <1>8, CoroutineFacts DEF Next

------------------------------------------------------------------------------
(* The inductive invariant.                                                     *)

(* An excuse is never taken back.                                               *)
LEMMA ExcusesGrow ==
  ASSUME [Next]_vars
  PROVE  excuses \subseteq excuses'
<1>1. CASE Tick
  BY <1>1 DEF Tick, TickBegins, FindExtraction, FindPayment, FindEligible, FindReady, Finds,
     Reads, SettleExtraction, GetJob, SettleRunning, SettleAwaiting, SettleCompleted,
     SettleFailed, Refresh, ReadSms, Rotate, NoteCode, TellPhone, MarkExpired, QueueRetries,
     Releases, ReleaseRefused, AnswerLost, Excused
<1>2. CASE Asked
  BY <1>2 DEF Asked, AskExtraction, AskPayment, AskOtp, AskReset, AskDelete, Request, Excused
<1>3. CASE Answers
  BY <1>3 DEF Answers, CancelJob, Reset, Delete, Releases, ReleaseRefused, Excused
<1>4. CASE Outside
  BY <1>4 DEF Outside, TaskEnds, LinkAges, JobPrompts, JobEnds, NumberLapses, AccountLapses,
     Restart, SidecarRestarts, Excused
<1>5. ASSUME NEW c \in Coroutines, Step(c) PROVE excuses \subseteq excuses'
  BY <1>5 DEF Step, CreateTask, BeginExtraction, CheckPayment, BuyNumber, NoteNumber, PostJob,
     PostJobFails, TrackJob, EnterCode, NoteAnswer, Releases, ReleaseRefused, AnswerLost, Excused
<1>6. CASE UNCHANGED vars BY <1>6 DEF vars
<1>7. ASSUME NEW c \in Coroutines, DatabaseFails(c) PROVE excuses \subseteq excuses'
  BY <1>7 DEF DatabaseFails, Excused
<1> QED BY <1>1, <1>2, <1>3, <1>4, <1>5, <1>6, <1>7 DEF Next

LEMMA InitIInv == Init => IInv
<1> SUFFICES ASSUME Init PROVE IInv OBVIOUS
<1>1. /\ item = Blank /\ jobs = <<>> /\ numbers = <<>> /\ excuses = {}
      /\ \A c \in Coroutines : at[c] = "idle"
  BY DEF Init
<1>2. Sound BY <1>1 DEF Sound, Blank, Early
<1>3. Hands
  BY <1>1, CoroutineFacts
     DEF Hands, Alone, InHand, Staged, Holds, Phases, Starting, Rotating, JobStatuses
<1>4. Remembered /\ JobsKnown
  BY <1>1, CoroutineFacts DEF Remembered, JobsKnown, Quiet, Prompted
<1>5. NumbersKnown
  BY <1>1 DEF NumbersKnown
<1>6. Unasked BY <1>1, CoroutineFacts DEF Unasked
<1>7. Spent
  <2>1. Len(numbers) = 0 /\ item.stage = "absent" /\ item.paymentRetry = 0 BY <1>1 DEF Blank
  <2>2. Each \in Nat /\ PaymentRetries \in Nat BY SettingsAssumption DEF Each
  <2>3. Before = 0
    <3>1. \A e \in Nat : 0 * e = 0 OBVIOUS
    <3> QED BY <2>1, <2>2, <3>1 DEF Before
  <2>4. at["tick"] = "idle" BY <1>1, CoroutineFacts
  <2> QED BY <2>1, <2>2, <2>3, <2>4 DEF Spent, Early, UnderWay
<1> QED BY <1>2, <1>3, <1>4, <1>5, <1>6, <1>7, TypedInit DEF IInv

LEMMA NextIInv ==
  ASSUME IInv, [Next]_vars
  PROVE  IInv'
<1>1. Typed /\ Typed' BY TypedNext DEF IInv
<1>2. excuses \subseteq excuses' BY ExcusesGrow
<1>3. Calm' => Sound /\ Hands /\ Remembered /\ Sound' /\ Hands' /\ Remembered'
  BY <1>1, <1>2, HandsNext, RememberedNext DEF IInv, Calm
<1>4. Calm' /\ "insisted" \notin excuses' => JobsKnown'
  BY <1>1, <1>2, <1>3, JobsNext DEF IInv, Calm
<1>5. Calm' /\ "refused" \notin excuses' => NumbersKnown'
  BY <1>1, <1>2, <1>3, NumbersNext DEF IInv, Calm
<1>6. excuses' = {} => Unasked' /\ Spent'
  BY <1>1, <1>2, <1>3, SpentNext DEF IInv, Calm
<1> QED BY <1>1, <1>3, <1>4, <1>5, <1>6 DEF IInv

LEMMA Invariance == Spec => []IInv
<1>1. IInv /\ [Next]_vars => IInv' BY NextIInv
<1> QED BY InitIInv, <1>1, PTL DEF Spec

------------------------------------------------------------------------------
(* What follows from it.                                                        *)

(* Where two jobs can be tracked at once, one is the record's.                  *)
LEMMA OneTracked ==
  ASSUME Typed, Sound, Hands, NEW k, NEW l, Tracked(k), Tracked(l)
  PROVE  k = l
<1>1. \A c \in Coroutines : at[c] = "tracks" =>
        item.stage = "payment_ready" /\ item.job = 0 /\ \A d \in Coroutines : Holds(d) => d = c
  BY CoroutineFacts DEF Hands, Alone, Staged, Starting, Sound, Holds, Phases
<1>2. at["request"] = "told" => item.job # 0
  BY CoroutineFacts DEF Hands, Staged
<1>3. \A c \in Coroutines : at[c] = "tracks" => Holds(c)
  BY DEF Holds, Phases
<1> QED BY <1>1, <1>2, <1>3, CoroutineFacts DEF Tracked, UnderWay

(* An account is paid for at most once, unless the page raced with the tick or  *)
(* insisted, an answer was lost, or the database failed when a job, a number or *)
(* a failed start was to be recorded: the record, or whoever is about to write  *)
(* there, knows the one job that may pay.                                       *)
THEOREM AccountIsPaidOnce == Spec => []PaidOnce
<1>1. IInv => PaidOnce
  <2> SUFFICES ASSUME IInv, excuses \cap {"raced", "insisted", "blind", "unrecorded"} = {}
               PROVE  ~(Cardinality(Completed) > 1)
    BY DEF PaidOnce
  <2>1. Typed /\ Sound /\ Hands /\ JobsKnown BY DEF IInv, Calm
  <2>2. \A k \in Completed : Tracked(k) BY <2>1 DEF Completed, JobsKnown, Paying
  <2>3. \A k, l \in Completed : k = l BY <2>1, <2>2, OneTracked
  <2>4. CASE Completed = {} BY <2>4, FS_EmptySet
  <2>5. CASE Completed # {}
    <3>1. PICK k \in Completed : TRUE BY <2>5
    <3>2. Completed = {k} BY <2>3, <3>1
    <3> QED BY <3>2, FS_Singleton
  <2> QED BY <2>4, <2>5
<1> QED BY <1>1, Invariance, PTL

(* Unless the page raced with the tick, a release was refused, an answer or the *)
(* list of jobs was lost, or the database failed when a number was to be noted, *)
(* no number that is paid for is forgotten: the record has it, or whoever has   *)
(* just bought it and is about to write it there.                               *)
THEOREM NumbersAreKnown == Spec => []NoNumberForgotten
<1>1. IInv => NoNumberForgotten
  <2> SUFFICES ASSUME IInv, excuses \cap {"raced", "refused", "blind", "unrecorded"} = {},
                      NEW n \in DOMAIN numbers, numbers[n] = "active"
               PROVE  n \in {item.number} \cup {got[c] : c \in Coroutines}
    BY DEF NoNumberForgotten
  <2>1. NumbersKnown BY DEF IInv, Calm
  <2> QED BY <2>1 DEF NumbersKnown, Numbered, Noted
<1> QED BY <1>1, Invariance, PTL

(* While nobody asks for anything, no answer is lost, no release refused and    *)
(* no start left unrecorded, the pipeline buys at most a number and its changes *)
(* for each payment, and makes at most one payment more than it may retry.      *)
THEOREM SpendingIsBounded == Spec => []SpendsWithinSettings
<1>1. IInv => SpendsWithinSettings
  <2> SUFFICES ASSUME IInv, excuses = {}
               PROVE  Len(numbers) <= (1 + PaymentRetries) * (1 + NumberChanges)
    BY DEF SpendsWithinSettings
  <2>1. Typed /\ Spent BY DEF IInv
  <2>2. Len(numbers) <= Before + Each /\ item.paymentRetry <= PaymentRetries
    BY <2>1 DEF Spent
  <2>3. \A a, b, e \in Nat : a <= b => a * e + e <= (1 + b) * e
    <3> SUFFICES ASSUME NEW a \in Nat, NEW b \in Nat, NEW e \in Nat, a <= b
                 PROVE  a * e + e <= (1 + b) * e
      OBVIOUS
    <3>1. PICK d \in Nat : b = a + d
      <4>1. b - a \in Nat /\ b = a + (b - a) OBVIOUS
      <4> QED BY <4>1
    <3>2. (1 + b) * e = a * e + d * e + e BY <3>1
    <3>3. a * e \in Nat /\ d * e \in Nat BY Naturals2
    <3> QED BY <3>2, <3>3
  <2> QED BY <2>1, <2>2, <2>3, SpentNumbers DEF Before
<1> QED BY <1>1, Invariance, PTL
==============================================================================
