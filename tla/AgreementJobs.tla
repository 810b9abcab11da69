---------------------------- MODULE AgreementJobs ----------------------------
(* The job manager of the agreement sidecar (paypal_agreement_protocol/web.py): *)
(* one thread per job, a bounded semaphore of execution slots, a lock over the  *)
(* list of jobs, and one lock per job that its own thread, the HTTP threads and *)
(* the reclaiming of a link all take.  The payment flow itself is external: it  *)
(* works, asks for an SMS code or a new phone, returns or raises.               *)
EXTENDS Naturals, FiniteSets

CONSTANTS
    Jobs,
    Requests,       \* what jobs are created with: a device (its cookie) and a link
    Internal,       \* the devices whose requests come over the internal channel
    Permits,        \* MAX_ACTIVE_JOBS
    MaxQueued,      \* MAX_QUEUED_JOBS
    MaxPerDevice,   \* MAX_ACTIVE_JOBS_PER_DEVICE
    MaxTotal,       \* MAX_TOTAL_JOBS
    MaxPrompts,     \* how often a flow asks for input (bound)
    MaxInputs       \* how many inputs a job's queue holds (bound)

(* The limits of env_int; with the defaults the queue is shorter than the list. *)
ASSUME LimitsAssumption ==
    /\ Permits \in Nat \ {0} /\ MaxQueued \in Nat \ {0}
    /\ MaxPerDevice \in Nat \ {0} /\ MaxTotal \in Nat \ {0}
    /\ MaxQueued <= MaxTotal
    /\ MaxPrompts \in Nat /\ MaxInputs \in Nat

ASSUME JobsAssumption ==
    /\ IsFiniteSet(Jobs)
    /\ \A r \in Requests : DOMAIN r = {"device", "link"}

VARIABLES
    request,    \* what a created job was asked for: its device and link
    listed,     \* JOBS: the jobs that the list still holds
    status,     \* WebJob.status, "none" before the job is created
    cancelled,  \* _cancel_event
    held,       \* _slot_held
    inputs,     \* length of _input_queue
    permits,    \* value of RUNNER_SEMAPHORE
    pc,         \* where the job's thread is
    prompts,    \* how often the flow has asked (bound)
    freeing     \* the cancelled jobs whose slot cancel() has yet to give back

managerVars == <<request, listed, status, cancelled, held, inputs, permits, pc,
                 prompts, freeing>>

Active == {"queued", "running", "awaiting_otp"}
Terminal == {"completed", "failed", "cancelled"}
NoRequest == [device |-> "none", link |-> "none"]
ThreadPlaces == {"none", "acquires", "granted", "resumes", "working", "prompted",
                 "waits", "succeeded", "raised", "completes", "fails", "ends", "ended"}

ManagerInit ==
    /\ request = [j \in Jobs |-> NoRequest]
    /\ listed = {}
    /\ status = [j \in Jobs |-> "none"]
    /\ cancelled = [j \in Jobs |-> FALSE]
    /\ held = [j \in Jobs |-> FALSE]
    /\ inputs = [j \in Jobs |-> 0]
    /\ permits = Permits
    /\ pc = [j \in Jobs |-> "none"]
    /\ prompts = [j \in Jobs |-> 0]
    /\ freeing = {}

------------------------------------------------------------------------------
(* HTTP threads: creating, answering and cancelling jobs.                       *)

IsActive(j) == status[j] \in Active
ActiveJobs == {j \in listed : IsActive(j)}
Finished == listed \ ActiveJobs
(* Mutant: only a job that is being worked on counts as using its link.         *)
OfLinkAtWork(l) == {j \in listed : status[j] = "running" /\ request[j].link = l}
OfLink(l) == {j \in ActiveJobs : request[j].link = l}
OfDevice(d) == {j \in ActiveJobs : request[j].device = d}

(* Finished jobs that are too old go; then the oldest of them, until one more   *)
(* job fits.  Which ones are old is a matter of time.                           *)
Prunes(gone) ==
    /\ gone \subseteq Finished
    /\ gone = Finished \/ Cardinality(listed \ gone) < MaxTotal

(* The limits, with the count of active jobs that was taken before a reclaiming *)
(* and the jobs of the device itself, which a reclaimed job is never one of.    *)
Admits(r, kept) ==
    /\ Cardinality(ActiveJobs) < MaxQueued
    /\ Cardinality(OfDevice(r.device)) < MaxPerDevice
    /\ Cardinality(kept) < MaxTotal

(* The job is added, and its thread started, unless a limit forbids it.         *)
Enters(j, r, kept, others) ==
    \/ /\ Admits(r, kept)
       /\ listed' = kept \cup {j}
       /\ request' = [request EXCEPT ![j] = r]
       /\ status' = [others EXCEPT ![j] = "queued"]
       /\ pc' = [pc EXCEPT ![j] = "acquires"]
    \/ /\ ~Admits(r, kept)
       /\ listed' = kept /\ status' = others
       /\ UNCHANGED <<request, pc>>

(* An active job of the link is the answer to its own device; another device's  *)
(* is cancelled if both requests came over the internal channel, and otherwise  *)
(* the request is refused.                                                      *)
Reclaims(j, r, kept, o) ==
    /\ {r.device, request[o].device} \subseteq Internal
    /\ cancelled' = [cancelled EXCEPT ![o] = TRUE]
    /\ freeing' = freeing \cup {o}
    /\ Enters(j, r, kept, [status EXCEPT ![o] = "cancelled"])

AddsNothing(kept) ==
    /\ listed' = kept
    /\ UNCHANGED <<request, status, cancelled, freeing, pc>>

Create(j) ==
    /\ status[j] = "none"
    /\ \E r \in Requests, gone \in SUBSET Finished :
        LET kept == listed \ gone
            foreign == {o \in OfLink(r.link) : request[o].device # r.device}
        IN /\ Prunes(gone)
           /\ \/ /\ OfLink(r.link) \subseteq foreign
                 /\ \E o \in foreign : Reclaims(j, r, kept, o)
              \/ /\ \E o \in OfLink(r.link) :
                       o \in foreign => ~({r.device, request[o].device} \subseteq Internal)
                 /\ AddsNothing(kept)
              \/ /\ OfLink(r.link) = {}
                 /\ Enters(j, r, kept, status)
                 /\ UNCHANGED <<cancelled, freeing>>
    /\ UNCHANGED <<held, inputs, permits, prompts>>

(* GET /api/jobs prunes too.                                                    *)
List ==
    /\ \E gone \in SUBSET Finished :
        Prunes(gone) /\ gone # {} /\ listed' = listed \ gone
    /\ UNCHANGED <<request, status, cancelled, held, inputs, permits, pc,
                   prompts, freeing>>

(* POST /otp: a code or a new phone, whatever the prompt.                       *)
SubmitInput(j) ==
    /\ j \in listed /\ status[j] = "awaiting_otp"
    /\ inputs[j] < MaxInputs
    /\ inputs' = [inputs EXCEPT ![j] = @ + 1]
    /\ UNCHANGED <<request, listed, status, cancelled, held, permits, pc,
                   prompts, freeing>>

(* POST /cancel: acknowledged at once, then the slot is given back.             *)
Cancel(j) ==
    /\ j \in listed /\ IsActive(j)
    /\ cancelled' = [cancelled EXCEPT ![j] = TRUE]
    /\ status' = [status EXCEPT ![j] = "cancelled"]
    /\ freeing' = freeing \cup {j}
    /\ UNCHANGED <<request, listed, held, inputs, permits, pc, prompts>>

(* release_execution_slot: whoever finds the slot held gives its permit back.   *)
ReleasesSlot(j) ==
    /\ held' = [held EXCEPT ![j] = FALSE]
    /\ permits' = permits + IF held[j] THEN 1 ELSE 0

CancelReleases(j) ==
    /\ j \in freeing
    /\ freeing' = freeing \ {j}
    /\ ReleasesSlot(j)
    /\ UNCHANGED <<request, listed, status, cancelled, inputs, pc, prompts>>

------------------------------------------------------------------------------
(* The thread of a job.                                                         *)

Goes(j, place) == pc' = [pc EXCEPT ![j] = place]

(* Mutant: the status is shown without a look at the event.                     *)
ShowsAlways(j, s) == status' = [status EXCEPT ![j] = s]

(* set_status: nothing but a cancellation is shown once the job is cancelled.   *)
Shows(j, s) ==
    status' = IF cancelled[j] THEN status ELSE [status EXCEPT ![j] = s]

Rest == <<request, listed, cancelled, inputs, prompts, freeing>>

(* acquire_execution_slot: look at the event, take a permit, register the slot. *)
Acquire(j) ==
    /\ pc[j] = "acquires"
    /\ \/ /\ cancelled[j] /\ Goes(j, "raised") /\ UNCHANGED permits
       \/ /\ permits > 0
          /\ permits' = permits - 1
          /\ Goes(j, "granted")
    /\ UNCHANGED <<Rest, status, held>>

(* Mutant: a job that was cancelled keeps the permit that it has just got.      *)
RegisterKeeping(j) ==
    /\ pc[j] = "granted"
    /\ IF cancelled[j] THEN Goes(j, "raised") /\ UNCHANGED held
       ELSE Goes(j, "resumes") /\ held' = [held EXCEPT ![j] = TRUE]
    /\ UNCHANGED <<Rest, status, permits>>

Register(j) ==
    /\ pc[j] = "granted"
    /\ \/ /\ cancelled[j]
          /\ permits' = permits + 1
          /\ Goes(j, "raised") /\ UNCHANGED held
       \/ /\ ~cancelled[j]
          /\ held' = [held EXCEPT ![j] = TRUE]
          /\ Goes(j, "resumes") /\ UNCHANGED permits
    /\ UNCHANGED <<Rest, status>>

(* running is shown; a cancellation that is seen first raises.                  *)
Resume(j) ==
    /\ pc[j] = "resumes"
    /\ \/ cancelled[j] /\ Goes(j, "raised") /\ UNCHANGED status
       \/ Shows(j, "running") /\ Goes(j, "working")
    /\ UNCHANGED <<Rest, held, permits>>

(* The flow returns or raises; the closing of its session makes it raise.       *)
FlowEnds(j) ==
    /\ pc[j] = "working"
    /\ Goes(j, "succeeded") \/ Goes(j, "raised")
    /\ UNCHANGED <<Rest, status, held, permits>>

(* wait_for_input: awaiting_otp is shown, then the slot is lent to others.      *)
Prompt(j) ==
    /\ pc[j] = "working" /\ ~cancelled[j]
    /\ prompts[j] < MaxPrompts
    /\ prompts' = [prompts EXCEPT ![j] = @ + 1]
    /\ status' = [status EXCEPT ![j] = "awaiting_otp"]
    /\ Goes(j, "prompted")
    /\ UNCHANGED <<request, listed, cancelled, held, inputs, permits, freeing>>

LendSlot(j) ==
    /\ pc[j] = "prompted"
    /\ ReleasesSlot(j)
    /\ Goes(j, "waits")
    /\ UNCHANGED <<Rest, status>>

(* The first input of the queue answers the prompt, even one of an earlier one. *)
TakeInput(j) ==
    /\ pc[j] = "waits" /\ ~cancelled[j]
    /\ inputs[j] > 0
    /\ inputs' = [inputs EXCEPT ![j] = @ - 1]
    /\ status' = [status EXCEPT ![j] = "queued"]
    /\ Goes(j, "acquires")
    /\ UNCHANGED <<request, listed, cancelled, held, permits, prompts,
                   freeing>>

(* Mutant: the wait has no deadline.                                            *)
GivesUpCancelled(j) ==
    /\ pc[j] = "waits" /\ cancelled[j]
    /\ Goes(j, "raised")
    /\ UNCHANGED <<Rest, status, held, permits>>

(* Nobody answers in time, or the job was cancelled.                            *)
GivesUp(j) ==
    /\ pc[j] = "waits"
    /\ Goes(j, "raised")
    /\ UNCHANGED <<Rest, status, held, permits>>

(* complete and fail look at the event before they take the lock that they      *)
(* record the end under.                                                        *)
Decide(j) ==
    /\ pc[j] \in {"succeeded", "raised"}
    /\ \/ /\ cancelled[j]
          /\ status' = [status EXCEPT ![j] = "cancelled"]
          /\ Goes(j, "ends")
       \/ /\ ~cancelled[j]
          /\ Goes(j, IF pc[j] = "succeeded" THEN "completes" ELSE "fails")
          /\ UNCHANGED status
    /\ UNCHANGED <<Rest, held, permits>>

Record(j) ==
    /\ pc[j] \in {"completes", "fails"}
    /\ status' = [status EXCEPT ![j] =
                    IF pc[j] = "completes" THEN "completed" ELSE "failed"]
    /\ Goes(j, "ends")
    /\ UNCHANGED <<Rest, held, permits>>

End(j) ==
    /\ pc[j] = "ends"
    /\ ReleasesSlot(j)
    /\ Goes(j, "ended")
    /\ UNCHANGED <<Rest, status>>

Runs(j) ==
    \/ Acquire(j) \/ Register(j) \/ Resume(j) \/ FlowEnds(j) \/ Prompt(j)
    \/ LendSlot(j) \/ TakeInput(j) \/ GivesUp(j) \/ Decide(j) \/ Record(j)
    \/ End(j)

Requested(j) == Create(j) \/ SubmitInput(j) \/ Cancel(j)

ManagerNext ==
    \/ List
    \/ \E j \in Jobs : Requested(j) \/ CancelReleases(j) \/ Runs(j)

(* The process runs its threads; nobody has to answer, cancel or create.        *)
ManagerFairness == \A j \in Jobs :
    WF_managerVars(Runs(j)) /\ WF_managerVars(CancelReleases(j))

ManagerSpec == ManagerInit /\ [][ManagerNext]_managerVars
ManagerFairSpec == ManagerSpec /\ ManagerFairness

------------------------------------------------------------------------------
TypeOK ==
    /\ request \in [Jobs -> Requests \cup {NoRequest}]
    /\ listed \subseteq Jobs
    /\ status \in [Jobs -> Active \cup Terminal \cup {"none"}]
    /\ cancelled \in [Jobs -> BOOLEAN]
    /\ held \in [Jobs -> BOOLEAN]
    /\ inputs \in [Jobs -> 0..MaxInputs]
    /\ permits \in 0..Permits
    /\ pc \in [Jobs -> ThreadPlaces]
    /\ prompts \in [Jobs -> 0..MaxPrompts]
    /\ freeing \subseteq Jobs

(* A permit is free, in the hands of a thread that has just got it, or behind a *)
(* held slot: none is lost or given back twice, wherever a cancellation falls   *)
(* between a thread's steps.                                                    *)
PermitsExact ==
    permits + Cardinality({j \in Jobs : held[j]})
            + Cardinality({j \in Jobs : pc[j] = "granted"}) = Permits

AtWork(j) == pc[j] \notin {"none", "ends", "ended"}

(* However jobs are created, reclaimed, cancelled and ended, an agreement link   *)
(* has one owner: of the threads at work on it at most one has not been told to  *)
(* stop.  This is all that the search for duplicates gives: a thread whose link  *)
(* was reclaimed goes on until its next look at the event, and may still pay     *)
(* beside the new owner.                                                         *)
OneOwnerPerLink ==
    \A j, k \in Jobs :
        /\ AtWork(j) /\ ~cancelled[j]
        /\ AtWork(k) /\ ~cancelled[k]
        /\ request[j].link = request[k].link
        => j = k

(* What a job's end, or its cancellation, has been shown as is never followed   *)
(* by a sign of work, whatever its thread was about to show.                    *)
NeverReopens ==
    [][\A j \in Jobs : status[j] \in Terminal => status'[j] \in Terminal]_managerVars

(* Every created job ends, and its thread too, although no input may come and   *)
(* the slots may all be taken.                                                  *)
EveryJobEnds ==
    \A j \in Jobs : status[j] # "none" ~> pc[j] = "ended" /\ status[j] \in Terminal

==============================================================================
