------------------------------- MODULE Pipeline -------------------------------
(* AccountPipelineService (pipeline_service.py) with one account: its record in *)
(* account_pipeline, the background tick, the requests of the page, and the     *)
(* services they call: the extractor's tasks (TaskManager), the sidecar's jobs  *)
(* (AgreementJobs) and the numbers of HeroSMS.  The tick and a request are two  *)
(* coroutines.  A step is one await that others can come between: a read, a     *)
(* call, or a write together with the giving back of a number before it.        *)
(* HeroSMS, automatic extraction and automatic payment are switched on.         *)
EXTENDS Naturals, Sequences, FiniteSets

CONSTANTS
    ExtractionRetries, PaymentRetries, NumberChanges,   \* the settings
    MaxEvents,      \* requests of the page, failures and restarts (bound)
    MaxTasks, MaxJobs, MaxNumbers   \* what the services grant in all (bounds)

ASSUME SettingsAssumption ==
    {ExtractionRetries, PaymentRetries, NumberChanges, MaxEvents,
     MaxTasks, MaxJobs, MaxNumbers} \subseteq Nat

VARIABLES
    item,       \* the account's document in account_pipeline
    account,    \* "eligible" while it passes _account_secret, "lapsed", "deleted"
    tasks,      \* the extraction tasks; a task's number is also its link's
    stale,      \* the links that have less than their least lifetime left
    jobs,       \* the sidecar's jobs: link, status, and whether it knows them
    numbers,    \* the activations bought
    at,         \* where the tick and the request are
    seen,       \* the document that each has read
    got,        \* what each has just been given: a task, a number or a job
    events,     \* requests, failures and restarts so far (bound)
    excuses     \* history: what the properties do not promise anything after

services == <<tasks, jobs, numbers>>
outside == <<account, stale>>
vars == <<item, at, seen, got, excuses, services, outside, events>>

Coroutines == {"tick", "request"}
Stages == {"absent", "eligible", "extracting", "extraction_failed",
           "payment_ready", "paying", "payment_waiting_otp", "payment_failed",
           "paid", "archived"}
Blank ==
    [id |-> 0, stage |-> "absent", extraction |-> "pending", task |-> 0,
     link |-> 0, payment |-> "pending", job |-> 0, number |-> 0,
     sms |-> "none", attempt |-> 0, extractionRetry |-> 0, paymentRetry |-> 0]

(* Between two phases of the tick no document is in hand.                       *)
Phases == {"idle", "extractions", "payments", "expiry", "retries", "extract", "pay"}
Holds(c) == at[c] \notin Phases
Other(c) == CHOOSE d \in Coroutines : d # c

Exists == item.stage # "absent"
Fresh(doc) == doc.link # 0 /\ doc.link \notin stale
Payable == item.stage = "payment_ready" /\ item.payment = "pending"
Waiting == item.stage = "eligible" /\ item.extraction = "pending"
JobLive(k) == jobs[k].status \in {"running", "awaiting_otp"}
LinkBusy(l) == \E k \in DOMAIN jobs : jobs[k].link = l /\ JobLive(k)
Completed == {k \in DOMAIN jobs : jobs[k].status = "completed"}

Init ==
    /\ item = Blank
    /\ account = "eligible"
    /\ tasks = <<>> /\ jobs = <<>> /\ numbers = <<>>
    /\ stale = {}
    /\ at = [c \in Coroutines |-> "idle"]
    /\ seen = [c \in Coroutines |-> Blank]
    /\ got = [c \in Coroutines |-> 0]
    /\ events = 0
    /\ excuses = {}

------------------------------------------------------------------------------
(* How a step reads, writes, calls and goes on.                                 *)

At(c, place) == at[c] = place

GoesWith(c, place, thing) ==
    /\ at' = [at EXCEPT ![c] = place]
    /\ got' = [got EXCEPT ![c] = thing]
    /\ seen' = IF place \in Phases THEN [seen EXCEPT ![c] = Blank] ELSE seen

GoesTo(c, place) == GoesWith(c, place, IF place \in Phases THEN 0 ELSE got[c])

(* The tick goes on with its next phase, a request is answered.                 *)
Leaves(c, phase) == GoesTo(c, IF c = "tick" THEN phase ELSE "idle")

Excused(reasons) == excuses' = excuses \cup reasons
Raced(c) == IF Holds(Other(c)) THEN {"raced"} ELSE {}

(* find_one or find: the document is in hand until the operation ends.          *)
Reads(c, place) ==
    /\ at' = [at EXCEPT ![c] = place]
    /\ seen' = [seen EXCEPT ![c] = item]
    /\ Excused(Raced(c))
    /\ UNCHANGED got

(* update_one by _id alone: whatever the document has become in the meantime.   *)
(* That it may fail is DatabaseFails.                                           *)
Writes(c, doc) ==
    item' = IF Exists /\ item.id = seen[c].id THEN doc ELSE item

(* A failure; one that a request meets is part of its event.                    *)
Happens == events < MaxEvents /\ events' = events + 1
Trouble(c) == IF c = "tick" THEN Happens ELSE UNCHANGED events

(* _release_hero_activation, as completed or as cancelled: no number, or one     *)
(* that is not active any more, is no error.                                    *)
InUse(n) == n # 0 /\ numbers[n] = "active"
Released(n) == IF InUse(n) THEN [numbers EXCEPT ![n] = "over"] ELSE numbers
Releases(n) == numbers' = Released(n) /\ UNCHANGED <<events, excuses>>
ReleaseRefused(c, n) ==
    InUse(n) /\ Trouble(c) /\ Excused({"refused"}) /\ UNCHANGED numbers

ExtractionFailed(doc) ==
    [doc EXCEPT !.stage = "extraction_failed", !.extraction = "failed"]
PaymentFailed(doc) ==
    [doc EXCEPT !.stage = "payment_failed", !.payment = "failed"]
WithoutPayment(doc, status) ==
    [doc EXCEPT !.payment = status, !.job = 0, !.number = 0, !.sms = "none",
                !.attempt = 0]

(* _expire_payment_link: guarded by the stage, decided by what was read.        *)
Expires(c, doc) ==
    IF ~Fresh(doc) /\ item.stage \in {"payment_ready", "payment_failed"}
    THEN Writes(c, [WithoutPayment(item, "failed") EXCEPT
                      !.stage = "payment_failed", !.extraction = "succeeded"])
    ELSE UNCHANGED item

------------------------------------------------------------------------------
(* Extraction.                                                                  *)

(* sync_eligible: a record for the account if it has none; one tick at a time.  *)
TickBegins ==
    /\ At("tick", "idle")
    /\ item' = IF ~Exists /\ account = "eligible"
               THEN [Blank EXCEPT !.id = item.id + 1, !.stage = "eligible"]
               ELSE item
    /\ GoesTo("tick", "extractions")
    /\ UNCHANGED <<excuses, services, outside, events>>

(* A phase that finds no record is over.                                        *)
Finds(phase, found, place, next) ==
    /\ At("tick", phase)
    /\ IF found THEN Reads("tick", place)
       ELSE GoesTo("tick", next) /\ UNCHANGED excuses
    /\ UNCHANGED <<item, services, outside, events>>

FindExtraction == Finds("extractions", item.extraction = "running", "task", "payments")

(* A success whose link is already too old is a failure, and a task that is not *)
(* known, after a restart, is one too.                                          *)
SettleExtraction ==
    LET t == seen["tick"].task
        status == IF t = 0 THEN "gone" ELSE tasks[t]
    IN
    /\ At("tick", "task")
    /\ \/ /\ status = "succeeded" /\ t \notin stale
          /\ Writes("tick", [item EXCEPT
                !.stage = "payment_ready", !.extraction = "succeeded",
                !.payment = "pending", !.link = t])
       \/ /\ status = "running"
          /\ Writes("tick", [item EXCEPT !.extraction = "running"])
       \/ /\ status \in {"failed", "gone"} \/ t \in stale
          /\ Writes("tick", ExtractionFailed(item))
    /\ GoesTo("tick", "payments")
    /\ UNCHANGED <<excuses, services, outside, events>>

FindEligible == Finds("extract", Waiting, "creates", "pay")

(* That the account was deleted is raised past the handler: nothing is written. *)
CreateTask(c) ==
    /\ At(c, "creates")
    /\ \/ /\ account = "deleted"
          /\ GoesTo(c, "idle")
          /\ UNCHANGED <<item, tasks, events>>
       \/ /\ account = "eligible" /\ Len(tasks) < MaxTasks
          /\ tasks' = Append(tasks, "running")
          /\ GoesWith(c, "begins", Len(tasks) + 1)
          /\ UNCHANGED <<item, events>>
       \/ /\ account # "deleted"
          /\ \/ (account = "lapsed" \/ Len(tasks) = MaxTasks) /\ UNCHANGED events
             \/ Trouble(c)
          /\ Writes(c, ExtractionFailed(item))
          /\ Leaves(c, "pay")
          /\ UNCHANGED tasks
    /\ UNCHANGED <<jobs, numbers, outside, excuses>>

BeginExtraction(c) ==
    /\ At(c, "begins")
    /\ Writes(c, [item EXCEPT !.stage = "extracting", !.extraction = "running",
                              !.task = got[c]])
    /\ Leaves(c, "pay")
    /\ UNCHANGED <<excuses, services, outside, events>>

------------------------------------------------------------------------------
(* start_payment.                                                               *)

FindReady ==
    /\ At("tick", "pay")
    /\ IF Payable THEN Reads("tick", "checks")
       ELSE GoesTo("tick", "idle") /\ UNCHANGED excuses
    /\ UNCHANGED <<item, services, outside, events>>

(* What does not hold any more raises, and ends the tick or the request.  The   *)
(* page may bring a phone of its own.                                           *)
CheckPayment(c) ==
    /\ At(c, "checks")
    /\ \/ /\ Fresh(seen[c]) /\ account = "eligible"
          /\ \/ GoesTo(c, "buys")
             \/ c = "request" /\ GoesTo(c, "posts")
          /\ UNCHANGED item
       \/ /\ ~(Fresh(seen[c]) /\ account = "eligible")
          /\ Expires(c, seen[c])
          /\ GoesTo(c, "idle")
    /\ UNCHANGED <<excuses, services, outside, events>>

(* _acquire_hero_number, which the rotation calls as well: a number whose price  *)
(* or phone is refused, or of which no answer comes, stays bought.              *)
BuyNumber(c) ==
    /\ at[c] \in {"buys", "rebuys"}
    /\ \/ /\ Len(numbers) < MaxNumbers
          /\ numbers' = Append(numbers, "active")
          /\ GoesWith(c, IF At(c, "buys") THEN "notes" ELSE "renotes", Len(numbers) + 1)
          /\ UNCHANGED <<item, events, excuses>>
       \/ /\ \/ Len(numbers) = MaxNumbers /\ UNCHANGED <<numbers, events, excuses>>
             \/ Trouble(c) /\ UNCHANGED <<numbers, excuses>>
             \/ /\ Len(numbers) < MaxNumbers /\ Trouble(c)
                /\ numbers' = Append(numbers, "active")
                /\ Excused({"blind"})
          /\ Writes(c, PaymentFailed(item))
          /\ GoesTo(c, IF At(c, "buys") THEN "idle" ELSE "expiry")
    /\ UNCHANGED <<tasks, jobs, outside>>

WithNumber(doc, n, attempt) ==
    [doc EXCEPT !.number = n, !.sms = "waiting", !.attempt = attempt]

(* Mutant: a change of numbers is not counted.                                  *)
NoteNumberUncounted(c) ==
    /\ at[c] \in {"notes", "renotes"}
    /\ Writes(c, WithNumber(item, got[c], 1))
    /\ GoesTo(c, IF At(c, "notes") THEN "posts" ELSE "tells")
    /\ UNCHANGED <<excuses, services, outside, events>>

NoteNumber(c) ==
    /\ at[c] \in {"notes", "renotes"}
    /\ Writes(c, WithNumber(item, got[c],
                            IF At(c, "notes") THEN 1 ELSE seen[c].attempt + 1))
    /\ GoesTo(c, IF At(c, "notes") THEN "posts" ELSE "tells")
    /\ UNCHANGED <<excuses, services, outside, events>>

(* POST /api/jobs with a device of its own, outside the internal channel: the   *)
(* sidecar refuses a link that has an active job.                               *)
NewJob(c) == [link |-> seen[c].link, status |-> "running", known |-> TRUE]
Grants(c) == ~LinkBusy(seen[c].link) /\ Len(jobs) < MaxJobs

PostJob(c) ==
    /\ At(c, "posts") /\ Grants(c)
    /\ jobs' = Append(jobs, NewJob(c))
    /\ GoesWith(c, "tracks", Len(jobs) + 1)
    /\ UNCHANGED <<item, tasks, numbers, outside, events, excuses>>

(* Whatever is raised, the number goes back and the record has failed: also if  *)
(* only the answer was lost, and the job runs.                                  *)
PostJobFails(c) ==
    /\ At(c, "posts")
    /\ \/ /\ ~Grants(c) /\ UNCHANGED jobs
          /\ Releases(got[c]) \/ ReleaseRefused(c, got[c])
       \/ /\ Trouble(c)
          /\ numbers' = Released(got[c])
          /\ \/ UNCHANGED <<jobs, excuses>>
             \/ Grants(c) /\ jobs' = Append(jobs, NewJob(c)) /\ Excused({"blind"})
    /\ Writes(c, PaymentFailed(item))
    /\ GoesTo(c, "idle")
    /\ UNCHANGED <<tasks, outside>>

TrackJob(c) ==
    /\ At(c, "tracks")
    /\ Writes(c, [item EXCEPT !.stage = "paying", !.payment = "running",
                              !.job = got[c]])
    /\ GoesTo(c, "idle")
    /\ UNCHANGED <<excuses, services, outside, events>>

------------------------------------------------------------------------------
(* The payments of the tick: _reconcile_payments, _reconcile_hero_sms.          *)

FindPayment ==
    Finds("payments",
          item.job # 0 /\ item.payment \notin {"completed", "failed"},
          "job", "expiry")

(* Mutant: a job that the sidecar does not know is asked for again and again.   *)
GetJobAgain ==
    LET job == jobs[seen["tick"].job] IN
    /\ At("tick", "job")
    /\ \/ job.known /\ GoesTo("tick", job.status) /\ UNCHANGED events
       \/ ~job.known /\ GoesTo("tick", "expiry") /\ UNCHANGED events
       \/ Trouble("tick") /\ GoesTo("tick", "idle")
    /\ UNCHANGED <<item, excuses, services, outside>>

(* GET /api/jobs: 404 fails the payment, another answer waits for the next      *)
(* tick, and a failed call ends this one.                                       *)
GetJob ==
    LET job == jobs[seen["tick"].job] IN
    /\ At("tick", "job")
    /\ \/ /\ job.known
          /\ GoesTo("tick", job.status)
          /\ UNCHANGED <<item, events, excuses>>
       \/ /\ ~job.known
          /\ Writes("tick", PaymentFailed(item))
          /\ GoesTo("tick", "expiry")
          /\ UNCHANGED <<events, excuses>>
       \/ /\ Trouble("tick")
          /\ GoesTo("tick", "expiry") \/ GoesTo("tick", "idle")
          /\ UNCHANGED <<item, excuses>>
    /\ UNCHANGED <<services, outside>>

SettleRunning ==
    /\ At("tick", "running")
    /\ Writes("tick", [item EXCEPT !.stage = "paying", !.payment = "running"])
    /\ GoesTo("tick", "expiry")
    /\ UNCHANGED <<excuses, services, outside, events>>

SettleAwaiting ==
    /\ At("tick", "awaiting_otp")
    /\ Writes("tick", [item EXCEPT !.stage = "payment_waiting_otp",
                                   !.payment = "awaiting_otp"])
    /\ GoesTo("tick", IF seen["tick"].number # 0 THEN "refresh" ELSE "expiry")
    /\ UNCHANGED <<excuses, services, outside, events>>

SettleCompleted ==
    LET doc == seen["tick"] IN
    /\ At("tick", "completed")
    /\ \/ Releases(IF doc.sms \in {"code_submitted", "completed"} THEN 0
                   ELSE doc.number)
       \/ doc.sms \notin {"code_submitted", "completed"} /\ ReleaseRefused("tick", doc.number)
    /\ Writes("tick", [item EXCEPT !.stage = "paid", !.payment = "completed",
                                   !.sms = "completed"])
    /\ GoesTo("tick", "expiry")
    /\ UNCHANGED <<tasks, jobs, outside>>

(* Mutant: the number of a failed job is kept.                                  *)
SettleFailedKeeping ==
    /\ at["tick"] \in {"failed", "cancelled"}
    /\ Writes("tick", PaymentFailed(item))
    /\ GoesTo("tick", "expiry")
    /\ UNCHANGED <<excuses, services, outside, events>>

SettleFailed ==
    /\ at["tick"] \in {"failed", "cancelled"}
    /\ Releases(seen["tick"].number) \/ ReleaseRefused("tick", seen["tick"].number)
    /\ Writes("tick", [PaymentFailed(item) EXCEPT !.sms = "cancelled"])
    /\ GoesTo("tick", "expiry")
    /\ UNCHANGED <<tasks, jobs, outside>>

Refresh ==
    /\ At("tick", "refresh")
    /\ IF Exists /\ item.id = seen["tick"].id THEN Reads("tick", "sms")
       ELSE GoesTo("tick", "expiry") /\ UNCHANGED excuses
    /\ UNCHANGED <<item, services, outside, events>>

(* No SMS yet; or the number is of no more use: its code was refused, its time  *)
(* is over, or the service has ended it; or a code was received.                *)
ReadSms ==
    LET doc == seen["tick"] IN
    /\ At("tick", "sms")
    /\ \/ doc.sms # "code_submitted" /\ GoesTo("tick", "expiry")
       \/ doc.number # 0 /\ GoesTo("tick", "rotates")
       \/ InUse(doc.number) /\ doc.sms # "code_submitted" /\ GoesTo("tick", "enters")
    /\ UNCHANGED <<item, excuses, services, outside, events>>

(* _rotate_hero_number: the old number first; refused, it is tried again.       *)
Rotate ==
    LET doc == seen["tick"] IN
    /\ At("tick", "rotates")
    /\ \/ /\ ReleaseRefused("tick", doc.number)
          /\ Writes("tick", [item EXCEPT !.sms = "cancel_retry"])
          /\ GoesTo("tick", "expiry")
       \/ /\ Releases(doc.number)
          /\ IF doc.attempt >= 1 + NumberChanges
             THEN Writes("tick", PaymentFailed(item)) /\ GoesTo("tick", "expiry")
             ELSE GoesTo("tick", "rebuys") /\ UNCHANGED item
    /\ UNCHANGED <<tasks, jobs, outside>>

(* POST /otp: taken by a job that is waiting, with the device it was made with. *)
Asks(c) ==
    LET k == seen[c].job IN
    k # 0 /\ jobs[k].known /\ jobs[k].status = "awaiting_otp"
Answered(c) == [jobs EXCEPT ![seen[c].job].status = "running"]

(* The call fails, before or after the job has taken the answer.                *)
AnswerLost(c) ==
    /\ Trouble(c)
    /\ \/ UNCHANGED <<jobs, excuses>>
       \/ Asks(c) /\ jobs' = Answered(c) /\ Excused({"blind"})

(* A code of the page, or one that was received, which raises if it is refused. *)
EnterCode(c) ==
    /\ At(c, "enters")
    /\ \/ /\ Asks(c)
          /\ jobs' = Answered(c)
          /\ GoesTo(c, IF c = "tick" THEN "entered" ELSE "told")
          /\ UNCHANGED <<events, excuses>>
       \/ /\ AnswerLost(c) \/ (~Asks(c) /\ UNCHANGED <<jobs, events, excuses>>)
          /\ GoesTo(c, "idle")
    /\ UNCHANGED <<item, tasks, numbers, outside>>

NoteCode ==
    /\ At("tick", "entered")
    /\ Releases(seen["tick"].number) \/ ReleaseRefused("tick", seen["tick"].number)
    /\ Writes("tick", [item EXCEPT !.stage = "paying", !.payment = "running",
                                   !.sms = "code_submitted"])
    /\ GoesTo("tick", "expiry")
    /\ UNCHANGED <<tasks, jobs, outside>>

(* The rotation gives the number back and fails, if it catches what was raised: *)
(* a failed connection ends the tick.                                           *)
TellPhone ==
    /\ At("tick", "tells")
    /\ \/ /\ Asks("tick")
          /\ jobs' = Answered("tick")
          /\ GoesTo("tick", "told")
          /\ UNCHANGED <<item, numbers, events, excuses>>
       \/ /\ AnswerLost("tick")
          /\ GoesTo("tick", "idle")
          /\ UNCHANGED <<item, numbers>>
       \/ /\ \/ AnswerLost("tick") /\ numbers' = Released(got["tick"])
             \/ /\ ~Asks("tick") /\ UNCHANGED jobs
                /\ \/ Releases(got["tick"])
                   \/ ReleaseRefused("tick", got["tick"])
          /\ Writes("tick", PaymentFailed(item))
          /\ GoesTo("tick", "expiry")
    /\ UNCHANGED <<tasks, outside>>

NoteAnswer(c) ==
    /\ At(c, "told")
    /\ Writes(c, [item EXCEPT !.stage = "paying", !.payment = "running"])
    /\ Leaves(c, "expiry")
    /\ UNCHANGED <<excuses, services, outside, events>>

------------------------------------------------------------------------------
(* The rest of the tick; both updates are guarded by the stage.                 *)

MarkExpired ==
    /\ At("tick", "expiry")
    /\ item' = IF /\ item.stage \in {"payment_ready", "payment_failed"}
                  /\ item.extraction = "succeeded" /\ ~Fresh(item)
               THEN [WithoutPayment(item, "failed") EXCEPT !.stage = "payment_failed"]
               ELSE item
    /\ Excused(IF item' = item THEN {} ELSE Raced("tick"))
    /\ GoesTo("tick", "retries")
    /\ UNCHANGED <<services, outside, events>>

QueueRetries ==
    /\ At("tick", "retries")
    /\ item' =
        CASE item.stage = "extraction_failed" /\ item.extractionRetry < ExtractionRetries ->
               [item EXCEPT !.stage = "eligible", !.extraction = "pending",
                            !.task = 0, !.extractionRetry = @ + 1]
          [] /\ item.stage = "payment_failed" /\ item.extraction = "succeeded"
             /\ item.link # 0 /\ item.paymentRetry < PaymentRetries ->
               [WithoutPayment(item, "pending") EXCEPT
                  !.stage = "payment_ready", !.paymentRetry = @ + 1]
          [] OTHER -> item
    /\ Excused(IF item' = item THEN {} ELSE Raced("tick"))
    /\ GoesTo("tick", "extract")
    /\ UNCHANGED <<services, outside, events>>

------------------------------------------------------------------------------
(* The requests of the page.                                                    *)

Request(place, when) ==
    /\ At("request", "idle") /\ Happens
    /\ when
    /\ at' = [at EXCEPT !["request"] = place]
    /\ seen' = [seen EXCEPT !["request"] = item]
    /\ Excused({"asked"} \cup Raced("request"))
    /\ UNCHANGED <<item, got, services, outside>>

AskExtraction == Request("creates", Waiting)
AskPayment == Request("checks", Payable /\ item.extraction = "succeeded")
AskOtp == Request("enters", item.job # 0)
AskReset == Request("cancels", Exists)
AskDelete == Request("deletes", Exists)

(* Mutant: the reset leaves the old job alone.                                  *)
CancelJobInVain ==
    /\ At("request", "cancels")
    /\ Excused(IF seen["request"].job \in Completed THEN {"insisted"} ELSE {})
    /\ GoesTo("request", "rewrites")
    /\ UNCHANGED <<item, services, outside, events>>

(* reset_stage: the job is cancelled; that it has completed is no refusal.      *)
CancelJob ==
    LET k == seen["request"].job IN
    /\ At("request", "cancels")
    /\ \/ /\ jobs' = IF k # 0 /\ JobLive(k)
                     THEN [jobs EXCEPT ![k].status = "cancelled"] ELSE jobs
          /\ Excused(IF k \in Completed THEN {"insisted"} ELSE {})
          /\ GoesTo("request", "rewrites")
          /\ UNCHANGED events
       \/ /\ k # 0 /\ Trouble("request")
          /\ GoesTo("request", "idle")
          /\ UNCHANGED <<jobs, excuses>>
    /\ UNCHANGED <<item, tasks, numbers, outside>>

ResetExtraction ==
    Writes("request", [WithoutPayment(item, "pending") EXCEPT
        !.stage = "eligible", !.extraction = "pending", !.task = 0, !.link = 0])

ResetPayment ==
    LET doc == seen["request"] IN
    IF doc.extraction = "succeeded" /\ doc.link # 0
    THEN IF Fresh(doc)
         THEN Writes("request", [WithoutPayment(item, "pending") EXCEPT
                                   !.stage = "payment_ready"])
         ELSE Expires("request", doc)
    ELSE UNCHANGED item

Reset ==
    /\ At("request", "rewrites")
    /\ \/ ReleaseRefused("request", seen["request"].number) /\ UNCHANGED item
       \/ /\ Releases(seen["request"].number)
          /\ ResetExtraction \/ ResetPayment
    /\ GoesTo("request", "idle")
    /\ UNCHANGED <<tasks, jobs, outside>>

(* What was read decides between archiving and deleting; no job is cancelled.   *)
Delete ==
    LET doc == seen["request"]
        n == IF doc.sms \in {"completed", "code_submitted"} THEN 0 ELSE doc.number
    IN
    /\ At("request", "deletes")
    /\ \/ ReleaseRefused("request", n) /\ UNCHANGED item
       \/ /\ numbers' = Released(n)
          /\ Excused(IF doc.job # 0 /\ (JobLive(doc.job) \/ doc.job \in Completed)
                     THEN {"insisted"} ELSE {})
          /\ IF doc.stage = "paid"
             THEN IF item.stage = "paid"
                  THEN Writes("request", [item EXCEPT !.stage = "archived"])
                  ELSE UNCHANGED item
             ELSE Writes("request", [Blank EXCEPT !.id = item.id])
          /\ UNCHANGED events
    /\ GoesTo("request", "idle")
    /\ UNCHANGED <<tasks, jobs, outside>>

------------------------------------------------------------------------------
(* The database.                                                                *)

(* What is given back before the write of a step.                               *)
Returned(c) ==
    CASE at[c] \in {"posts", "tells"} -> Released(got[c])
      [] at[c] \in {"completed", "failed", "cancelled", "rotates", "entered",
                    "rewrites", "deletes"} -> Released(seen[c].number)
      [] OTHER -> numbers

(* What a service has done without an answer before a failure is written down.  *)
DoneUnanswered(c) ==
    \/ /\ at[c] \in {"buys", "rebuys"} /\ Len(numbers) < MaxNumbers
       /\ numbers' = Append(numbers, "active")
       /\ UNCHANGED jobs
    \/ /\ At(c, "posts") /\ Grants(c) /\ jobs' = Append(jobs, NewJob(c))
       /\ numbers' = Returned(c)
    \/ /\ At(c, "tells") /\ Asks(c) /\ jobs' = Answered(c)
       /\ numbers' = Returned(c)

(* What the record ought to know now, and nobody will tell it again.            *)
Lost(c) ==
    \/ at[c] \in {"notes", "renotes", "posts", "tracks"}
    \/ c = "request" /\ At(c, "told")

(* _guard raises, which none of the handlers of a payment catches: the tick or  *)
(* the request ends, and what it has done since its last write is in no record. *)
(* The note of a number may be there without its answer.                        *)
DatabaseFails(c) ==
    /\ at[c] \notin {"idle", "sms", "enters", "cancels"}
    /\ Trouble(c)
    /\ \/ /\ numbers' \in {numbers, Returned(c)} /\ UNCHANGED jobs
          /\ Excused(IF Lost(c) THEN {"unrecorded"} ELSE {})
       \/ DoneUnanswered(c) /\ Excused({"blind"})
    /\ \/ UNCHANGED item
       \/ At(c, "notes") /\ Writes(c, WithNumber(item, got[c], 1))
    /\ GoesTo(c, "idle")
    /\ UNCHANGED <<tasks, outside>>

------------------------------------------------------------------------------
(* What the services and the time do.                                           *)

coroutines == <<item, at, seen, got>>

TaskEnds(t) ==
    /\ t \in DOMAIN tasks /\ tasks[t] = "running"
    /\ \E s \in {"succeeded", "failed"} : tasks' = [tasks EXCEPT ![t] = s]
    /\ UNCHANGED <<coroutines, jobs, numbers, outside, events, excuses>>

JobPrompts(k) ==
    /\ k \in DOMAIN jobs /\ jobs[k].status = "running"
    /\ jobs' = [jobs EXCEPT ![k].status = "awaiting_otp"]
    /\ UNCHANGED <<coroutines, tasks, numbers, outside, events, excuses>>

JobEnds(k) ==
    /\ k \in DOMAIN jobs /\ JobLive(k)
    /\ \E s \in {"completed", "failed"} :
        /\ s = "completed" => jobs[k].status = "running"
        /\ jobs' = [jobs EXCEPT ![k].status = s]
    /\ UNCHANGED <<coroutines, tasks, numbers, outside, events, excuses>>

NumberLapses ==
    /\ Happens
    /\ \E n \in DOMAIN numbers : InUse(n) /\ numbers' = Released(n)
    /\ UNCHANGED <<coroutines, tasks, jobs, outside, excuses>>

LinkAges(l) ==
    /\ l \in DOMAIN tasks /\ tasks[l] \in {"succeeded", "gone"}
    /\ l \in {item.task, item.link} \ stale
    /\ stale' = stale \cup {l}
    /\ UNCHANGED <<coroutines, services, account, events, excuses>>

(* The trial or the access token ends, or the page deletes the account, which   *)
(* leaves its record here.                                                      *)
AccountLapses ==
    /\ Happens
    /\ account = "eligible" /\ account' \in {"lapsed", "deleted"}
    /\ UNCHANGED <<coroutines, services, stale, excuses>>

(* The application restarts: its tasks and what was in hand are gone.           *)
Restart ==
    /\ Happens
    /\ at' = [c \in Coroutines |-> "idle"]
    /\ seen' = [c \in Coroutines |-> Blank]
    /\ got' = [c \in Coroutines |-> 0]
    /\ tasks' = [t \in DOMAIN tasks |-> "gone"]
    /\ Excused(IF \E c \in Coroutines : Holds(c) THEN {"blind"} ELSE {})
    /\ UNCHANGED <<item, jobs, numbers, outside>>

(* The sidecar restarts: its jobs stop, and it does not know them any more.     *)
SidecarRestarts ==
    /\ Happens /\ jobs # <<>>
    /\ jobs' = [k \in DOMAIN jobs |->
                  [jobs[k] EXCEPT !.known = FALSE,
                     !.status = IF JobLive(k) THEN "cancelled" ELSE @]]
    /\ Excused({"blind"})
    /\ UNCHANGED <<coroutines, tasks, numbers, outside>>

Tick ==
    \/ TickBegins \/ FindExtraction \/ SettleExtraction
    \/ FindPayment \/ GetJob \/ SettleRunning \/ SettleAwaiting
    \/ SettleCompleted \/ SettleFailed \/ Refresh \/ ReadSms \/ Rotate
    \/ NoteCode \/ TellPhone \/ MarkExpired \/ QueueRetries
    \/ FindEligible \/ FindReady

Step(c) ==
    \/ CreateTask(c) \/ BeginExtraction(c) \/ CheckPayment(c) \/ BuyNumber(c)
    \/ NoteNumber(c) \/ PostJob(c) \/ PostJobFails(c) \/ TrackJob(c)
    \/ EnterCode(c) \/ NoteAnswer(c)

Asked == AskExtraction \/ AskPayment \/ AskOtp \/ AskReset \/ AskDelete
Answers == CancelJob \/ Reset \/ Delete

Outside ==
    \/ \E t \in 1..MaxTasks : TaskEnds(t) \/ LinkAges(t)
    \/ \E k \in 1..MaxJobs : JobPrompts(k) \/ JobEnds(k)
    \/ NumberLapses \/ AccountLapses \/ Restart \/ SidecarRestarts

Next ==
    \/ Tick \/ Asked \/ Answers \/ Outside
    \/ \E c \in Coroutines : Step(c) \/ DatabaseFails(c)

(* The loop ticks on, and every call returns; links age, and tasks and jobs end *)
(* by their own timeouts.  Nobody has to ask for anything, or enter a code.     *)
Fairness ==
    /\ WF_vars(Tick \/ Step("tick"))
    /\ WF_vars(Answers \/ Step("request"))
    /\ \A t \in 1..MaxTasks : WF_vars(TaskEnds(t)) /\ WF_vars(LinkAges(t))
    /\ \A k \in 1..MaxJobs : WF_vars(JobEnds(k))

Spec == Init /\ [][Next]_vars
FairSpec == Spec /\ Fairness

------------------------------------------------------------------------------

(* However often it retries and changes numbers, and whichever calls fail, the  *)
(* pipeline does not pay for an account twice, unless                           *)
(*   - the page raced with the tick, or was used on a payment that was made or  *)
(*     under way ("raced", "insisted");                                         *)
(*   - the answer of a service, or the list of jobs of the sidecar, was lost,   *)
(*     or the application stopped in the middle of a step ("blind");            *)
(*   - the database failed at the write that records a job that has been made,  *)
(*     a number that has been bought or a start that has failed ("unrecorded"). *)
PaidOnce ==
    Cardinality(Completed) > 1 =>
        excuses \cap {"raced", "insisted", "blind", "unrecorded"} # {}

(* A number that is paid for is one that the record knows or that is just being *)
(* written there, whichever way a payment ends: unless the page raced with the  *)
(* tick, HeroSMS refused to take a number back, an answer or the sidecar's list *)
(* of jobs was lost (a job it does not know any more fails the payment without  *)
(* giving its number back), or the database failed at the write of the number.  *)
NoNumberForgotten ==
    \/ excuses \cap {"raced", "refused", "blind", "unrecorded"} # {}
    \/ {n \in DOMAIN numbers : numbers[n] = "active"}
         \subseteq {item.number} \cup {got[c] : c \in Coroutines}

(* While nobody asks for anything, no answer is lost, HeroSMS takes its numbers *)
(* back and the database takes the record of each start, the pipeline buys no   *)
(* more numbers than its settings allow, whatever fails besides.                *)
SpendsWithinSettings ==
    excuses = {} =>
        Len(numbers) <= (1 + PaymentRetries) * (1 + NumberChanges)

(* An account does not stay under way for ever: in the end it is paid, removed, *)
(* or has failed for good, unless the page raced with the tick, or the account  *)
(* was deleted while its record waits for extraction: start after start raises, *)
(* and the record stays.                                                        *)
Settled == item.stage \in {"absent", "extraction_failed", "payment_failed",
                           "paid", "archived"}
Stranded == item.stage = "eligible" /\ account = "deleted"
Settles == <>("raced" \in excuses \/ [](Settled \/ Stranded))

==============================================================================
