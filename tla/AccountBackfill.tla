-------------------------- MODULE AccountBackfill --------------------------
(***************************************************************************)
(* PaidAccountMfaBackfill of account_mfa.py on one paid account: it signs  *)
(* in to the site, enables 2FA when no secret is stored, sets a password   *)
(* when none is stored, and stores each as soon as the site has taken it.  *)
(*                                                                         *)
(* The site's secret and password live outside MongoDB: an activation whose *)
(* answer is lost, or a process killed before the store, leaves an account *)
(* with a secret nobody knows.  Secrets and passwords are numbers, in the  *)
(* order they are made; what the site answers is not code of the repository. *)
(***************************************************************************)
EXTENDS Integers

CONSTANTS
  MaxRuns,       \* bound: times the script is started
  MaxTroubles    \* bound: calls that fail or are not answered, and kills

VARIABLES
  at,        \* where the script is
  site,      \* the site's account: secret, password, whether it is deactivated
  page,      \* the page that the window shows
  doc,       \* the account's document: secret, password, securityBackfillStatus, -Error
  snap,      \* the secret and password that candidates() read
  local,     \* _enable_one: secret and password it knows, and what add_password did
  held,      \* the lock, workspace and proxy in MongoDB under a backfill's name
  attempt,   \* of _run_one_with_retries, and the error of this one
  spoiled,   \* not in the code: what trouble may have left wrong
  counts,    \* not in the code: runs so far, secrets and passwords made so far
  troubles   \* not in the code: the troubles so far

vars == <<at, site, page, doc, snap, local, held, attempt, spoiled, counts, troubles>>

None == 0
Foreign == -1   \* made by someone else
Changed == -2   \* the one that was right before someone else changed it
NewLocal(s) == [totp |-> s.totp, password |-> s.password, mine |-> {},
                used |-> {}, submitted |-> FALSE]
NewAttempt(n) == [n |-> n, error |-> "none"]
MaxAttempts == 3
Go(s) == at' = s
Trouble == troubles < MaxTroubles /\ troubles' = troubles + 1
Fails(e) == attempt' = [attempt EXCEPT !.error = e] /\ Go("finally")
(* The error of a call: RETRYABLE_SECURITY_BACKFILL_CODES, or any other. *)
FailsSomehow == \E e \in {"retryable", "fatal"} : Fails(e)
Knows(f) == local[f] # None

(* Paid accounts: what is stored is the site's, or missing, or a password *)
(* changed since.                                                          *)
Paid ==
  {[site |-> s,
    doc |-> [totp |-> IF t THEN s.totp ELSE None, password |-> p,
             status |-> "none", error |-> "none"]] :
     s \in [totp : {None, Foreign}, password : {Foreign}, deactivated : BOOLEAN],
     t \in BOOLEAN, p \in {None, Foreign, Changed}}
  \cup
  {[site |-> [totp |-> None, password |-> None, deactivated |-> d],
    doc |-> [totp |-> None, password |-> None, status |-> "none", error |-> "none"]] :
     d \in BOOLEAN}
Wrong(d, s) == IF d.password \in {None, s.password} THEN {} ELSE {"password"}
Init ==
  /\ at = "idle" /\ page = "blank"
  /\ \E a \in Paid : site = a.site /\ doc = a.doc /\ spoiled = Wrong(a.doc, a.site)
  /\ snap = [totp |-> None, password |-> None] /\ local = NewLocal(snap)
  /\ held = {} /\ attempt = NewAttempt(0)
  /\ counts = [runs |-> 0, made |-> 0] /\ troubles = 0

----------------------------------------------------------------------------
(* The script around an attempt *)

(* run reads the accounts that lack a secret or a password, and tries each  *)
(* with the document it read here.                                         *)
Candidate ==
  (doc.totp = None \/ doc.password = None) /\ doc.error # "account_deactivated"
StartsRun ==
  /\ at = "idle" /\ counts.runs < MaxRuns /\ Candidate
  /\ snap' = [totp |-> doc.totp, password |-> doc.password]
  /\ counts' = [counts EXCEPT !.runs = @ + 1]
  /\ attempt' = NewAttempt(1) /\ Go("mark")
  /\ UNCHANGED <<site, page, doc, local, held, spoiled, troubles>>
Idles == Go("idle") /\ attempt' = NewAttempt(0) /\ local' = NewLocal(snap)
MarksRunning ==
  /\ at = "mark"
  /\ \/ Go("lock") /\ local' = NewLocal(snap) /\ UNCHANGED <<attempt, troubles>>
        /\ doc' = [doc EXCEPT !.status = "running", !.error = "none"]
     \/ Trouble /\ Idles /\ doc' \in {doc, [doc EXCEPT !.status = "running", !.error = "none"]}
  /\ UNCHANGED <<site, page, snap, held, spoiled, counts>>
Retries == attempt.error = "retryable" /\ attempt.n < MaxAttempts
MarksResult ==
  /\ at = "result"
  /\ LET marked == [doc EXCEPT !.status = IF attempt.error = "none" THEN "success" ELSE "failed",
                               !.error = attempt.error] IN
     \/ /\ doc' = marked /\ UNCHANGED troubles
        /\ IF Retries THEN Go("mark") /\ attempt' = NewAttempt(attempt.n + 1) /\ UNCHANGED local
                      ELSE Idles
     \/ Trouble /\ doc' \in {doc, marked} /\ Idles   \* the exception ends run
  /\ page' = "blank" /\ UNCHANGED <<site, snap, held, spoiled, counts>>
Killed ==
  /\ at # "idle" /\ Trouble /\ Idles /\ page' = "blank"
  /\ spoiled' = spoiled \cup (IF held = {} THEN {} ELSE {"leases"})
                        \cup (IF at = "storeTotp" THEN {"totp"} ELSE {})
  /\ UNCHANGED <<site, doc, snap, held, counts>>
LeasesLapse ==
  /\ at \in {"idle", "mark"} /\ held # {} /\ held' = {}
  /\ UNCHANGED <<at, site, page, doc, snap, local, attempt, spoiled, counts, troubles>>

----------------------------------------------------------------------------
(* What an attempt takes, and gives back *)

(* A lease that is not answered may be held with nobody to release it. *)
Leases(where, lease, next) ==
  /\ at = where
  /\ \/ /\ lease \notin held /\ held' = held \cup {lease} /\ Go(next)
        /\ local' = [local EXCEPT !.mine = @ \cup {lease}] /\ UNCHANGED <<attempt, spoiled, troubles>>
     \/ lease \in held /\ Fails("fatal") /\ UNCHANGED <<local, held, spoiled, troubles>>
     \/ /\ Trouble /\ Fails("fatal") /\ held' \in {held, held \cup {lease}} /\ UNCHANGED local
        /\ spoiled' = IF held' = held THEN spoiled ELSE spoiled \cup {"leases"}
  /\ UNCHANGED <<site, page, doc, snap, counts>>
AcquiresLock == Leases("lock", "lock", "roxy")
FindsRoxy ==
  /\ at = "roxy"
  /\ \/ Go("workspace") /\ UNCHANGED <<attempt, troubles>>
     \/ Trouble /\ FailsSomehow
  /\ UNCHANGED <<site, page, doc, snap, local, held, spoiled, counts>>
AcquiresWorkspace == Leases("workspace", "workspace", "proxy")
AcquiresProxy == Leases("proxy", "proxy", "window")
(* create_browser, then _open_browser_with_recovery: connection_info is     *)
(* asked until the window is listed; else the first error is raised.       *)
OpensWindow ==
  /\ at = "window"
  /\ \/ Go("email") /\ UNCHANGED <<attempt, troubles>>
     \/ Trouble /\ FailsSomehow
  /\ UNCHANGED <<site, page, doc, snap, local, held, spoiled, counts>>
(* finally: every release is tried, whatever the ones before it did. *)
Releases ==
  /\ at = "finally" /\ Go("result") /\ page' = "blank"
  /\ \/ held' = held \ local.mine /\ UNCHANGED <<spoiled, troubles>>
     \/ /\ Trouble /\ \E kept \in SUBSET local.mine :
             held' = (held \ local.mine) \cup kept /\ kept # {}
        /\ spoiled' = spoiled \cup {"leases"}
  /\ UNCHANGED <<site, doc, snap, local, attempt, counts>>

----------------------------------------------------------------------------
(* Signing in *)

Shows(p) == page' = p
EntersEmail ==
  /\ at = "email" /\ UNCHANGED <<site, doc, snap, local, held, spoiled, counts>>
  /\ \/ \E p \in {"code"} \cup (IF site.password # None THEN {"password"} ELSE {})
                        \cup (IF site.totp # None THEN {"totp"} ELSE {}) :
             Shows(p) /\ Go("login") /\ UNCHANGED <<attempt, troubles>>
     \/ Trouble /\ FailsSomehow /\ UNCHANGED page
(* After a right answer: home, or the second factor if there is one. *)
SignsIn == Shows("home") \/ (site.totp # None /\ Shows("totp"))
AnswersPassword ==
  /\ at = "login" /\ page = "password" /\ Knows("password")
  /\ \/ local.password = site.password /\ (SignsIn \/ Shows("code")) /\ UNCHANGED <<at, attempt, troubles>>
     \/ local.password # site.password /\ Fails("fatal") /\ UNCHANGED <<page, troubles>>
     \/ Trouble /\ Fails("fatal") /\ UNCHANGED page
  /\ UNCHANGED <<site, doc, snap, local, held, spoiled, counts>>
AsksForCode ==
  /\ at = "login" /\ page = "password" /\ ~Knows("password")
  /\ \/ Shows("code") /\ UNCHANGED <<at, attempt, troubles>>
     \/ Trouble /\ Fails("fatal") /\ UNCHANGED page
  /\ UNCHANGED <<site, doc, snap, local, held, spoiled, counts>>
(* wait_for_new_code's errors are retryable, a rejected code is not; the   *)
(* wait for the next page stops at the notice that the account is gone.    *)
AnswersCode ==
  /\ at = "login" /\ page = "code"
  /\ \/ ~site.deactivated /\ SignsIn /\ UNCHANGED <<at, attempt, troubles>>
     \/ site.deactivated /\ Fails("account_deactivated") /\ UNCHANGED <<page, troubles>>
     \/ Trouble /\ FailsSomehow /\ UNCHANGED page
  /\ UNCHANGED <<site, doc, snap, local, held, spoiled, counts>>
(* existing_totp_secret_unknown, when none was stored as the run began. *)
AnswersTotp ==
  /\ at = "login" /\ page = "totp"
  /\ \/ local.totp = site.totp /\ Shows("home") /\ UNCHANGED <<at, attempt, troubles>>
     \/ local.totp # site.totp /\ Fails("fatal") /\ UNCHANGED <<page, troubles>>
     \/ Trouble /\ Fails("fatal") /\ UNCHANGED page
  /\ UNCHANGED <<site, doc, snap, local, held, spoiled, counts>>
ReachesHome ==
  /\ at = "login" /\ page = "home"
  /\ Go(IF ~Knows("totp") THEN "enroll" ELSE IF ~Knows("password") THEN "reauth" ELSE "finally")
  /\ UNCHANGED <<site, page, doc, snap, local, held, attempt, spoiled, counts, troubles>>

----------------------------------------------------------------------------
(* 2FA *)

Makes(f) ==
  /\ counts' = [counts EXCEPT !.made = @ + 1]
  /\ local' = [local EXCEPT ![f] = counts.made + 1]
(* begin_totp_enrollment: totp_already_enabled, or a mail with a code. *)
BeginsTotp ==
  /\ at = "enroll"
  /\ \/ site.totp = None /\ Go("activate") /\ UNCHANGED <<attempt, troubles>>
     \/ site.totp # None /\ Fails("fatal") /\ UNCHANGED troubles
     \/ Trouble /\ FailsSomehow
  /\ UNCHANGED <<site, page, doc, snap, local, held, spoiled, counts>>
(* The activation may be made and not answered, or the check of the new    *)
(* token after it may fail: the secret is then forgotten.                  *)
ActivatesTotp ==
  /\ at = "activate"
  /\ \/ /\ Makes("totp") /\ site' = [site EXCEPT !.totp = counts.made + 1]
        /\ Go("storeTotp") /\ UNCHANGED <<attempt, spoiled, troubles>>
     \/ Trouble /\ FailsSomehow /\ UNCHANGED <<site, local, spoiled, counts>>
     \/ /\ Trouble /\ Fails("fatal") /\ Makes("totp")
        /\ site' = [site EXCEPT !.totp = counts.made + 1] /\ spoiled' = spoiled \cup {"totp"}
  /\ UNCHANGED <<page, doc, snap, held>>
StoresTotp ==
  /\ at = "storeTotp"
  /\ \/ /\ doc' = [doc EXCEPT !.totp = local.totp] /\ UNCHANGED <<attempt, spoiled, troubles>>
        /\ Go(IF Knows("password") THEN "finally" ELSE "reauth")
     \/ /\ Trouble /\ Fails("fatal") /\ doc' \in {doc, [doc EXCEPT !.totp = local.totp]}
        /\ spoiled' = IF doc' = doc THEN spoiled \cup {"totp"} ELSE spoiled
  /\ UNCHANGED <<site, page, snap, local, held, counts>>

----------------------------------------------------------------------------
(* The password *)

(* add_password_in_settings signs in once more: the site asks for any of   *)
(* the factors, then for the new password.                                 *)
Reauthenticates ==
  /\ at = "reauth"
  /\ \/ \E p \in {"totp", "code", "form"} : Shows(p) /\ Go("password")
        /\ local' = [local EXCEPT !.used = {}] /\ UNCHANGED <<attempt, troubles>>
     \/ Trouble /\ FailsSomehow /\ UNCHANGED <<local, page>>
  /\ UNCHANGED <<site, doc, snap, held, spoiled, counts>>
(* Each factor is answered once, and then waited for. *)
AnswersFactor ==
  /\ at = "password" /\ page \in {"totp", "code"} \ local.used /\ ~local.submitted
  /\ \/ /\ page = "totp" => local.totp = site.totp
        /\ local' = [local EXCEPT !.used = @ \cup {page}]
        /\ \E p \in ({"totp", "code"} \ local'.used) \cup {"form"} : Shows(p)
        /\ UNCHANGED <<at, attempt, troubles>>
     \/ Trouble /\ local' = [local EXCEPT !.used = @ \cup {page}] /\ UNCHANGED <<at, page, attempt>>
     \/ Trouble /\ page = "code" /\ FailsSomehow /\ UNCHANGED <<page, local>>
  /\ UNCHANGED <<site, doc, snap, held, spoiled, counts>>
(* The form is submitted once.  The click may be lost, or the site may take *)
(* the password and keep the form, or refuse it and show another page.     *)
SubmitsPassword ==
  /\ at = "password" /\ page = "form" /\ ~local.submitted
  /\ counts' = [counts EXCEPT !.made = @ + 1]
  /\ local' = [local EXCEPT !.password = counts.made + 1, !.submitted = TRUE]
  /\ \/ site' = [site EXCEPT !.password = counts.made + 1] /\ Shows("done")
        /\ UNCHANGED <<at, attempt, troubles>>
     \/ /\ Trouble /\ page' \in {"form", "other"} /\ UNCHANGED <<at, attempt>>
        /\ site' \in {site, [site EXCEPT !.password = counts.made + 1]}
     \/ Trouble /\ Fails("fatal") /\ UNCHANGED page
        /\ site' \in {site, [site EXCEPT !.password = counts.made + 1]}
  /\ UNCHANGED <<doc, snap, held, spoiled>>
(* A form that is gone for three seconds counts as a success, on whatever  *)
(* page.                                                                   *)
ConfirmsPassword ==
  /\ at = "password" /\ local.submitted /\ page # "form" /\ Go("storePassword")
  /\ spoiled' = spoiled \cup Wrong(local, site)
  /\ UNCHANGED <<site, page, doc, snap, local, held, attempt, counts, troubles>>
(* mutant: the time is over, and the submitted password is taken to be set *)
TimesOutTrusting ==
  /\ at = "password" /\ (local.submitted \/ page \in local.used)
  /\ IF local.submitted THEN Go("storePassword") /\ UNCHANGED attempt ELSE Fails("fatal")
  /\ UNCHANGED <<site, page, doc, snap, local, held, spoiled, counts, troubles>>
PasswordTimesOut ==
  /\ at = "password" /\ (local.submitted \/ page \in local.used) /\ Fails("fatal")
  /\ UNCHANGED <<site, page, doc, snap, local, held, spoiled, counts, troubles>>
StoresPassword ==
  /\ at = "storePassword"
  /\ \/ doc' = [doc EXCEPT !.password = local.password] /\ Go("finally")
        /\ UNCHANGED <<attempt, troubles>>
     \/ Trouble /\ Fails("fatal") /\ doc' \in {doc, [doc EXCEPT !.password = local.password]}
  /\ UNCHANGED <<site, page, snap, local, held, spoiled, counts>>

Steps ==
  \/ StartsRun \/ MarksRunning \/ MarksResult \/ Killed \/ LeasesLapse \/ Releases
  \/ AcquiresLock \/ FindsRoxy \/ AcquiresWorkspace \/ AcquiresProxy \/ OpensWindow
  \/ EntersEmail \/ AnswersPassword \/ AsksForCode \/ AnswersCode \/ AnswersTotp \/ ReachesHome
  \/ BeginsTotp \/ ActivatesTotp \/ StoresTotp
  \/ Reauthenticates \/ AnswersFactor \/ SubmitsPassword \/ ConfirmsPassword
  \/ PasswordTimesOut \/ StoresPassword

----------------------------------------------------------------------------

(* What is stored opens the account: a stored secret is the site's, and so *)
(* is a stored password, unless its form only disappeared; a success means *)
(* that both are stored; and when the script is at rest no secret it made  *)
(* is lost and no lease is left, unless an answer or the process was.      *)
BackfillKept ==
  /\ doc.totp # None => doc.totp = site.totp
  /\ doc.password \in {None, site.password} \/ "password" \in spoiled
  /\ doc.status = "success" => doc.totp # None /\ doc.password # None
  /\ at = "idle" /\ site.totp \notin {doc.totp, Foreign} => "totp" \in spoiled
  /\ at = "idle" /\ held # {} => "leases" \in spoiled
============================================================================
