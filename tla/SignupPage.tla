---------------------------- MODULE SignupPage ----------------------------
(***************************************************************************)
(* The attempts at registering an address: the page that                   *)
(* CdpBrowserAutomation reads and clicks, the mailbox it waits for a code  *)
(* in, and the record that the attempt leaves in MongoDB.                  *)
(*                                                                         *)
(* The page is known only by what a poll sees of it.  A click may reach    *)
(* the site or be lost, and the site shows its answer some time later, so  *)
(* every wait races with the page: it may see it in time, or give up just  *)
(* before.  What the site does (EmailAnswers, PasswordAnswers, CodeAnswers *)
(* and ProfileAnswers) is not code of the repository: the pages are those  *)
(* the code looks for.                                                     *)
(***************************************************************************)
EXTENDS Integers

CONSTANTS
  MaxAttempts,  \* bound: attempts at the address, of one run or of several
  MaxTroubles   \* bound: clicks lost, pages nobody asked for, calls that fail

VARIABLES
  opts,      \* requireRegistrationPassword, and whether the provider dates its mails
  at,        \* where the attempt is, or the class of error it ended with
  page,      \* the page that the window shows
  pend,      \* the page the site is about to show, or "nothing"
  svc,       \* the site's account: how far it is, its password, its 2FA, the codes sent
  box,       \* the mailbox: the codes in it, and the one that arrived last (0: none)
  form,      \* what the attempt remembers
  rec,       \* what is stored of the account, and the errors told of it
  troubles   \* not in the code: the troubles so far

site == <<page, pend, svc>>
vars == <<opts, at, page, pend, svc, box, form, rec, troubles>>

(* The classes of error that BrowserProbeRunner.run tells apart. *)
Ended == {"ok", "proxy", "transient", "fatal"}
Waits == {"clicked", "next", "reconcile", "pwdWait", "codeWait", "profile", "homeWait",
          "profileWait", "totpWait"}
Steps == {"off", "baseline", "exit", "open", "route", "ready", "typed", "pwd", "switch", "mail",
          "codeForm", "reload", "named", "dated", "store", "delete", "token", "plan",
          "checkout", "totp", "session", "enroll", "totpStore"}
Working == (Steps \cup Waits) \ {"off"}
TroublePages == {"challenge", "other", "refused", "retry"}

(* No password, and one that is not of this run: passwords are the numbers *)
(* of the attempts that made them.                                         *)
NoPassword == 0
Foreign == -1

(* Codes are numbered in the order they are sent.  An attempt's memory is  *)
(* its number, the codes sent when it began and when it last asked for one, *)
(* the code its baseline saw (-1: no baseline) and all that were there, the *)
(* candidate and the code it types, its fills and clicks, the retries of a *)
(* wait, whether the route was clicked, and whether 2FA has begun; what only *)
(* one method remembers is forgotten as it returns.                        *)
NewForm(n) == [try |-> n, start |-> 0, asked |-> 0, base |-> 0, seen |-> {}, cand |-> 0,
               code |-> 0, fills |-> 1, clicks |-> 0, again |-> 0, routed |-> FALSE,
               reauth |-> FALSE]
NoRecord == [stored |-> FALSE, deleted |-> FALSE, password |-> NoPassword, token |-> FALSE,
             secret |-> FALSE, tokenError |-> FALSE, totpError |-> FALSE]

Init ==
  /\ opts \in [password : BOOLEAN, dated : BOOLEAN]
  /\ at = "off" /\ page = "blank" /\ pend = "nothing"
  /\ svc \in {[account |-> "none", password |-> NoPassword, totp |-> FALSE, sent |-> 0],
              [account |-> "complete", password |-> Foreign, totp |-> FALSE, sent |-> 0],
              [account |-> "complete", password |-> Foreign, totp |-> TRUE, sent |-> 0]}
  /\ box = [arrived |-> {}, newest |-> 0] /\ form = NewForm(0) /\ rec = NoRecord /\ troubles = 0

----------------------------------------------------------------------------
(* What every step is made of *)

Go(s) == at' = s
(* An error ends the attempt; during the 2FA enrolment it is caught and    *)
(* only told in the result.                                                *)
Raises(error) ==
  /\ at' = IF form.reauth THEN "ok" ELSE error
  /\ rec' = IF form.reauth THEN [rec EXCEPT !.totpError = TRUE] ELSE rec
Trouble == troubles < MaxTroubles /\ troubles' = troubles + 1
Requests(f) == form' = [f EXCEPT !.asked = svc.sent, !.again = 0]
Sent(s) == [s EXCEPT !.sent = @ + 1]

(* A click reaches the site, which will show one of its answers or a page  *)
(* nobody asked for; or it is lost.                                        *)
Clicks(answers) ==
  \/ \E a \in answers : pend' = a[1] /\ svc' = a[2] /\ UNCHANGED <<page, troubles>>
  \/ Trouble /\ pend' \in TroublePages \cup {pend} /\ UNCHANGED <<page, svc>>

(* goto and reload: the page shows p, whatever the last click would show. *)
Shows(p) == page' = p /\ pend' = "nothing"

(* _click_auth_retry_if_available: "Try again", at most twice in a wait. *)
TriesAgain(answers) ==
  /\ page = "retry" /\ form.again < 2
  /\ form' = [form EXCEPT !.again = @ + 1]
  /\ Clicks(answers)
  /\ UNCHANGED <<opts, at, box, rec>>

SiteAnswers ==
  /\ pend # "nothing" /\ Shows(pend)
  /\ UNCHANGED <<opts, at, svc, box, form, rec, troubles>>

(* The site clears a form by itself, or a challenge on the login page goes. *)
LoginResets ==
  /\ at \in {"ready", "typed", "clicked", "next", "reconcile"}
  /\ page = "filled" \/ (page = "challenge" /\ at \in {"ready", "typed"})
  /\ Trouble /\ page' = "login"
  /\ UNCHANGED <<opts, at, pend, svc, box, form, rec>>

(* Only the reads of the mailbox tell when a mail arrived. *)
MailArrives ==
  /\ at \in {"baseline", "mail", "totp"}
  /\ \E i \in 1 .. svc.sent \ box.arrived :
        box' = [arrived |-> box.arrived \cup {i}, newest |-> i]
  /\ UNCHANGED <<opts, at, site, form, rec, troubles>>

EmailAnswers ==
  {<<"code", Sent(svc)>>} \cup
  {<<p, svc>> : p \in {q \in {"create", "password", "totp"} :
                         \/ q = "create" /\ svc.account = "none"
                         \/ q = "password" /\ svc.password # NoPassword
                         \/ q = "totp" /\ svc.totp}}
PasswordAnswers ==
  IF page = "create"
  THEN {<<"code", Sent([svc EXCEPT !.account = "started", !.password = form.try])>>}
  ELSE {<<"refused", svc>>}
CodeAnswers ==
  IF form.code # svc.sent THEN {<<"refused", svc>>}
  ELSE IF svc.account = "complete"
  THEN {<<IF svc.totp THEN "totp" ELSE "home", svc>>}
  ELSE {<<"profile", [svc EXCEPT !.account = "verified"]>>}
ProfileAnswers == {<<"home", [svc EXCEPT !.account = "complete"]>>}

----------------------------------------------------------------------------
(* From the baseline to the email's next step *)

(* A baseline that could not be read for now is taken to be empty: then    *)
(* nothing was seen.                                                       *)
ReadsBaseline ==
  /\ at = "baseline"
  /\ \/ /\ form' = [form EXCEPT !.start = svc.sent, !.base = box.newest, !.seen = box.arrived]
        /\ Go("exit") /\ UNCHANGED troubles
     \/ /\ form' = [form EXCEPT !.start = svc.sent]
        /\ Go("exit") /\ Trouble
     \/ Go("fatal") /\ Trouble /\ UNCHANGED form
  /\ UNCHANGED <<opts, site, box, rec>>

(* The window's only page, or CdpConnectionError. *)
HasNoPage == Trouble /\ Go("fatal")
(* Every failure of the exit IP's page and of the registration page is a   *)
(* ProxyNavigationError.                                                   *)
ChecksExit ==
  /\ at = "exit"
  /\ \/ Go("open") /\ UNCHANGED troubles
     \/ Trouble /\ Go("proxy")
     \/ HasNoPage
  /\ UNCHANGED <<opts, site, box, form, rec>>
(* Asking for a password posts the email from the bootstrap, after the     *)
(* time of its request was taken.                                          *)
OpensRegistration ==
  /\ at = "open"
  /\ \/ Trouble /\ Go("proxy") /\ UNCHANGED <<site, form>>
     \/ /\ ~opts.password /\ Go("ready") /\ Shows("login")
        /\ UNCHANGED <<svc, form, troubles>>
     \/ /\ opts.password /\ Go("route") /\ Requests(form)
        /\ \/ \E a \in EmailAnswers \cup {<<"login", svc>>} :
                Shows(a[1]) /\ svc' = a[2] /\ UNCHANGED troubles
           \/ Trouble /\ \E p \in TroublePages : Shows(p) /\ UNCHANGED svc
  /\ UNCHANGED <<opts, box, rec>>

(* What follows an email's next step, under the policy on passwords. *)
AfterEmail(step) ==
  IF opts.password THEN IF step = "password" THEN "pwd" ELSE "fatal"
  ELSE CASE step = "password" -> "switch"
         [] step = "verification" -> "mail"
         [] OTHER -> "fatal"
NextStep(p) ==
  CASE p \in {"create", "password"} -> "password"
    [] p = "code" -> "verification"
    [] p = "totp" -> "totp"
    [] OTHER -> "none"

RouteDecides ==
  /\ at = "route"
  /\ \/ page = "create" /\ Go(AfterEmail("password"))
     \/ page = "password" /\ Go("fatal")
     \/ page = "code" /\ ~form.routed /\ Go(AfterEmail("verification"))
     \/ page \in {"login", "filled"} /\ Go("ready")
     \/ /\ page \in {"totp"} \cup TroublePages \cup (IF form.routed THEN {"code"} ELSE {})
        /\ Go(IF form.routed THEN "fatal" ELSE "ready")
  /\ UNCHANGED <<opts, site, box, form, rec, troubles>>
RouteClicks ==
  /\ at = "route" /\ page = "code" /\ ~form.routed
  /\ form' = [form EXCEPT !.routed = TRUE]
  /\ Clicks({<<p, svc>> : p \in {IF svc.password = NoPassword THEN "create" ELSE "password"}})
  /\ UNCHANGED <<opts, at, box, rec>>

(* A wait for the email's form sees a next step once something was sent. *)
FormIsGone ==
  /\ at \in {"ready", "typed"} /\ form.clicks > 0
  /\ page \notin {"login", "filled", "challenge"}
  /\ Go(AfterEmail(NextStep(page)))
  /\ UNCHANGED <<opts, site, box, form, rec, troubles>>
FormIsUnstable ==
  /\ at \in {"ready", "typed"}
  /\ \/ page = "challenge" /\ Go("fatal")
     \/ /\ form.clicks = 0 /\ page \notin {"login", "filled", "challenge"}
        /\ Go(IF at = "ready" THEN "transient" ELSE "fatal")
  /\ UNCHANGED <<opts, site, box, form, rec, troubles>>
FillsEmail ==
  /\ at = "ready" /\ page \in {"login", "filled"}
  /\ \/ Go("typed") /\ page' = "filled" /\ UNCHANGED troubles
     \/ Go("fatal") /\ Trouble /\ UNCHANGED page
  /\ UNCHANGED <<opts, pend, svc, box, form, rec>>

(* Both the resets before the click and those after it are tried once more. *)
FillsAgain ==
  IF form.fills = 2 \/ form.clicks >= 2 THEN Go("transient") /\ UNCHANGED form
  ELSE Go("ready") /\ form' = [form EXCEPT !.fills = 2]
EmailIsReset ==
  /\ at = "typed" /\ page = "login" /\ FillsAgain
  /\ UNCHANGED <<opts, site, box, rec, troubles>>

ClicksEmail ==
  /\ at = "typed" /\ page = "filled"
  /\ Requests([form EXCEPT !.clicks = @ + 1]) /\ Go("clicked")
  /\ Clicks(EmailAnswers)
  /\ UNCHANGED <<opts, box, rec>>
(* The click raises, or it does not, whether it reached the site or not. *)
ClickEnds ==
  /\ at = "clicked" /\ NextStep(page) = "none"
  /\ \/ Go("next") /\ UNCHANGED troubles
     \/ Go("reconcile") /\ Trouble
  /\ form' = [form EXCEPT !.again = 0]
  /\ UNCHANGED <<opts, site, box, rec>>
SeesNextStep ==
  /\ at \in {"clicked", "next", "reconcile"} /\ NextStep(page) # "none"
  /\ Go(AfterEmail(NextStep(page)))
  /\ UNCHANGED <<opts, site, box, form, rec, troubles>>
EmailTriesAgain ==
  at \in {"clicked", "next", "reconcile"} /\ TriesAgain(EmailAnswers)
EmailIsRefused ==
  /\ \/ at \in {"clicked", "next", "reconcile"} /\ page = "challenge"
     \/ at \in {"clicked", "next"} /\ page = "refused"
  /\ Go("fatal")
  /\ UNCHANGED <<opts, site, box, form, rec, troubles>>

(* After a click that raised any other page is a reason to fill again. *)
Reconciles ==
  /\ at = "reconcile" /\ NextStep(page) = "none" /\ page # "challenge"
  /\ FillsAgain
  /\ UNCHANGED <<opts, site, box, rec, troubles>>
EmailWaitEnds ==
  /\ at = "next"
  /\ \/ page = "login" /\ FillsAgain /\ UNCHANGED <<site, troubles>>
     \/ /\ page = "filled" /\ form.fills = 1 /\ form.clicks = 1 /\ FillsAgain /\ UNCHANGED svc
        /\ \/ Shows("login") /\ UNCHANGED troubles
           \/ Trouble /\ UNCHANGED <<page, pend>>
     \/ /\ page = "filled" /\ ~(form.fills = 1 /\ form.clicks = 1)
        /\ Go("transient") /\ UNCHANGED <<site, form, troubles>>
     \/ page \in {"other", "retry"} /\ Go("transient") /\ UNCHANGED <<site, form, troubles>>
  /\ UNCHANGED <<opts, box, rec>>

----------------------------------------------------------------------------
(* The password, or the way around it *)

SubmitsPassword ==
  /\ at = "pwd"
  /\ \/ /\ page \in {"create", "password"} /\ Go("pwdWait") /\ Requests(form)
        /\ Clicks(PasswordAnswers) /\ UNCHANGED rec
     \/ /\ Trouble \/ (page \notin {"create", "password"} /\ UNCHANGED troubles)
        /\ Raises("fatal") /\ UNCHANGED <<site, form>>
  /\ UNCHANGED <<opts, box>>
SwitchesToCode ==
  /\ at = "switch"
  /\ \/ /\ page \in {"create", "password"} /\ Go("pwdWait") /\ Requests(form)
        /\ Clicks({<<"code", Sent(svc)>>}) /\ UNCHANGED rec
     \/ /\ Trouble \/ (page \notin {"create", "password"} /\ UNCHANGED troubles)
        /\ Raises("fatal") /\ UNCHANGED <<site, form>>
  /\ UNCHANGED <<opts, box>>
PasswordWaitEnds ==
  /\ at = "pwdWait"
  /\ Go(IF page = "code" THEN "mail" ELSE "fatal")
  /\ UNCHANGED <<opts, site, box, form, rec, troubles>>

----------------------------------------------------------------------------
(* The mailbox *)

(* mutant: a dated code counts when it is not the baseline's *)
IsChangedCode(c) == IF opts.dated THEN c # form.base ELSE c = form.cand
(* A dated code counts from five seconds before the request, in which the  *)
(* code before it may have been sent, by this attempt or an earlier one (a *)
(* poll that finds it too old is no step); an undated one when it is not   *)
(* the baseline's and two polls saw it.                                    *)
IsNewCode(c) ==
  IF opts.dated THEN c >= form.asked
  ELSE form.base # -1 /\ c # form.base /\ c = form.cand
PollsMail ==
  /\ at = "mail" /\ box.newest # 0
  /\ IF IsNewCode(box.newest)
     THEN /\ form' = [form EXCEPT !.code = box.newest, !.cand = 0, !.clicks = 0, !.fills = 1,
                                   !.routed = FALSE]
          /\ Go("codeForm")
     ELSE /\ ~opts.dated
          /\ form' = [form EXCEPT !.cand = IF box.newest = form.base THEN 0 ELSE box.newest]
          /\ form' # form /\ UNCHANGED at
  /\ UNCHANGED <<opts, site, box, rec, troubles>>
GivesUpOnMail ==
  /\ at = "mail" /\ Raises("fatal")
  /\ UNCHANGED <<opts, site, box, form, troubles>>

SubmitsCode ==
  /\ at = "codeForm"
  /\ \/ /\ page = "code" /\ Go("codeWait") /\ Clicks(CodeAnswers) /\ UNCHANGED rec
        /\ form' = [form EXCEPT !.clicks = 1, !.again = 0]
     \/ /\ Trouble \/ (page # "code" /\ UNCHANGED troubles)
        /\ Raises("fatal") /\ UNCHANGED <<site, form>>
  /\ UNCHANGED <<opts, box>>
CodeTriesAgain == at = "codeWait" /\ TriesAgain(CodeAnswers)
(* The page is left for another: an unknown one counts when its URL says so. *)
CodeWaitEnds ==
  /\ at = "codeWait"
  /\ \/ /\ page \in {"totp", "profile", "home", "other"}
        /\ Go(IF form.reauth THEN "session" ELSE "profile")
        /\ form' = [NewForm(form.try) EXCEPT !.start = form.start, !.reauth = form.reauth]
        /\ UNCHANGED rec
     \/ page \in {"challenge", "refused"} /\ Raises("fatal") /\ UNCHANGED form
     \/ page \in {"other", "retry"} /\ Raises("transient") /\ UNCHANGED form
     \/ /\ page = "code" /\ UNCHANGED form
        /\ IF form.clicks = 1 THEN Go("reload") /\ UNCHANGED rec ELSE Raises("transient")
  /\ UNCHANGED <<opts, site, box, troubles>>
(* The same code is typed once more into the page after a reload, which    *)
(* shows where the site has got to.                                        *)
ReloadsCode ==
  /\ at = "reload"
  /\ \/ /\ pend = "nothing" /\ Go("codeWait") /\ Clicks(CodeAnswers)
        /\ form' = [form EXCEPT !.clicks = 2, !.again = 0] /\ UNCHANGED rec
     \/ /\ pend # "nothing" /\ Shows(pend) /\ UNCHANGED <<svc, form, troubles>>
        /\ Raises(IF pend = "challenge" THEN "fatal" ELSE "transient")
     \/ Trouble /\ Raises("fatal") /\ UNCHANGED <<site, form>>
  /\ UNCHANGED <<opts, box>>

----------------------------------------------------------------------------
(* The profile, and the record of the account *)

(* chatgpt.com with the button of the profile menu. *)
Home == page = "home"
(* A visible form with a name, and an age or a birthday. *)
ProfileForm == page = "profile"
(* Each field is read back, and the form is looked for again before the     *)
(* next field and before the click: profile_form_reset.                    *)
FillsName ==
  /\ at = "profile" /\ ProfileForm
  /\ \/ Go("named") /\ UNCHANGED troubles
     \/ Trouble /\ Go("fatal")
  /\ UNCHANGED <<opts, site, box, form, rec>>
FillsAge ==
  /\ at = "named"
  /\ \/ ProfileForm /\ Go("dated") /\ UNCHANGED troubles
     \/ ~ProfileForm /\ Go("fatal") /\ UNCHANGED troubles
     \/ Trouble /\ Go("fatal")
  /\ UNCHANGED <<opts, site, box, form, rec>>
SubmitsProfile ==
  /\ at = "dated"
  /\ \/ ~ProfileForm /\ Go("fatal") /\ UNCHANGED <<site, form, troubles>>
     \/ /\ ProfileForm /\ Clicks(ProfileAnswers) /\ Go("profileWait")
        /\ form' = [form EXCEPT !.clicks = 1, !.again = 0]
     \/ /\ ProfileForm /\ \E a \in ProfileAnswers : pend' = a[1] /\ svc' = a[2]
        /\ Trouble /\ Go("homeWait") /\ UNCHANGED <<page, form>>
     \/ Trouble /\ Go("fatal") /\ UNCHANGED <<site, form>>
  /\ UNCHANGED <<opts, box, rec>>
ProfileTriesAgain ==
  \/ at = "profile" /\ TriesAgain({<<"profile", svc>>})
  \/ at = "profileWait" /\ TriesAgain(ProfileAnswers)
(* While its form stays the profile is sent up to three times. *)
ResubmitsProfile ==
  /\ at = "profileWait" /\ ProfileForm /\ form.clicks < 3
  /\ Clicks(ProfileAnswers)
  /\ form' = [form EXCEPT !.clicks = @ + 1]
  /\ UNCHANGED <<opts, at, box, rec>>
(* mutant: any page but the profile's is taken for home *)
ProfileIsLeft ==
  /\ at \in {"profile", "homeWait", "profileWait"}
  /\ at = "profile" => ~ProfileForm
  /\ Go(IF ~ProfileForm THEN "store" ELSE "fatal")
  /\ form' = [form EXCEPT !.clicks = 0, !.again = 0]
  /\ UNCHANGED <<opts, site, box, rec, troubles>>
ProfileWaitEnds ==
  /\ at \in {"profile", "homeWait", "profileWait"}
  /\ at = "profile" => ~ProfileForm
  /\ Go(IF Home THEN "store" ELSE "fatal")
  /\ form' = [form EXCEPT !.clicks = 0, !.again = 0]
  /\ UNCHANGED <<opts, site, box, rec, troubles>>

(* complete_probe_profile_success: the account, with the password of this  *)
(* attempt, and then the deletion of its address.                          *)
StoresAccount ==
  /\ at = "store"
  /\ \/ /\ rec' = [rec EXCEPT !.stored = TRUE,
                              !.password = IF opts.password THEN form.try ELSE NoPassword]
        /\ Go("delete") /\ UNCHANGED troubles
     \/ Go("fatal") /\ Trouble /\ UNCHANGED rec
  /\ UNCHANGED <<opts, site, box, form>>
DeletesEmail ==
  /\ at = "delete"
  /\ \/ rec' = [rec EXCEPT !.deleted = TRUE] /\ Go("token") /\ UNCHANGED troubles
     \/ Go("fatal") /\ Trouble /\ UNCHANGED rec
  /\ UNCHANGED <<opts, site, box, form>>

RestoresHome == \E p \in {"home", "other"} : Shows(p)
(* mutant: the error of the token is raised *)
RaisesForToken ==
  /\ at = "token" /\ UNCHANGED svc
  /\ \/ Home /\ rec' = [rec EXCEPT !.token = TRUE] /\ Go("plan")
        /\ Shows("home") /\ UNCHANGED troubles
     \/ Trouble /\ Go("transient") /\ UNCHANGED <<page, pend, rec>>
  /\ UNCHANGED <<opts, box, form>>
(* extract_chatgpt_access_token ends on the home page when it restored it. *)
ExtractsToken ==
  /\ at = "token" /\ UNCHANGED svc
  /\ \/ /\ Home /\ rec' = [rec EXCEPT !.token = TRUE] /\ Go("plan")
        /\ Shows("home") /\ UNCHANGED troubles
     \/ /\ Trouble \/ (~Home /\ UNCHANGED troubles)
        /\ \E t \in BOOLEAN : rec' = [rec EXCEPT !.token = t, !.tokenError = TRUE]
        /\ Go("ok") /\ RestoresHome
  /\ UNCHANGED <<opts, box, form>>
(* Whether 2FA is wanted (enableRegistrationTotp). *)
Continues ==
  \E wanted \in BOOLEAN :
    Go(IF wanted THEN "totp" ELSE "ok") /\ form' = [form EXCEPT !.reauth = wanted]
(* The plan is read from a page of its own, and home is restored; then the *)
(* checkout type is asked for from there.  No failure of the two counts.   *)
ReadsPlan ==
  /\ at = "plan"
  /\ \/ Home /\ Go("checkout") /\ Shows("home") /\ UNCHANGED <<svc, form, troubles>>
     \/ Trouble /\ Continues /\ RestoresHome /\ UNCHANGED svc
  /\ UNCHANGED <<opts, box, rec>>
ReadsCheckoutType ==
  /\ at = "checkout" /\ Continues
  /\ UNCHANGED <<opts, site, box, rec, troubles>>

----------------------------------------------------------------------------
(* Two-factor authentication *)

BeginsTotp ==
  /\ at = "totp"
  /\ \/ /\ Requests([form EXCEPT !.base = box.newest, !.seen = box.arrived, !.code = 0])
        /\ Go("totpWait") /\ Clicks({<<IF svc.totp THEN "totp" ELSE "code", Sent(svc)>>})
        /\ UNCHANGED rec
     \/ /\ Requests([form EXCEPT !.base = -1, !.seen = box.arrived, !.code = 0])
        /\ Trouble /\ Go("totpWait") /\ pend' = "code" /\ svc' = Sent(svc)
        /\ UNCHANGED <<page, rec>>
     \/ Trouble /\ Raises("fatal") /\ UNCHANGED <<site, form>>
  /\ UNCHANGED <<opts, box>>
TotpWaitEnds ==
  /\ at = "totpWait"
  /\ IF page = "code" THEN Go("mail") /\ UNCHANGED rec ELSE Raises("fatal")
  /\ UNCHANGED <<opts, site, box, form, troubles>>
RefreshesToken ==
  /\ at = "session"
  /\ \/ Home /\ Go("enroll") /\ UNCHANGED <<rec, troubles>>
     \/ ~Home /\ Raises("fatal") /\ UNCHANGED troubles
     \/ Trouble /\ Raises("fatal")
  /\ UNCHANGED <<opts, site, box, form>>
(* The activation may be made and its answer, or the check after it, fail. *)
EnrollsTotp ==
  /\ at = "enroll"
  /\ \/ svc' = [svc EXCEPT !.totp = TRUE] /\ Go("totpStore") /\ UNCHANGED <<rec, troubles>>
     \/ /\ Trouble /\ Raises("fatal")
        /\ \E on \in BOOLEAN : svc' = [svc EXCEPT !.totp = @ \/ on]
  /\ UNCHANGED <<opts, page, pend, box, form>>
(* mutant: the failure to store the secret is not told *)
StoresTotpQuietly ==
  /\ at = "totpStore" /\ Go("ok")
  /\ \/ rec' = [rec EXCEPT !.secret = TRUE] /\ UNCHANGED troubles
     \/ Trouble /\ UNCHANGED rec
  /\ UNCHANGED <<opts, site, box, form>>
StoresTotp ==
  /\ at = "totpStore"
  /\ \/ rec' = [rec EXCEPT !.secret = TRUE] /\ Go("ok") /\ UNCHANGED troubles
     \/ Trouble /\ Raises("fatal")
  /\ UNCHANGED <<opts, site, box, form>>

----------------------------------------------------------------------------
(* BrowserProbeRunner.run tries again after some errors, and a later run    *)
(* may take the address when it was put back; not one that is registered.  *)
StartsAttempt ==
  /\ at \in {"off", "proxy", "transient", "fatal"} /\ ~rec.stored /\ form.try < MaxAttempts
  /\ Go("baseline") /\ Shows("blank") /\ form' = NewForm(form.try + 1)
  /\ UNCHANGED <<opts, svc, box, rec, troubles>>
(* task.cancel of _run_worker strikes at an await, or Chrome is gone. *)
BreaksOff ==
  /\ at \in Working /\ Trouble /\ Go("fatal")
  /\ UNCHANGED <<opts, site, box, form, rec>>

EmailSteps ==
  \/ ReadsBaseline \/ ChecksExit \/ OpensRegistration \/ RouteDecides \/ RouteClicks \/ FormIsGone
  \/ FormIsUnstable \/ FillsEmail \/ EmailIsReset \/ ClicksEmail \/ ClickEnds
  \/ SeesNextStep \/ EmailTriesAgain \/ EmailIsRefused \/ Reconciles \/ EmailWaitEnds
CodeSteps ==
  \/ SubmitsPassword \/ SwitchesToCode \/ PasswordWaitEnds \/ PollsMail \/ GivesUpOnMail
  \/ SubmitsCode \/ CodeTriesAgain \/ CodeWaitEnds \/ ReloadsCode
AccountSteps ==
  \/ FillsName \/ FillsAge \/ SubmitsProfile \/ ProfileTriesAgain \/ ResubmitsProfile
  \/ ProfileWaitEnds
  \/ StoresAccount \/ DeletesEmail \/ ExtractsToken \/ ReadsPlan \/ ReadsCheckoutType
  \/ BeginsTotp \/ TotpWaitEnds \/ RefreshesToken \/ EnrollsTotp \/ StoresTotp
Done == (at = "ok" \/ form.try = MaxAttempts \/ rec.stored) /\ at \in Ended /\ UNCHANGED vars
Next ==
  \/ StartsAttempt \/ BreaksOff \/ EmailSteps \/ CodeSteps \/ AccountSteps
  \/ SiteAnswers \/ LoginResets \/ MailArrives \/ Done
Spec == Init /\ [][Next]_vars

----------------------------------------------------------------------------

(* Mails of earlier attempts are in the mailbox and may arrive at any time. *)
(* A dated code that is typed was sent since the attempt began, or was the  *)
(* last one sent before its request, which the five seconds of tolerance    *)
(* let pass.  An undated one was not in the mailbox when the baseline was   *)
(* read; one of an earlier attempt that arrives later is typed, for nothing *)
(* tells it apart.                                                          *)
FreshCode ==
  form.code # 0 =>
    IF opts.dated THEN form.code > form.start \/ form.code = form.asked
    ELSE form.code \notin form.seen

(* A stored account is one the site has completed, and the password stored *)
(* with it is the one the site has.                                        *)
StoredAccountExists ==
  rec.stored => svc.account = "complete" /\ rec.password \in {NoPassword, svc.password}

(* An attempt that ends well without telling of an error has not turned on *)
(* a second factor that nobody has the secret of, and its token is stored. *)
FullSuccessIsUsable ==
  at = "ok" /\ ~rec.totpError /\ ~rec.tokenError =>
    rec.stored /\ rec.token /\ (form.reauth => rec.secret /\ svc.totp)

(* What BrowserProbeRunner.run relies on of its attempts. *)
Contract == INSTANCE AttemptContract
  WITH phase <- IF at \in Working THEN "working" ELSE at,
       account <- rec.stored, deleted <- rec.deleted
KeepsContract == Contract!Spec
============================================================================
