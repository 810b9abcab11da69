--------------------------- MODULE SignupPageProofs ---------------------------
(***************************************************************************)
(* Proofs about SignupPage, for any number of attempts and troubles: the   *)
(* code that is typed is as new as its date or the baseline can tell, a    *)
(* stored account exists with the stored password, a success without       *)
(* errors is usable, and attempts keep the contract that the worker        *)
(* relies on.                                                              *)
(***************************************************************************)
EXTENDS SignupPage, TLAPS

Sites == [account : {"none", "started", "verified", "complete"}, password : Int,
          totp : BOOLEAN, sent : Nat]
Boxes == [arrived : SUBSET Nat, newest : Nat]
Forms == [try : Nat, start : Nat, asked : Nat, base : Int, seen : SUBSET Nat, cand : Nat,
          code : Nat, fills : Nat, clicks : Nat, again : Nat, routed : BOOLEAN,
          reauth : BOOLEAN]
Records == [stored : BOOLEAN, deleted : BOOLEAN, password : Int, token : BOOLEAN,
            secret : BOOLEAN, tokenError : BOOLEAN, totpError : BOOLEAN]

Typed ==
  /\ opts \in [password : BOOLEAN, dated : BOOLEAN]
  /\ at \in Steps \cup Waits \cup Ended
  /\ svc \in Sites /\ box \in Boxes /\ form \in Forms /\ rec \in Records

----------------------------------------------------------------------------
(* Which codes an attempt takes                                            *)

(* The places after a request for a code, of the email or of the second    *)
(* factor.                                                                 *)
AskedAt == {"route", "clicked", "next", "reconcile", "pwd", "switch", "pwdWait", "mail", "totpWait"}
(* Up to the mail there is no code to type, and no request once there is.   *)
Uncoded == AskedAt \cup {"baseline", "exit", "open", "ready", "typed"}
Codes ==
  /\ form.start <= svc.sent
  /\ at \in AskedAt \/ (at \in {"ready", "typed"} /\ form.clicks > 0) =>
       form.start <= form.asked
  /\ at \in Uncoded => form.code = 0
  /\ at \in {"baseline", "exit", "open"} => form.clicks = 0
  /\ form.seen \subseteq box.arrived
  /\ form.base # -1 => box.newest = form.base \/ box.newest \notin form.seen
  /\ FreshCode

----------------------------------------------------------------------------
(* Where the account is stored                                             *)

Entry == {"off", "baseline", "exit", "open", "route", "ready", "typed", "clicked", "next",
          "reconcile", "pwd", "switch"}
Mailing == {"mail", "codeForm", "codeWait", "reload"}
Profiling == {"profile", "named", "dated", "homeWait", "profileWait", "store"}
Reauth == {"totp", "totpWait", "session", "enroll", "totpStore"}

Placed ==
  /\ at \in Entry \cup {"pwdWait"} \cup Profiling => ~rec.stored /\ ~form.reauth
  /\ at \in Mailing /\ ~form.reauth => ~rec.stored
  /\ at \in {"delete", "token", "plan", "checkout"} => rec.stored /\ ~form.reauth
  /\ at \in {"token", "plan", "checkout"} => rec.deleted
  /\ at \in {"plan", "checkout"} => rec.token
  /\ at \in Reauth => form.reauth
  /\ form.reauth => rec.stored /\ rec.deleted /\ rec.token
  /\ at = "totpStore" => svc.totp
  /\ at = "ok" => rec.stored /\ rec.deleted
  /\ FullSuccessIsUsable

----------------------------------------------------------------------------
(* What the site has                                                       *)

HomeIsComplete == page = "home" \/ pend = "home" => svc.account = "complete"

(* The page that asks for a password is the answer to the last click.      *)
Answering ==
  /\ at \in Entry /\ page \in {"create", "password"} => pend = "nothing"
  /\ at \in {"pwd", "switch"} => page \in {"create", "password"}
  /\ at = "switch" => ~opts.password

(* Nobody gets past the password page without having set the password.     *)
PasswordIsSet ==
  opts.password /\ ~rec.stored =>
    /\ at \in Mailing \cup Profiling => svc.password = form.try
    /\ at = "pwdWait" /\ (page = "code" \/ pend = "code") => svc.password = form.try

Accounts ==
  /\ HomeIsComplete /\ Answering /\ PasswordIsSet
  /\ at = "store" => svc.account = "complete"
  /\ StoredAccountExists

IInv == Typed /\ Codes /\ Placed /\ Accounts

----------------------------------------------------------------------------
(* What the documents say that a step writes                               *)

FormSays(g, try, start, asked, base, seen, code, clicks, reauth) ==
  /\ g \in Forms
  /\ g.try = try /\ g.start = start /\ g.asked = asked /\ g.base = base /\ g.seen = seen
  /\ g.code = code /\ g.clicks = clicks /\ g.reauth = reauth

LEMMA BaselineSays ==
  ASSUME NEW f \in Forms, NEW n \in Nat, NEW b \in Nat, NEW s \in SUBSET Nat
  PROVE  FormSays([f EXCEPT !.start = n, !.base = b, !.seen = s],
                  f.try, n, f.asked, b, s, f.code, f.clicks, f.reauth)
<1>1. b \in Int OBVIOUS
<1>2. [f EXCEPT !.start = n, !.base = b, !.seen = s] \in Forms BY <1>1, Zenon DEF Forms
<1> QED BY <1>2 DEF FormSays, Forms

LEMMA StartSays ==
  ASSUME NEW f \in Forms, NEW n \in Nat
  PROVE  FormSays([f EXCEPT !.start = n],
                  f.try, n, f.asked, f.base, f.seen, f.code, f.clicks, f.reauth)
  BY DEF FormSays, Forms

LEMMA RequestSays ==
  ASSUME NEW f \in Forms, NEW n \in Nat
  PROVE  FormSays([f EXCEPT !.asked = n, !.again = 0],
                  f.try, f.start, n, f.base, f.seen, f.code, f.clicks, f.reauth)
  BY DEF FormSays, Forms

LEMMA ClicksSays ==
  ASSUME NEW f \in Forms, NEW n \in Nat
  PROVE  FormSays([f EXCEPT !.clicks = n],
                  f.try, f.start, f.asked, f.base, f.seen, f.code, n, f.reauth)
  BY DEF FormSays, Forms

LEMMA ClicksAgainSays ==
  ASSUME NEW f \in Forms, NEW n \in Nat
  PROVE  FormSays([f EXCEPT !.clicks = n, !.again = 0],
                  f.try, f.start, f.asked, f.base, f.seen, f.code, n, f.reauth)
  BY DEF FormSays, Forms

LEMMA AgainSays ==
  ASSUME NEW f \in Forms, NEW n \in Nat
  PROVE  FormSays([f EXCEPT !.again = n],
                  f.try, f.start, f.asked, f.base, f.seen, f.code, f.clicks, f.reauth)
  BY DEF FormSays, Forms

LEMMA RoutedSays ==
  ASSUME NEW f \in Forms
  PROVE  FormSays([f EXCEPT !.routed = TRUE],
                  f.try, f.start, f.asked, f.base, f.seen, f.code, f.clicks, f.reauth)
  BY DEF FormSays, Forms

LEMMA FillsSays ==
  ASSUME NEW f \in Forms
  PROVE  FormSays([f EXCEPT !.fills = 2],
                  f.try, f.start, f.asked, f.base, f.seen, f.code, f.clicks, f.reauth)
  BY DEF FormSays, Forms

LEMMA CodeSays ==
  ASSUME NEW f \in Forms, NEW n \in Nat
  PROVE  FormSays([f EXCEPT !.code = n, !.cand = 0, !.clicks = 0, !.fills = 1, !.routed = FALSE],
                  f.try, f.start, f.asked, f.base, f.seen, n, 0, f.reauth)
  BY DEF FormSays, Forms

LEMMA CandidateSays ==
  ASSUME NEW f \in Forms, NEW n \in Nat
  PROVE  FormSays([f EXCEPT !.cand = n],
                  f.try, f.start, f.asked, f.base, f.seen, f.code, f.clicks, f.reauth)
  BY DEF FormSays, Forms

LEMMA ReauthSays ==
  ASSUME NEW f \in Forms, NEW wanted \in BOOLEAN
  PROVE  FormSays([f EXCEPT !.reauth = wanted],
                  f.try, f.start, f.asked, f.base, f.seen, f.code, f.clicks, wanted)
  BY DEF FormSays, Forms

LEMMA TotpSays ==
  ASSUME NEW f \in Forms, NEW b \in Int, NEW s \in SUBSET Nat
  PROVE  FormSays([f EXCEPT !.base = b, !.seen = s, !.code = 0],
                  f.try, f.start, f.asked, b, s, 0, f.clicks, f.reauth)
  BY DEF FormSays, Forms

LEMMA NewFormSays ==
  ASSUME NEW n \in Nat
  PROVE  FormSays(NewForm(n), n, 0, 0, 0, {}, 0, 0, FALSE)
  BY DEF FormSays, Forms, NewForm

LEMMA ForgettingSays ==
  ASSUME NEW n \in Nat, NEW s \in Nat, NEW wanted \in BOOLEAN
  PROVE  FormSays([NewForm(n) EXCEPT !.start = s, !.reauth = wanted],
                  n, s, 0, 0, {}, 0, 0, wanted)
<1>1. ASSUME NEW f \in Forms
      PROVE  FormSays([f EXCEPT !.start = s, !.reauth = wanted],
                      f.try, s, f.asked, f.base, f.seen, f.code, f.clicks, wanted)
  BY DEF FormSays, Forms
<1>2. FormSays(NewForm(n), n, 0, 0, 0, {}, 0, 0, FALSE) BY NewFormSays
<1>3. NewForm(n) \in Forms BY <1>2 DEF FormSays
<1> QED BY <1>1, <1>2, <1>3 DEF FormSays

LEMMA TypedParts ==
  ASSUME Typed
  PROVE  /\ svc \in Sites /\ svc.sent \in Nat /\ box.newest \in Nat /\ box.arrived \in SUBSET Nat
         /\ form \in Forms /\ form.try \in Nat /\ form.start \in Nat /\ form.again \in Nat
         /\ form.clicks \in Nat /\ form.reauth \in BOOLEAN /\ rec \in Records
         /\ opts.password \in BOOLEAN /\ opts.dated \in BOOLEAN
  BY DEF Typed, Sites, Boxes, Forms

----------------------------------------------------------------------------
(* What the steps remember                                                 *)

(* The attempt and its codes are the same; a code may have been asked for. *)
FormGoes(asked, clicks) ==
  FormSays(form', form.try, form.start, asked, form.base, form.seen, form.code, clicks,
           form.reauth)
FormKept == FormGoes(form.asked, form.clicks)
FormClicks == \E n \in Nat : FormGoes(form.asked, n)
FormAsks == \E n \in Nat : FormGoes(svc.sent, n)

LEMMA FormUnchanged == ASSUME Typed, form' = form PROVE FormKept
  BY TypedParts DEF FormKept, FormGoes, FormSays

LEMMA TriesAgainForm ==
  ASSUME Typed, NEW answers, TriesAgain(answers)
  PROVE  FormKept
<1>1. form' = [form EXCEPT !.again = form.again + 1] BY DEF TriesAgain
<1> QED BY <1>1, TypedParts, AgainSays DEF FormKept, FormGoes

LEMMA FillsAgainForm ==
  ASSUME Typed, FillsAgain
  PROVE  FormKept /\ at' \in {"transient", "ready"}
<1>1. form' = form \/ form' = [form EXCEPT !.fills = 2] BY DEF FillsAgain
<1>2. FormKept BY <1>1, TypedParts, FormUnchanged, FillsSays DEF FormKept, FormGoes
<1> QED BY <1>2 DEF FillsAgain, Go

LEMMA RequestsForm ==
  ASSUME Typed, NEW f \in Forms, Requests(f)
  PROVE  FormSays(form', f.try, f.start, svc.sent, f.base, f.seen, f.code, f.clicks, f.reauth)
  BY TypedParts, RequestSays DEF Requests

LEMMA EntryForms ==
  ASSUME Typed
  PROVE  /\ RouteClicks \/ EmailTriesAgain \/ ClickEnds => FormKept
         /\ EmailIsReset \/ Reconciles \/ EmailWaitEnds =>
              FormKept /\ at' \in {"transient", "ready"}
<1>1. ASSUME RouteClicks PROVE FormKept
  BY <1>1, TypedParts, RoutedSays DEF RouteClicks, FormKept, FormGoes
<1>2. ASSUME ClickEnds PROVE FormKept
  <2>1. form' = [form EXCEPT !.again = 0] BY <1>2 DEF ClickEnds
  <2> QED BY <2>1, TypedParts, AgainSays DEF FormKept, FormGoes
<1>3. ASSUME EmailTriesAgain PROVE FormKept
  BY <1>3, TriesAgainForm DEF EmailTriesAgain
<1>4. ASSUME EmailIsReset \/ Reconciles PROVE FormKept /\ at' \in {"transient", "ready"}
  BY <1>4, FillsAgainForm DEF EmailIsReset, Reconciles
<1>5. ASSUME EmailWaitEnds PROVE FormKept /\ at' \in {"transient", "ready"}
  BY <1>5, FillsAgainForm, FormUnchanged DEF EmailWaitEnds, Go
<1> QED BY <1>1, <1>2, <1>3, <1>4, <1>5

LEMMA RequestForm ==
  ASSUME Typed, Requests(form)
  PROVE  FormAsks
<1>1. FormGoes(svc.sent, form.clicks) /\ form.clicks \in Nat
  BY TypedParts, RequestsForm DEF FormGoes
<1> QED BY <1>1 DEF FormAsks

LEMMA OpensRegistrationForm ==
  ASSUME Typed, OpensRegistration
  PROVE  \/ FormKept /\ at' \in {"proxy", "ready"}
         \/ FormAsks /\ at' = "route"
<1>1. \/ form' = form /\ at' \in {"proxy", "ready"}
      \/ Requests(form) /\ at' = "route"
  BY DEF OpensRegistration, Go
<1> QED BY <1>1, RequestForm, FormUnchanged

LEMMA ClicksEmailForm ==
  ASSUME Typed, ClicksEmail
  PROVE  FormAsks /\ at' = "clicked"
<1> DEFINE f == [form EXCEPT !.clicks = form.clicks + 1]
<1>1. FormSays(f, form.try, form.start, form.asked, form.base, form.seen, form.code,
               form.clicks + 1, form.reauth)
  BY TypedParts, ClicksSays
<1>2. Requests(f) /\ form.clicks + 1 \in Nat /\ at' = "clicked"
  BY TypedParts DEF ClicksEmail, Go
<1>3. FormSays(form', f.try, f.start, svc.sent, f.base, f.seen, f.code, f.clicks, f.reauth)
  BY <1>1, <1>2, RequestsForm DEF FormSays
<1>4. FormGoes(svc.sent, form.clicks + 1)
  BY <1>1, <1>3 DEF FormSays, FormGoes
<1> QED BY <1>2, <1>4 DEF FormAsks

LEMMA PasswordForm ==
  ASSUME Typed, SubmitsPassword \/ SwitchesToCode
  PROVE  \/ FormAsks /\ at' = "pwdWait" /\ rec' = rec
         \/ FormKept /\ Raises("fatal") /\ UNCHANGED site
<1>1. \/ Requests(form) /\ at' = "pwdWait" /\ rec' = rec
      \/ form' = form /\ Raises("fatal") /\ UNCHANGED site
  BY DEF SubmitsPassword, SwitchesToCode, Go, site
<1> QED BY <1>1, RequestForm, FormUnchanged

LEMMA ClicksForm ==
  ASSUME Typed, NEW n \in Nat,
         \/ form' = [form EXCEPT !.clicks = n, !.again = 0]
         \/ form' = [form EXCEPT !.clicks = n]
         \/ form' = form
  PROVE  FormClicks
<1>1. CASE form' = form
  BY <1>1, TypedParts, FormUnchanged DEF FormClicks, FormKept
<1>2. CASE form' # form
  <2>1. FormGoes(form.asked, n)
    BY <1>2, TypedParts, ClicksAgainSays, ClicksSays DEF FormGoes
  <2> QED BY <2>1 DEF FormClicks
<1> QED BY <1>1, <1>2

LEMMA ClickingForms ==
  ASSUME Typed, SubmitsCode \/ ReloadsCode \/ SubmitsProfile \/ ResubmitsProfile \/ ProfileWaitEnds
  PROVE  FormClicks
<1>1. PICK n \in Nat : \/ form' = [form EXCEPT !.clicks = n, !.again = 0]
                       \/ form' = [form EXCEPT !.clicks = n]
                       \/ form' = form
  <2>1. CASE SubmitsCode BY <2>1 DEF SubmitsCode
  <2>2. CASE ReloadsCode BY <2>2 DEF ReloadsCode
  <2>3. CASE SubmitsProfile BY <2>3 DEF SubmitsProfile
  <2>4. CASE ResubmitsProfile
    <3>1. form.clicks + 1 \in Nat /\ form' = [form EXCEPT !.clicks = form.clicks + 1]
      BY <2>4, TypedParts DEF ResubmitsProfile
    <3> QED BY <3>1
  <2>5. CASE ProfileWaitEnds BY <2>5 DEF ProfileWaitEnds
  <2> QED BY <2>1, <2>2, <2>3, <2>4, <2>5
<1> QED BY <1>1, ClicksForm

LEMMA TriesAgainForms ==
  ASSUME Typed, CodeTriesAgain \/ ProfileTriesAgain
  PROVE  FormKept
  BY TriesAgainForm DEF CodeTriesAgain, ProfileTriesAgain

LEMMA PollsMailForm ==
  ASSUME Typed, PollsMail
  PROVE  \/ /\ at' = "codeForm" /\ IsNewCode(box.newest)
            /\ FormSays(form', form.try, form.start, form.asked, form.base, form.seen,
                        box.newest, 0, form.reauth)
         \/ FormKept /\ at' = at
<1>1. CASE IsNewCode(box.newest)
  <2>1. /\ form' = [form EXCEPT !.code = box.newest, !.cand = 0, !.clicks = 0, !.fills = 1,
                                !.routed = FALSE]
        /\ at' = "codeForm"
    BY <1>1 DEF PollsMail, Go
  <2> QED BY <1>1, <2>1, TypedParts, CodeSays
<1>2. CASE ~IsNewCode(box.newest)
  <2>1. PICK n \in Nat : form' = [form EXCEPT !.cand = n]
    BY <1>2, TypedParts DEF PollsMail
  <2>2. FormKept BY <2>1, TypedParts, CandidateSays DEF FormKept, FormGoes
  <2> QED BY <1>2, <2>2 DEF PollsMail
<1> QED BY <1>1, <1>2

LEMMA CodeWaitEndsForm ==
  ASSUME Typed, CodeWaitEnds
  PROVE  \/ /\ at' = IF form.reauth THEN "session" ELSE "profile"
            /\ rec' = rec
            /\ FormSays(form', form.try, form.start, 0, 0, {}, 0, 0, form.reauth)
         \/ FormKept /\ Raises("fatal")
         \/ FormKept /\ Raises("transient")
         \/ FormKept /\ at' = "reload" /\ rec' = rec
<1>1. \/ /\ at' = IF form.reauth THEN "session" ELSE "profile"
         /\ rec' = rec
         /\ form' = [NewForm(form.try) EXCEPT !.start = form.start, !.reauth = form.reauth]
      \/ form' = form /\ Raises("fatal")
      \/ form' = form /\ Raises("transient")
      \/ form' = form /\ at' = "reload" /\ rec' = rec
  BY DEF CodeWaitEnds, Go
<1>2. form.try \in Nat /\ form.start \in Nat /\ form.reauth \in BOOLEAN BY TypedParts
<1> QED BY <1>1, <1>2, ForgettingSays, FormUnchanged

Wanted(wanted) ==
  /\ at' = IF wanted THEN "totp" ELSE "ok"
  /\ FormSays(form', form.try, form.start, form.asked, form.base, form.seen, form.code,
              form.clicks, wanted)

LEMMA PlanForm ==
  ASSUME Typed, ReadsPlan \/ ReadsCheckoutType
  PROVE  \/ FormKept /\ at' = "checkout"
         \/ Wanted(TRUE) \/ Wanted(FALSE)
<1>1. \/ form' = form /\ at' = "checkout"
      \/ \E wanted \in BOOLEAN :
           at' = (IF wanted THEN "totp" ELSE "ok") /\ form' = [form EXCEPT !.reauth = wanted]
  BY DEF ReadsPlan, ReadsCheckoutType, Continues, Go
<1>2. ASSUME NEW wanted \in BOOLEAN, at' = (IF wanted THEN "totp" ELSE "ok"),
             form' = [form EXCEPT !.reauth = wanted]
      PROVE  Wanted(wanted)
  BY <1>2, TypedParts, ReauthSays DEF Wanted
<1> QED BY <1>1, <1>2, FormUnchanged

TotpAsked(b) ==
  FormSays(form', form.try, form.start, svc.sent, b, box.arrived, 0, form.clicks, form.reauth)

LEMMA BeginsTotpForm ==
  ASSUME Typed, BeginsTotp
  PROVE  \/ at' = "totpWait" /\ rec' = rec /\ (TotpAsked(-1) \/ TotpAsked(box.newest))
         \/ FormKept /\ Raises("fatal")
<1>1. ASSUME NEW b \in Int,
             Requests([form EXCEPT !.base = b, !.seen = box.arrived, !.code = 0])
      PROVE  TotpAsked(b)
  <2> DEFINE f == [form EXCEPT !.base = b, !.seen = box.arrived, !.code = 0]
  <2>1. FormSays(f, form.try, form.start, form.asked, b, box.arrived, 0, form.clicks, form.reauth)
    BY TypedParts, TotpSays
  <2>2. FormSays(form', f.try, f.start, svc.sent, f.base, f.seen, f.code, f.clicks, f.reauth)
    BY <1>1, <2>1, RequestsForm DEF FormSays
  <2> QED BY <2>1, <2>2 DEF FormSays, TotpAsked
<1>2. \/ /\ at' = "totpWait" /\ rec' = rec
         /\ \/ Requests([form EXCEPT !.base = -1, !.seen = box.arrived, !.code = 0])
            \/ Requests([form EXCEPT !.base = box.newest, !.seen = box.arrived, !.code = 0])
      \/ form' = form /\ Raises("fatal")
  BY DEF BeginsTotp, Go
<1>3. box.newest \in Int /\ -1 \in Int BY TypedParts
<1> QED BY <1>1, <1>2, <1>3, FormUnchanged

LEMMA AttemptForm ==
  ASSUME Typed, StartsAttempt
  PROVE  /\ FormSays(form', form.try + 1, 0, 0, 0, {}, 0, 0, FALSE)
         /\ at' = "baseline" /\ page' = "blank" /\ pend' = "nothing" /\ ~rec.stored
<1>1. form.try + 1 \in Nat BY TypedParts
<1> QED BY <1>1, NewFormSays DEF StartsAttempt, Go, Shows

LEMMA BaselineForm ==
  ASSUME Typed, ReadsBaseline
  PROVE  /\ \/ FormSays(form', form.try, svc.sent, form.asked, box.newest, box.arrived,
                        form.code, form.clicks, form.reauth)
            \/ FormSays(form', form.try, svc.sent, form.asked, form.base, form.seen,
                        form.code, form.clicks, form.reauth)
            \/ FormKept /\ at' = "fatal"
         /\ at' \in {"exit", "fatal"}
<1>1. /\ \/ form' = [form EXCEPT !.start = svc.sent, !.base = box.newest, !.seen = box.arrived]
         \/ form' = [form EXCEPT !.start = svc.sent]
         \/ form' = form /\ at' = "fatal"
      /\ at' \in {"exit", "fatal"}
  BY DEF ReadsBaseline, Go
<1>2. CASE form' = [form EXCEPT !.start = svc.sent, !.base = box.newest, !.seen = box.arrived]
  BY <1>1, <1>2, TypedParts, BaselineSays
<1>3. CASE form' = [form EXCEPT !.start = svc.sent]
  BY <1>1, <1>3, TypedParts, StartSays
<1>4. CASE form' = form /\ at' = "fatal"
  BY <1>4, FormUnchanged
<1> QED BY <1>1, <1>2, <1>3, <1>4

----------------------------------------------------------------------------
(* What a step does to the site                                            *)

SiteGrows == svc' \in Sites /\ svc.sent <= svc'.sent /\ (svc.totp => svc'.totp)
SiteKeeps ==
  /\ SiteGrows /\ svc'.password = svc.password
  /\ svc.account = "complete" => svc'.account = "complete"

(* An answer that leaves the password and a complete account alone.        *)
Harmless(a) ==
  /\ a[2] \in Sites /\ svc.sent <= a[2].sent /\ (svc.totp => a[2].totp)
  /\ a[2].password = svc.password
  /\ svc.account = "complete" \/ a[1] = "home" => a[2].account = "complete"

LEMMA SiteUnchanged == ASSUME Typed, svc' = svc PROVE SiteKeeps
<1>1. svc.sent <= svc.sent BY TypedParts
<1> QED BY <1>1, TypedParts DEF SiteKeeps, SiteGrows

LEMMA SentSite ==
  ASSUME NEW s \in Sites
  PROVE  /\ Sent(s) \in Sites /\ s.sent <= Sent(s).sent /\ Sent(s).totp = s.totp
         /\ Sent(s).password = s.password /\ Sent(s).account = s.account
  BY DEF Sent, Sites

LEMMA ProfileAnswersHarmless ==
  ASSUME Typed, NEW a \in ProfileAnswers
  PROVE  Harmless(a)
<1>1. a[1] = "home" /\ a[2] = [svc EXCEPT !.account = "complete"] BY DEF ProfileAnswers
<1>2. /\ a[2] \in Sites /\ a[2].sent = svc.sent /\ a[2].totp = svc.totp
      /\ a[2].password = svc.password /\ a[2].account = "complete"
  BY <1>1, TypedParts DEF Sites
<1> QED BY <1>2, TypedParts DEF Harmless

LEMMA CodeAnswersHarmless ==
  ASSUME Typed, NEW a \in CodeAnswers
  PROVE  Harmless(a)
<1>1. CASE a[2] = svc /\ (svc.account = "complete" \/ a[1] # "home")
  BY <1>1, TypedParts DEF Harmless
<1>2. CASE /\ svc.account # "complete" /\ a[1] = "profile"
           /\ a[2] = [svc EXCEPT !.account = "verified"]
  <2>1. /\ a[2] \in Sites /\ a[2].sent = svc.sent /\ a[2].totp = svc.totp
        /\ a[2].password = svc.password
    BY <1>2, TypedParts DEF Sites
  <2> QED BY <1>2, <2>1, TypedParts DEF Harmless
<1> QED BY <1>1, <1>2 DEF CodeAnswers

LEMMA EmailAnswersHarmless ==
  ASSUME Typed, NEW a \in EmailAnswers
  PROVE  Harmless(a) /\ a[1] # "home"
<1>1. a[1] # "home" /\ (a[2] = svc \/ a[2] = Sent(svc))
  BY DEF EmailAnswers
<1> QED BY <1>1, TypedParts, SentSite DEF Harmless

LEMMA CodeSentHarmless ==
  ASSUME Typed, NEW p, p # "home"
  PROVE  Harmless(<<p, Sent(svc)>>) /\ Harmless(<<p, svc>>)
  BY TypedParts, SentSite DEF Harmless

LEMMA HarmlessClicks ==
  ASSUME Typed, NEW answers, Clicks(answers), \A a \in answers : Harmless(a)
  PROVE  SiteKeeps /\ (HomeIsComplete => HomeIsComplete') /\ page' = page
<1>1. CASE \E a \in answers : pend' = a[1] /\ svc' = a[2] /\ UNCHANGED <<page, troubles>>
  BY <1>1 DEF Harmless, SiteKeeps, SiteGrows, HomeIsComplete
<1>2. CASE pend' \in TroublePages \cup {pend} /\ UNCHANGED <<page, svc>>
  BY <1>2, SiteUnchanged DEF HomeIsComplete, TroublePages
<1> QED BY <1>1, <1>2 DEF Clicks

SiteStays == SiteKeeps /\ (HomeIsComplete => HomeIsComplete')

LEMMA ClickingSites ==
  ASSUME Typed,
         \/ RouteClicks \/ ClicksEmail \/ EmailTriesAgain \/ SwitchesToCode
         \/ SubmitsCode \/ CodeTriesAgain
         \/ SubmitsProfile \/ ProfileTriesAgain \/ ResubmitsProfile
  PROVE  SiteStays /\ page' = page
<1>1. CASE Clicks(EmailAnswers) BY <1>1, HarmlessClicks, EmailAnswersHarmless DEF SiteStays
<1>2. CASE Clicks(CodeAnswers) BY <1>2, HarmlessClicks, CodeAnswersHarmless DEF SiteStays
<1>3. CASE Clicks(ProfileAnswers) BY <1>3, HarmlessClicks, ProfileAnswersHarmless DEF SiteStays
<1>4. CASE RouteClicks
  <2> DEFINE p == IF svc.password = NoPassword THEN "create" ELSE "password"
  <2>1. Clicks({<<p, svc>>})
    <3>1. {<<q, svc>> : q \in {p}} = {<<p, svc>>} OBVIOUS
    <3> QED BY <1>4, <3>1 DEF RouteClicks
  <2>2. p # "home" OBVIOUS
  <2> QED BY <2>1, <2>2, HarmlessClicks, CodeSentHarmless DEF SiteStays
<1>5. CASE Clicks({<<"code", Sent(svc)>>}) \/ Clicks({<<"profile", svc>>})
  BY <1>5, HarmlessClicks, CodeSentHarmless DEF SiteStays
<1>6. CASE UNCHANGED site
  BY <1>6, SiteUnchanged DEF site, SiteStays, HomeIsComplete
<1>7. CASE /\ \E a \in ProfileAnswers : pend' = a[1] /\ svc' = a[2]
           /\ UNCHANGED page
  BY <1>7, ProfileAnswersHarmless
     DEF Harmless, SiteStays, SiteKeeps, SiteGrows, HomeIsComplete
<1> QED BY <1>1, <1>2, <1>3, <1>4, <1>5, <1>6, <1>7
        DEF ClicksEmail, EmailTriesAgain, SwitchesToCode, SubmitsCode, CodeTriesAgain,
            SubmitsProfile, ProfileTriesAgain, ResubmitsProfile, TriesAgain

LEMMA OpensRegistrationSite ==
  ASSUME Typed, OpensRegistration
  PROVE  SiteStays /\ (pend' = "nothing" \/ (pend' = pend /\ page' = page))
<1>1. CASE UNCHANGED site
  BY <1>1, SiteUnchanged DEF site, SiteStays, HomeIsComplete
<1>2. CASE \E a \in EmailAnswers \cup {<<"login", svc>>} : Shows(a[1]) /\ svc' = a[2]
  <2>1. PICK a \in EmailAnswers \cup {<<"login", svc>>} : Shows(a[1]) /\ svc' = a[2] BY <1>2
  <2>2. Harmless(a) /\ a[1] # "home"
    <3>1. CASE a \in EmailAnswers BY <3>1, EmailAnswersHarmless
    <3>2. CASE a = <<"login", svc>> BY <3>2, CodeSentHarmless
    <3> QED BY <2>1, <3>1, <3>2
  <2>3. SiteKeeps BY <2>1, <2>2 DEF Harmless, SiteKeeps, SiteGrows
  <2> QED BY <2>1, <2>2, <2>3 DEF SiteStays, HomeIsComplete, Shows
<1>3. CASE svc' = svc /\ \E p \in TroublePages \cup {"login"} : Shows(p)
  <2>1. pend' = "nothing" /\ page' # "home" BY <1>3 DEF Shows, TroublePages
  <2> QED BY <1>3, <2>1, SiteUnchanged DEF SiteStays, HomeIsComplete
<1> QED BY <1>1, <1>2, <1>3 DEF OpensRegistration

(* A password is set on the page that creates it, or nothing is.           *)
LEMMA SubmitsPasswordSite ==
  ASSUME Typed, SubmitsPassword
  PROVE  /\ page' = page /\ SiteGrows
         /\ \/ /\ page = "create" /\ pend' = "code" /\ at' = "pwdWait"
               /\ svc'.password = form.try /\ svc'.account = "started"
            \/ SiteStays /\ pend' \in TroublePages \cup {pend}
<1>1. CASE Clicks(PasswordAnswers) /\ at' = "pwdWait"
  <2>1. CASE page = "create" /\ pend' = "code"
             /\ svc' = Sent([svc EXCEPT !.account = "started", !.password = form.try])
             /\ page' = page
    <3> DEFINE s == [svc EXCEPT !.account = "started", !.password = form.try]
    <3>1. /\ s \in Sites /\ s.sent = svc.sent /\ s.totp = svc.totp
          /\ s.password = form.try /\ s.account = "started"
      <4>1. form.try \in Int /\ svc \in Sites BY TypedParts
      <4>2. s \in Sites BY <4>1, Zenon DEF Sites
      <4> QED BY <4>1, <4>2 DEF Sites
    <3>2. svc' = Sent(s) BY <2>1
    <3> QED BY <1>1, <2>1, <3>1, <3>2, SentSite DEF SiteGrows
  <2>2. CASE svc' = svc /\ page' = page /\ pend' \in TroublePages \cup {pend}
    BY <2>2, SiteUnchanged DEF SiteStays, SiteKeeps, HomeIsComplete, TroublePages
  <2> QED BY <1>1, <2>1, <2>2 DEF Clicks, PasswordAnswers, TroublePages
<1>2. CASE UNCHANGED site
  BY <1>2, SiteUnchanged DEF site, SiteStays, SiteKeeps, HomeIsComplete
<1> QED BY <1>1, <1>2 DEF SubmitsPassword, Go

LEMMA ReloadsCodeSite ==
  ASSUME Typed, ReloadsCode
  PROVE  SiteStays
<1>1. CASE Clicks(CodeAnswers) BY <1>1, HarmlessClicks, CodeAnswersHarmless DEF SiteStays
<1>2. CASE UNCHANGED site
  BY <1>2, SiteUnchanged DEF site, SiteStays, HomeIsComplete
<1>3. CASE Shows(pend) /\ svc' = svc
  BY <1>3, SiteUnchanged DEF Shows, SiteStays, HomeIsComplete
<1> QED BY <1>1, <1>2, <1>3 DEF ReloadsCode

LEMMA BeginsTotpSite ==
  ASSUME Typed, BeginsTotp
  PROVE  SiteStays
<1> DEFINE p == IF svc.totp THEN "totp" ELSE "code"
<1>1. CASE Clicks({<<p, Sent(svc)>>})
  <2>1. p # "home" OBVIOUS
  <2> QED BY <1>1, <2>1, HarmlessClicks, CodeSentHarmless DEF SiteStays
<1>2. CASE pend' = "code" /\ svc' = Sent(svc) /\ page' = page
  BY <1>2, TypedParts, SentSite DEF SiteStays, SiteKeeps, SiteGrows, HomeIsComplete
<1>3. CASE UNCHANGED site
  BY <1>3, SiteUnchanged DEF site, SiteStays, HomeIsComplete
<1> QED BY <1>1, <1>2, <1>3 DEF BeginsTotp

LEMMA EnrollsTotpSite ==
  ASSUME Typed, EnrollsTotp
  PROVE  SiteStays /\ (at' = "totpStore" => svc'.totp)
<1>1. PICK on \in BOOLEAN : svc' = [svc EXCEPT !.totp = on]
        /\ (svc.totp => on) /\ (at' = "totpStore" => on)
  <2>1. CASE svc' = [svc EXCEPT !.totp = TRUE] /\ at' = "totpStore" BY <2>1
  <2>2. CASE Raises("fatal") /\ \E on \in BOOLEAN : svc' = [svc EXCEPT !.totp = @ \/ on]
    <3>1. PICK on \in BOOLEAN : svc' = [svc EXCEPT !.totp = svc.totp \/ on] BY <2>2
    <3>2. (svc.totp \/ on) \in BOOLEAN /\ at' # "totpStore" BY <2>2, <3>1 DEF Raises
    <3> QED BY <3>1, <3>2
  <2> QED BY <2>1, <2>2 DEF EnrollsTotp, Go
<1>2. /\ svc' \in Sites /\ svc'.totp = on /\ svc'.sent = svc.sent
      /\ svc'.password = svc.password /\ svc'.account = svc.account
  BY <1>1, TypedParts DEF Sites
<1>3. page' = page /\ pend' = pend BY DEF EnrollsTotp
<1> QED BY <1>1, <1>2, <1>3, TypedParts DEF SiteStays, SiteKeeps, SiteGrows, HomeIsComplete

(* The other steps leave the site alone; the page may be another.          *)
LEMMA QuietSites ==
  ASSUME Typed,
         \/ ReadsBaseline \/ ChecksExit \/ RouteDecides \/ FormIsGone \/ FormIsUnstable
         \/ FillsEmail \/ EmailIsReset \/ ClickEnds \/ SeesNextStep \/ EmailIsRefused
         \/ Reconciles \/ EmailWaitEnds \/ PasswordWaitEnds \/ PollsMail \/ GivesUpOnMail
         \/ CodeWaitEnds \/ FillsName \/ FillsAge \/ ProfileWaitEnds \/ StoresAccount
         \/ DeletesEmail \/ ReadsCheckoutType \/ TotpWaitEnds \/ RefreshesToken \/ StoresTotp
         \/ StartsAttempt \/ BreaksOff \/ SiteAnswers \/ LoginResets \/ MailArrives
  PROVE  SiteStays
<1>1. svc' = svc /\ (page' = "home" \/ pend' = "home" => page = "home" \/ pend = "home")
  BY DEF site, ReadsBaseline, ChecksExit, HasNoPage, RouteDecides, FormIsGone, FormIsUnstable,
     FillsEmail, EmailIsReset, ClickEnds, SeesNextStep, EmailIsRefused, Reconciles,
     EmailWaitEnds, PasswordWaitEnds, PollsMail, GivesUpOnMail, CodeWaitEnds, FillsName,
     FillsAge, ProfileWaitEnds, StoresAccount, DeletesEmail, ReadsCheckoutType, TotpWaitEnds,
     RefreshesToken, StoresTotp, StartsAttempt, BreaksOff, SiteAnswers, LoginResets,
     MailArrives, Shows
<1> QED BY <1>1, SiteUnchanged DEF SiteStays, HomeIsComplete

LEMMA TokenSites ==
  ASSUME Typed, ExtractsToken \/ ReadsPlan
  PROVE  SiteKeeps /\ pend' \in {"nothing", pend}
<1>1. svc' = svc /\ pend' \in {"nothing", pend}
  BY DEF ExtractsToken, ReadsPlan, RestoresHome, Shows
<1> QED BY <1>1, SiteUnchanged

LEMMA SiteNext ==
  ASSUME Typed, [Next]_vars
  PROVE  SiteGrows
<1>1. CASE UNCHANGED svc BY <1>1, SiteUnchanged DEF SiteKeeps
<1>2. CASE EmailSteps
  BY <1>2, OpensRegistrationSite, ClickingSites, QuietSites DEF EmailSteps, SiteStays, SiteKeeps
<1>3. CASE CodeSteps
  BY <1>3, SubmitsPasswordSite, ReloadsCodeSite, ClickingSites, QuietSites
     DEF CodeSteps, SiteStays, SiteKeeps
<1>4. CASE AccountSteps
  BY <1>4, TokenSites, BeginsTotpSite, EnrollsTotpSite, ClickingSites, QuietSites
     DEF AccountSteps, SiteStays, SiteKeeps
<1>5. CASE StartsAttempt \/ BreaksOff \/ SiteAnswers \/ LoginResets \/ MailArrives
  BY <1>5, QuietSites DEF SiteStays, SiteKeeps
<1> QED BY <1>1, <1>2, <1>3, <1>4, <1>5 DEF Next, Done, vars, site

----------------------------------------------------------------------------
(* Types                                                                   *)

LEMMA FormNext ==
  ASSUME Typed, [Next]_vars
  PROVE  form' \in Forms
<1>1. CASE UNCHANGED form BY <1>1, TypedParts
<1>2. CASE EmailSteps
  BY <1>1, <1>2, BaselineForm, OpensRegistrationForm, EntryForms, ClicksEmailForm
     DEF EmailSteps, ChecksExit, RouteDecides, FormIsGone, FormIsUnstable, FillsEmail,
         SeesNextStep, EmailIsRefused, FormSays, FormKept, FormAsks, FormGoes
<1>3. CASE CodeSteps
  BY <1>1, <1>3, PasswordForm, PollsMailForm, ClickingForms, TriesAgainForms, CodeWaitEndsForm
     DEF CodeSteps, PasswordWaitEnds, GivesUpOnMail, FormSays, FormKept, FormAsks, FormClicks,
         FormGoes
<1>4. CASE AccountSteps
  BY <1>1, <1>4, ClickingForms, TriesAgainForms, PlanForm, BeginsTotpForm
     DEF AccountSteps, FillsName, FillsAge, StoresAccount, DeletesEmail, ExtractsToken,
         TotpWaitEnds, RefreshesToken, EnrollsTotp, StoresTotp, FormSays, FormKept, FormClicks,
         FormGoes, Wanted, TotpAsked
<1>5. CASE StartsAttempt BY <1>5, AttemptForm DEF FormSays
<1>6. CASE BreaksOff \/ SiteAnswers \/ LoginResets \/ MailArrives
  BY <1>1, <1>6 DEF BreaksOff, SiteAnswers, LoginResets, MailArrives
<1> QED BY <1>1, <1>2, <1>3, <1>4, <1>5, <1>6 DEF Next, Done, vars

LEMMA RaisesRecord ==
  ASSUME Typed, NEW error \in Ended, Raises(error)
  PROVE  rec' \in Records /\ at' \in Ended
<1>1. [rec EXCEPT !.totpError = TRUE] \in Records BY TypedParts DEF Records
<1> QED BY <1>1, TypedParts DEF Raises, Ended

LEMMA RecordNext ==
  ASSUME Typed, [Next]_vars
  PROVE  rec' \in Records
<1>1. CASE UNCHANGED rec BY <1>1, TypedParts
<1>2. CASE Raises("fatal") \/ Raises("transient") BY <1>2, RaisesRecord DEF Ended
<1>3. CASE StoresAccount
  <2>1. form.try \in Int /\ NoPassword \in Int BY TypedParts DEF NoPassword
  <2>2. \A p \in Int : [rec EXCEPT !.stored = TRUE, !.password = p] \in Records
    BY TypedParts, Zenon DEF Records
  <2> QED BY <1>1, <1>3, <2>1, <2>2 DEF StoresAccount
<1>4. CASE DeletesEmail
  BY <1>1, <1>4, TypedParts DEF DeletesEmail, Records
<1>5. CASE ExtractsToken
  <2>1. \A t \in BOOLEAN : [rec EXCEPT !.token = t, !.tokenError = TRUE] \in Records
    BY TypedParts, Zenon DEF Records
  <2>2. [rec EXCEPT !.token = TRUE] \in Records BY TypedParts DEF Records
  <2> QED BY <1>5, <2>1, <2>2 DEF ExtractsToken
<1>6. CASE StoresTotp
  <2>1. [rec EXCEPT !.secret = TRUE] \in Records BY TypedParts DEF Records
  <2> QED BY <1>2, <1>6, <2>1 DEF StoresTotp
<1>7. CASE EmailSteps
  BY <1>1, <1>7
     DEF EmailSteps, ReadsBaseline, ChecksExit, OpensRegistration, RouteDecides, RouteClicks,
         FormIsGone, FormIsUnstable, FillsEmail, EmailIsReset, ClicksEmail, ClickEnds,
         SeesNextStep, EmailTriesAgain, EmailIsRefused, Reconciles, EmailWaitEnds, TriesAgain
<1>8. CASE CodeSteps
  BY <1>1, <1>2, <1>8, CodeWaitEndsForm
     DEF CodeSteps, SubmitsPassword, SwitchesToCode, PasswordWaitEnds, PollsMail, GivesUpOnMail,
         SubmitsCode, CodeTriesAgain, ReloadsCode, TriesAgain
<1>9. CASE AccountSteps
  BY <1>1, <1>2, <1>3, <1>4, <1>5, <1>6, <1>9
     DEF AccountSteps, FillsName, FillsAge, SubmitsProfile, ProfileTriesAgain, ResubmitsProfile,
         ProfileWaitEnds, ReadsPlan, ReadsCheckoutType, BeginsTotp, TotpWaitEnds,
         RefreshesToken, EnrollsTotp, TriesAgain
<1> QED BY <1>1, <1>7, <1>8, <1>9
        DEF Next, Done, vars, StartsAttempt, BreaksOff, SiteAnswers, LoginResets, MailArrives

(* Only mails that arrive change the mailbox.                              *)
LEMMA BoxNext ==
  ASSUME Typed, [Next]_vars
  PROVE  opts' = opts /\ box' \in Boxes /\ (~MailArrives => box' = box)
<1>1. CASE MailArrives
  <2>1. PICK i \in 1 .. svc.sent \ box.arrived :
          box' = [arrived |-> box.arrived \cup {i}, newest |-> i]
    BY <1>1 DEF MailArrives
  <2>2. i \in Nat BY <2>1, TypedParts
  <2> QED BY <1>1, <2>1, <2>2, TypedParts DEF Boxes, MailArrives
<1>2. CASE UNCHANGED <<opts, box>> BY <1>2 DEF Typed
<1>3. CASE EmailSteps
  BY <1>2, <1>3 DEF EmailSteps, TriesAgain,
     ReadsBaseline, ChecksExit, OpensRegistration, RouteDecides, RouteClicks,
     FormIsGone, FormIsUnstable, FillsEmail, EmailIsReset, ClicksEmail, ClickEnds,
     SeesNextStep, EmailTriesAgain, EmailIsRefused, Reconciles, EmailWaitEnds
<1>4. CASE CodeSteps
  BY <1>2, <1>4 DEF CodeSteps, TriesAgain,
     SubmitsPassword, SwitchesToCode, PasswordWaitEnds, PollsMail, GivesUpOnMail,
     SubmitsCode, CodeTriesAgain, CodeWaitEnds, ReloadsCode
<1>5. CASE AccountSteps
  BY <1>2, <1>5 DEF AccountSteps, TriesAgain,
     FillsName, FillsAge, SubmitsProfile, ProfileTriesAgain, ResubmitsProfile,
     ProfileWaitEnds, StoresAccount, DeletesEmail, ExtractsToken, ReadsPlan,
     ReadsCheckoutType, BeginsTotp, TotpWaitEnds, RefreshesToken, EnrollsTotp,
     StoresTotp
<1> QED BY <1>1, <1>2, <1>3, <1>4, <1>5
        DEF Next, Done, vars, StartsAttempt, BreaksOff, SiteAnswers, LoginResets

LEMMA PlacesNext ==
  ASSUME Typed, [Next]_vars
  PROVE  at' \in Steps \cup Waits \cup Ended
<1>1. CASE UNCHANGED at BY <1>1 DEF Typed
<1>2. CASE Raises("fatal") \/ Raises("transient")
  BY <1>2, RaisesRecord DEF Ended
<1>3. CASE EmailSteps
  BY <1>1, <1>2, <1>3 DEF EmailSteps,
     ReadsBaseline, ChecksExit, OpensRegistration, RouteDecides, RouteClicks,
     FormIsGone, FormIsUnstable, FillsEmail, EmailIsReset, ClicksEmail, ClickEnds,
     SeesNextStep, EmailTriesAgain, EmailIsRefused, Reconciles, EmailWaitEnds, Go,
     AfterEmail, HasNoPage, FillsAgain, TriesAgain, Steps, Waits, Ended
<1>4. CASE CodeSteps
  BY <1>1, <1>2, <1>4 DEF CodeSteps,
     SubmitsPassword, SwitchesToCode, PasswordWaitEnds, PollsMail, GivesUpOnMail,
     SubmitsCode, CodeTriesAgain, CodeWaitEnds, ReloadsCode, Go, TriesAgain, Steps,
     Waits, Ended
<1>5. CASE AccountSteps
  BY <1>1, <1>2, <1>5 DEF AccountSteps,
     FillsName, FillsAge, SubmitsProfile, ProfileTriesAgain, ResubmitsProfile,
     ProfileWaitEnds, StoresAccount, DeletesEmail, ExtractsToken, ReadsPlan,
     ReadsCheckoutType, BeginsTotp, TotpWaitEnds, RefreshesToken, EnrollsTotp,
     StoresTotp, Go, TriesAgain, Continues, Steps, Waits, Ended
<1>6. CASE StartsAttempt \/ BreaksOff
  BY <1>6 DEF StartsAttempt, BreaksOff, Go, Steps, Ended
<1> QED BY <1>1, <1>2, <1>3, <1>4, <1>5, <1>6
        DEF Next, Done, vars, SiteAnswers, LoginResets, MailArrives

LEMMA TypedNext ==
  ASSUME Typed, [Next]_vars
  PROVE  Typed'
<1>1. opts \in [password : BOOLEAN, dated : BOOLEAN] BY DEF Typed
<1> QED BY <1>1, FormNext, RecordNext, BoxNext, PlacesNext, SiteNext DEF Typed, SiteGrows

LEMMA TypedInit == Init => Typed
<1> SUFFICES ASSUME Init PROVE Typed OBVIOUS
<1>1. form \in Forms BY NewFormSays DEF Init, FormSays
<1>2. NoPassword \in Int /\ Foreign \in Int BY DEF NoPassword, Foreign
<1>3. svc \in Sites
  <2>1. \A a \in {"none", "complete"}, p \in Int, t \in BOOLEAN :
          [account |-> a, password |-> p, totp |-> t, sent |-> 0] \in Sites
    BY DEF Sites
  <2> QED BY <1>2, <2>1 DEF Init
<1>4. rec \in Records BY <1>2 DEF Init, NoRecord, Records
<1>5. box \in Boxes BY DEF Init, Boxes
<1> QED BY <1>1, <1>3, <1>4, <1>5 DEF Init, Typed, Steps

----------------------------------------------------------------------------
(* The codes                                                               *)

(* What makes a step keep Codes that does not begin or end a wait for mail. *)
LEMMA CodesKept ==
  ASSUME Typed, Typed', Codes, SiteGrows, UNCHANGED <<opts, box>>,
         NEW asked \in {form.asked, svc.sent}, NEW clicks, FormGoes(asked, clicks),
         at' \notin {"baseline", "exit"}, at' = "open" => at = "exit" /\ clicks = form.clicks,
         at' \in AskedAt =>
           asked = svc.sent \/ at \in AskedAt \/ (at \in {"ready", "typed"} /\ form.clicks > 0),
         at' \in {"ready", "typed"} /\ clicks > 0 =>
           at \in AskedAt \/ (at \in {"ready", "typed"} /\ clicks = form.clicks),
         at' \in Uncoded \/ asked # form.asked => at \in Uncoded
  PROVE  Codes'
<1>1. /\ form'.start = form.start /\ form'.asked = asked /\ form'.base = form.base
      /\ form'.seen = form.seen /\ form'.code = form.code /\ form'.clicks = clicks
  BY DEF FormGoes, FormSays
<1>2. form.start <= svc'.sent
  <2>1. form.start \in Nat /\ svc.sent \in Nat /\ svc'.sent \in Nat BY DEF Typed, Forms, Sites
  <2> QED BY <2>1 DEF Codes, SiteGrows
<1>3. form.start <= svc.sent BY DEF Codes
<1> QED BY <1>1, <1>2, <1>3 DEF Codes, FreshCode

(* The steps that remember nothing new.                                    *)
LEMMA KeptCodes ==
  ASSUME Typed, Typed', Codes, SiteGrows, UNCHANGED <<opts, box>>, FormKept,
         at' \notin {"baseline", "exit"}, at' = "open" => at = "exit",
         at' \in AskedAt => at \in AskedAt \/ (at \in {"ready", "typed"} /\ form.clicks > 0),
         at' \in {"ready", "typed"} => at \in AskedAt \cup {"open", "ready", "typed"}
  PROVE  Codes'
<1>1. form.clicks > 0 => form.clicks # 0 /\ at # "open"
  BY DEF Codes
<1>2. at' \in Uncoded => at \in Uncoded BY DEF Uncoded, AskedAt
<1> QED BY <1>1, <1>2, CodesKept DEF FormKept

LEMMA AskingCodes ==
  ASSUME Typed, Typed', Codes, SiteGrows, UNCHANGED <<opts, box>>, FormAsks,
         at' \in AskedAt, at \in Uncoded
  PROVE  Codes'
<1>1. PICK n \in Nat : FormGoes(svc.sent, n) BY DEF FormAsks
<1>2. at' \notin {"baseline", "exit", "open", "ready", "typed"} BY DEF AskedAt
<1> QED BY <1>1, <1>2, CodesKept

LEMMA ClicksCodes ==
  ASSUME Typed, Typed', Codes, SiteGrows, UNCHANGED <<opts, box>>, FormClicks,
         at' \notin Uncoded
  PROVE  Codes'
<1>1. PICK n \in Nat : FormGoes(form.asked, n) BY DEF FormClicks
<1> QED BY <1>1, CodesKept DEF Uncoded

LEMMA BaselineCodes ==
  ASSUME Typed, Typed', Codes, SiteGrows, UNCHANGED <<opts, box>>, ReadsBaseline
  PROVE  Codes'
<1>1. at = "baseline" /\ svc' = svc BY DEF ReadsBaseline, site
<1>2. form.code = 0 /\ form.clicks = 0 BY <1>1 DEF Codes, Uncoded
<1>3. svc.sent \in Nat BY TypedParts
<1>4. at' \in {"exit", "fatal"} BY BaselineForm
<1>5. /\ form.seen \subseteq box.arrived
      /\ form.base # -1 => box.newest = form.base \/ box.newest \notin form.seen
  BY DEF Codes
<1>6. CASE FormKept /\ at' = "fatal" BY <1>6, KeptCodes DEF Uncoded, AskedAt
<1>7. CASE FormSays(form', form.try, svc.sent, form.asked, box.newest, box.arrived,
                    form.code, form.clicks, form.reauth)
  BY <1>1, <1>2, <1>3, <1>4, <1>7 DEF FormSays, Codes, Uncoded, AskedAt, FreshCode
<1>8. CASE FormSays(form', form.try, svc.sent, form.asked, form.base, form.seen,
                    form.code, form.clicks, form.reauth)
  BY <1>1, <1>2, <1>3, <1>4, <1>5, <1>8 DEF FormSays, Codes, Uncoded, AskedAt, FreshCode
<1> QED BY <1>6, <1>7, <1>8, BaselineForm

LEMMA PollsMailCodes ==
  ASSUME Typed, Typed', Codes, SiteGrows, UNCHANGED <<opts, box>>, PollsMail
  PROVE  Codes'
<1>1. at = "mail" BY DEF PollsMail
<1>2. CASE FormKept /\ at' = at BY <1>1, <1>2, KeptCodes DEF Uncoded, AskedAt
<1>3. CASE at' = "codeForm" /\ IsNewCode(box.newest) /\
           FormSays(form', form.try, form.start, form.asked, form.base, form.seen,
                    box.newest, 0, form.reauth)
  <2>1. /\ form'.start = form.start /\ form'.asked = form.asked /\ form'.base = form.base
        /\ form'.seen = form.seen /\ form'.code = box.newest /\ form'.asked = form.asked
    BY <1>3 DEF FormSays
  <2>2. form.start <= form.asked BY <1>1 DEF Codes, Uncoded, AskedAt
  <2>3. /\ form.start \in Nat /\ form.asked \in Nat /\ svc.sent \in Nat /\ svc'.sent \in Nat
        /\ box.newest \in Nat
    BY DEF Typed, Forms, Sites, Boxes
  <2>4. IF opts.dated THEN box.newest > form.start \/ box.newest = form.asked
        ELSE box.newest \notin form.seen
    <3>1. CASE opts.dated BY <1>3, <2>2, <2>3, <3>1 DEF IsNewCode
    <3>2. CASE ~opts.dated BY <1>3, <3>2 DEF IsNewCode, Codes
    <3> QED BY <3>1, <3>2
  <2>5. form.start <= svc'.sent BY <2>3 DEF Codes, SiteGrows
  <2> QED BY <1>3, <2>1, <2>4, <2>5 DEF Codes, FreshCode, Uncoded, AskedAt
<1> QED BY <1>2, <1>3, PollsMailForm

(* What a wait remembered is forgotten, or read anew.                      *)
LEMMA CodeWaitEndsCodes ==
  ASSUME Typed, Typed', Codes, SiteGrows, UNCHANGED <<opts, box>>, CodeWaitEnds
  PROVE  Codes'
<1>1. CASE FormKept /\ at' \in Ended \cup {"reload"}
  BY <1>1, KeptCodes DEF Uncoded, AskedAt, Ended
<1>2. CASE at' \in {"session", "profile"} /\
           FormSays(form', form.try, form.start, 0, 0, {}, 0, 0, form.reauth)
  <2>1. form.start <= svc'.sent
    <3>1. form.start \in Nat /\ svc.sent \in Nat /\ svc'.sent \in Nat BY DEF Typed, Forms, Sites
    <3> QED BY <3>1 DEF Codes, SiteGrows
  <2> QED BY <1>2, <2>1 DEF FormSays, Codes, Uncoded, AskedAt, FreshCode
<1> QED BY <1>1, <1>2, CodeWaitEndsForm DEF Raises, Ended

LEMMA BeginsTotpCodes ==
  ASSUME Typed, Typed', Codes, SiteGrows, UNCHANGED <<opts, box>>, BeginsTotp
  PROVE  Codes'
<1>1. CASE FormKept /\ Raises("fatal")
  BY <1>1, KeptCodes DEF Uncoded, AskedAt, Raises
<1>2. ASSUME NEW b \in {-1, box.newest}, TotpAsked(b), at' = "totpWait"
      PROVE  Codes'
  <2>1. form.start <= svc.sent /\ form.start <= svc'.sent
    <3>1. form.start \in Nat /\ svc.sent \in Nat /\ svc'.sent \in Nat BY DEF Typed, Forms, Sites
    <3> QED BY <3>1 DEF Codes, SiteGrows
  <2> QED BY <1>2, <2>1 DEF TotpAsked, FormSays, Codes, Uncoded, AskedAt, FreshCode
<1> QED BY <1>1, <1>2, BeginsTotpForm

LEMMA PlanCodes ==
  ASSUME Typed, Typed', Codes, SiteGrows, UNCHANGED <<opts, box>>, ReadsPlan \/ ReadsCheckoutType
  PROVE  Codes'
<1>1. CASE FormKept /\ at' = "checkout" BY <1>1, KeptCodes DEF Uncoded, AskedAt
<1>2. ASSUME NEW wanted, Wanted(wanted) PROVE Codes'
  <2>1. at' \in {"totp", "ok"} BY <1>2 DEF Wanted
  <2>2. form.start <= svc'.sent
    <3>1. form.start \in Nat /\ svc.sent \in Nat /\ svc'.sent \in Nat BY DEF Typed, Forms, Sites
    <3> QED BY <3>1 DEF Codes, SiteGrows
  <2> QED BY <1>2, <2>1, <2>2 DEF Wanted, FormSays, Codes, Uncoded, AskedAt, FreshCode
<1> QED BY <1>1, <1>2, PlanForm

LEMMA AttemptCodes ==
  ASSUME Typed, Typed', Codes, SiteGrows, UNCHANGED <<opts, box>>, StartsAttempt
  PROVE  Codes'
<1>1. svc'.sent \in Nat BY DEF Typed, Sites
<1> QED BY <1>1, AttemptForm DEF FormSays, Codes, Uncoded, AskedAt, FreshCode

(* A mail that arrives is a new one.                                       *)
LEMMA MailArrivesCodes ==
  ASSUME Typed, Codes, MailArrives
  PROVE  Codes'
<1>1. PICK i \in 1 .. svc.sent \ box.arrived :
        box' = [arrived |-> box.arrived \cup {i}, newest |-> i]
  BY DEF MailArrives
<1>2. UNCHANGED <<opts, at, svc, form>> BY DEF MailArrives, site
<1>3. box'.arrived = box.arrived \cup {i} /\ box'.newest = i /\ i \notin box.arrived
  BY <1>1
<1> QED BY <1>2, <1>3 DEF Codes, FreshCode

LEMMA EmailCodes ==
  ASSUME Typed, Typed', Codes, SiteGrows, UNCHANGED <<opts, box>>, EmailSteps
  PROVE  Codes'
<1>1. CASE ReadsBaseline BY <1>1, BaselineCodes
<1>2. CASE ChecksExit \/ FillsEmail
  BY <1>2, FormUnchanged, KeptCodes DEF ChecksExit, FillsEmail, HasNoPage, Go, Uncoded, AskedAt
<1>3. CASE OpensRegistration
  BY <1>3, OpensRegistrationForm, AskingCodes, KeptCodes DEF OpensRegistration, Uncoded, AskedAt
<1>4. CASE RouteDecides
  BY <1>4, FormUnchanged, KeptCodes DEF RouteDecides, AfterEmail, Go, Uncoded, AskedAt
<1>5. CASE RouteClicks
  BY <1>5, EntryForms, KeptCodes DEF RouteClicks, Uncoded, AskedAt
<1>6. CASE FormIsGone
  BY <1>6, FormUnchanged, KeptCodes DEF FormIsGone, AfterEmail, NextStep, Go, Uncoded, AskedAt
<1>7. CASE FormIsUnstable
  BY <1>7, FormUnchanged, KeptCodes DEF FormIsUnstable, Go, Uncoded, AskedAt
<1>8. CASE EmailIsReset \/ Reconciles \/ EmailWaitEnds
  BY <1>8, EntryForms, KeptCodes DEF EmailIsReset, Reconciles, EmailWaitEnds, Uncoded, AskedAt
<1>9. CASE ClicksEmail
  <2>1. at \in Uncoded BY <1>9 DEF ClicksEmail, Uncoded
  <2>2. at' \in AskedAt BY <1>9, ClicksEmailForm DEF AskedAt
  <2> QED BY <1>9, <2>1, <2>2, ClicksEmailForm, AskingCodes
<1>10. CASE ClickEnds BY <1>10, EntryForms, KeptCodes DEF ClickEnds, Go, Uncoded, AskedAt
<1>11. CASE SeesNextStep \/ EmailIsRefused
  BY <1>11, FormUnchanged, KeptCodes
     DEF SeesNextStep, EmailIsRefused, AfterEmail, NextStep, Go, Uncoded, AskedAt
<1>12. CASE EmailTriesAgain
  BY <1>12, EntryForms, KeptCodes DEF EmailTriesAgain, TriesAgain, Uncoded, AskedAt
<1> QED BY <1>1, <1>2, <1>3, <1>4, <1>5, <1>6, <1>7, <1>8, <1>9, <1>10, <1>11, <1>12
        DEF EmailSteps

LEMMA CodeCodes ==
  ASSUME Typed, Typed', Codes, SiteGrows, UNCHANGED <<opts, box>>, CodeSteps
  PROVE  Codes'
<1>1. CASE SubmitsPassword \/ SwitchesToCode
  <2>1. at \in Uncoded BY <1>1 DEF SubmitsPassword, SwitchesToCode, Uncoded, AskedAt
  <2> QED BY <1>1, <2>1, PasswordForm, AskingCodes, KeptCodes DEF Raises, AskedAt
<1>2. CASE PasswordWaitEnds
  BY <1>2, FormUnchanged, KeptCodes DEF PasswordWaitEnds, Go, Uncoded, AskedAt
<1>3. CASE PollsMail BY <1>3, PollsMailCodes
<1>4. CASE GivesUpOnMail
  BY <1>4, FormUnchanged, KeptCodes DEF GivesUpOnMail, Raises, Uncoded, AskedAt
<1>5. CASE SubmitsCode \/ ReloadsCode
  BY <1>5, ClickingForms, ClicksCodes DEF SubmitsCode, ReloadsCode, Raises, Go, Uncoded, AskedAt
<1>6. CASE CodeTriesAgain
  BY <1>6, TriesAgainForms, KeptCodes DEF CodeTriesAgain, TriesAgain, Uncoded, AskedAt
<1>7. CASE CodeWaitEnds BY <1>7, CodeWaitEndsCodes
<1> QED BY <1>1, <1>2, <1>3, <1>4, <1>5, <1>6, <1>7 DEF CodeSteps

LEMMA AccountCodes ==
  ASSUME Typed, Typed', Codes, SiteGrows, UNCHANGED <<opts, box>>, AccountSteps
  PROVE  Codes'
<1>1. CASE FillsName \/ FillsAge \/ StoresAccount \/ DeletesEmail \/ ExtractsToken
  BY <1>1, FormUnchanged, KeptCodes
     DEF FillsName, FillsAge, StoresAccount, DeletesEmail, ExtractsToken, Go, Uncoded, AskedAt
<1>2. CASE SubmitsProfile \/ ResubmitsProfile \/ ProfileWaitEnds
  BY <1>2, ClickingForms, ClicksCodes
     DEF SubmitsProfile, ResubmitsProfile, ProfileWaitEnds, Go, Uncoded, AskedAt
<1>3. CASE ProfileTriesAgain
  BY <1>3, TriesAgainForms, KeptCodes DEF ProfileTriesAgain, TriesAgain, Uncoded, AskedAt
<1>4. CASE ReadsPlan \/ ReadsCheckoutType BY <1>4, PlanCodes
<1>5. CASE BeginsTotp BY <1>5, BeginsTotpCodes
<1>6. CASE TotpWaitEnds
  BY <1>6, FormUnchanged, KeptCodes DEF TotpWaitEnds, Raises, Go, Uncoded, AskedAt
<1>7. CASE RefreshesToken \/ EnrollsTotp \/ StoresTotp
  BY <1>7, FormUnchanged, KeptCodes
     DEF RefreshesToken, EnrollsTotp, StoresTotp, Raises, Go, Uncoded, AskedAt
<1> QED BY <1>1, <1>2, <1>3, <1>4, <1>5, <1>6, <1>7 DEF AccountSteps

LEMMA CodesNext ==
  ASSUME Typed, Typed', Codes, [Next]_vars
  PROVE  Codes'
<1>1. SiteGrows /\ (UNCHANGED <<opts, box>> \/ MailArrives) BY SiteNext, BoxNext
<1>2. CASE MailArrives BY <1>2, MailArrivesCodes
<1>3. CASE UNCHANGED <<opts, box>> /\ (EmailSteps \/ CodeSteps \/ AccountSteps)
  BY <1>1, <1>3, EmailCodes, CodeCodes, AccountCodes
<1>4. CASE UNCHANGED <<opts, box>> /\ StartsAttempt BY <1>1, <1>4, AttemptCodes
<1>5. CASE BreaksOff
  BY <1>1, <1>5, FormUnchanged, KeptCodes DEF BreaksOff, Go, AskedAt
<1>6. CASE SiteAnswers \/ LoginResets \/ UNCHANGED vars
  <2>1. UNCHANGED <<opts, at, svc, box, form>>
    BY <1>6 DEF SiteAnswers, LoginResets, vars, site
  <2> QED BY <2>1 DEF Codes, FreshCode
<1> QED BY <1>1, <1>2, <1>3, <1>4, <1>5, <1>6 DEF Next, Done

----------------------------------------------------------------------------
(* Where the account is stored                                             *)

Before == Entry \cup {"pwdWait"} \cup Profiling
Failed == {"proxy", "transient", "fatal"}

LEMMA FormReauth ==
  /\ FormKept => form'.reauth = form.reauth
  /\ FormClicks => form'.reauth = form.reauth
  /\ FormAsks => form'.reauth = form.reauth
  BY DEF FormKept, FormClicks, FormAsks, FormGoes, FormSays

LEMMA SamePlaced ==
  ASSUME Typed, Placed, SiteGrows, rec' = rec, form'.reauth = form.reauth,
         \/ at' \in Failed \/ at' = at
         \/ at \in Before /\ at' \in Before \cup Mailing
         \/ at \in Mailing /\ at' \in Mailing
         \/ at \in Mailing /\ at' = IF form.reauth THEN "session" ELSE "profile"
         \/ at \in Reauth /\ at' \in (Reauth \ {"totpStore"}) \cup Mailing
         \/ at = "enroll" /\ svc'.totp /\ at' = "totpStore"
         \/ at = "plan" /\ at' = "checkout"
  PROVE  Placed'
<1>1. CASE at' = at BY <1>1 DEF Placed, FullSuccessIsUsable, SiteGrows
<1>2. CASE at' \in Failed
  BY <1>2 DEF Placed, FullSuccessIsUsable, Failed, Entry, Profiling, Mailing, Reauth
<1>3. CASE at \in Before /\ at' \in Before \cup Mailing
  BY <1>3 DEF Placed, FullSuccessIsUsable, Before, Entry, Profiling, Mailing, Reauth
<1>4. CASE at \in Mailing
  BY <1>2, <1>4 DEF Placed, FullSuccessIsUsable, Before, Entry, Profiling, Mailing, Reauth
<1>5. CASE at \in Reauth /\ at' \in (Reauth \ {"totpStore"}) \cup Mailing
  BY <1>5 DEF Placed, FullSuccessIsUsable, Entry, Profiling, Mailing, Reauth
<1>7. CASE at = "enroll" /\ svc'.totp /\ at' = "totpStore"
  BY <1>7 DEF Placed, FullSuccessIsUsable, Entry, Profiling, Mailing, Reauth
<1>6. CASE at = "plan" /\ at' = "checkout"
  BY <1>6 DEF Placed, FullSuccessIsUsable, Before, Entry, Profiling, Mailing, Reauth
<1> QED BY <1>1, <1>2, <1>3, <1>4, <1>5, <1>6, <1>7

LEMMA RaisesPlaced ==
  ASSUME Typed, Placed, SiteGrows, form'.reauth = form.reauth,
         NEW error \in Failed, Raises(error)
  PROVE  Placed'
<1>1. CASE ~form.reauth BY <1>1, SamePlaced DEF Raises
<1>2. CASE form.reauth
  <2>1. at' = "ok" /\ rec' = [rec EXCEPT !.totpError = TRUE] BY <1>2 DEF Raises
  <2>2. /\ rec'.totpError /\ rec'.stored = rec.stored /\ rec'.deleted = rec.deleted
        /\ rec'.token = rec.token
    BY <2>1, TypedParts DEF Records
  <2> QED BY <1>2, <2>1, <2>2
          DEF Placed, FullSuccessIsUsable, Entry, Profiling, Mailing, Reauth
<1> QED BY <1>1, <1>2

LEMMA EmailPlaced ==
  ASSUME Typed, Placed, SiteGrows, EmailSteps
  PROVE  Placed'
<1>1. rec' = rec
  BY DEF EmailSteps, ReadsBaseline, ChecksExit, OpensRegistration, RouteDecides, RouteClicks,
     FormIsGone, FormIsUnstable, FillsEmail, EmailIsReset, ClicksEmail, ClickEnds,
     SeesNextStep, EmailTriesAgain, EmailIsRefused, Reconciles, EmailWaitEnds, TriesAgain
<1>2. form'.reauth = form.reauth
  <2>1. CASE form' = form BY <2>1
  <2>2. CASE ReadsBaseline BY <2>2, BaselineForm, FormReauth DEF FormSays
  <2> QED BY <2>1, <2>2, OpensRegistrationForm, EntryForms, ClicksEmailForm, FormReauth
          DEF EmailSteps, ChecksExit, RouteDecides, FormIsGone, FormIsUnstable, FillsEmail,
              SeesNextStep, EmailIsRefused
<1>3. at \in Entry /\ at' \in Failed \cup Entry \cup {"mail"}
  BY DEF EmailSteps, ReadsBaseline, ChecksExit, OpensRegistration, RouteDecides, RouteClicks,
     FormIsGone, FormIsUnstable, FillsEmail, EmailIsReset, ClicksEmail, ClickEnds,
     SeesNextStep, EmailTriesAgain, EmailIsRefused, Reconciles, EmailWaitEnds, TriesAgain,
     HasNoPage, AfterEmail, FillsAgain, Go, Entry, Failed
<1> QED BY <1>1, <1>2, <1>3, SamePlaced DEF Before, Mailing

LEMMA CodePlaced ==
  ASSUME Typed, Placed, SiteGrows, CodeSteps
  PROVE  Placed'
<1>1. form'.reauth = form.reauth
  <2>1. CASE form' = form BY <2>1
  <2> QED BY <2>1, PasswordForm, PollsMailForm, ClickingForms, TriesAgainForms,
             CodeWaitEndsForm, FormReauth
          DEF CodeSteps, PasswordWaitEnds, GivesUpOnMail, FormSays
<1>2. CASE Raises("fatal") \/ Raises("transient")
  BY <1>1, <1>2, RaisesPlaced DEF Failed
<1>3. CASE SubmitsPassword \/ SwitchesToCode
  <2>1. at \in Before BY <1>3 DEF SubmitsPassword, SwitchesToCode, Before, Entry
  <2> QED BY <1>1, <1>2, <1>3, <2>1, PasswordForm, SamePlaced DEF Before
<1>4. CASE PasswordWaitEnds
  <2>1. at \in Before /\ at' \in Failed \cup Mailing /\ rec' = rec
    BY <1>4 DEF PasswordWaitEnds, Go, Before, Failed, Mailing
  <2> QED BY <1>1, <2>1, SamePlaced
<1>5. CASE PollsMail
  <2>1. at \in Mailing /\ at' \in Mailing /\ rec' = rec
    BY <1>5 DEF PollsMail, Go, Mailing
  <2> QED BY <1>1, <2>1, SamePlaced
<1>6. CASE GivesUpOnMail BY <1>2, <1>6 DEF GivesUpOnMail
<1>7. CASE SubmitsCode \/ ReloadsCode \/ CodeTriesAgain
  <2>1. \/ at \in Mailing /\ at' \in Mailing /\ rec' = rec
        \/ Raises("fatal") \/ Raises("transient")
    BY <1>7 DEF SubmitsCode, ReloadsCode, CodeTriesAgain, TriesAgain, Go, Mailing
  <2> QED BY <1>1, <1>2, <2>1, SamePlaced
<1>8. CASE CodeWaitEnds
  <2>1. at \in Mailing BY <1>8 DEF CodeWaitEnds, Mailing
  <2> QED BY <1>1, <1>2, <1>8, <2>1, CodeWaitEndsForm, SamePlaced DEF Mailing
<1> QED BY <1>3, <1>4, <1>5, <1>6, <1>7, <1>8 DEF CodeSteps

LEMMA StoringPlaced ==
  ASSUME Typed, Placed, SiteGrows, StoresAccount \/ DeletesEmail \/ ExtractsToken
  PROVE  Placed'
<1>1. form' = form BY DEF StoresAccount, DeletesEmail, ExtractsToken
<1>2. CASE rec' = rec /\ at' \in Failed BY <1>1, <1>2, SamePlaced
<1>3. CASE StoresAccount /\ at' = "delete"
  <2>1. at = "store" /\ ~form.reauth BY <1>3 DEF StoresAccount, Placed, Profiling
  <2>2. rec'.stored /\ at' = "delete"
    BY <1>3, TypedParts DEF StoresAccount, Records, Go
  <2> QED BY <1>1, <2>1, <2>2
          DEF Placed, FullSuccessIsUsable, Entry, Profiling, Mailing, Reauth
<1>4. CASE DeletesEmail /\ at' = "token"
  <2>1. at = "delete" /\ ~form.reauth /\ rec.stored BY <1>4 DEF DeletesEmail, Placed
  <2>2. rec'.stored /\ rec'.deleted /\ at' = "token"
    BY <1>4, <2>1, TypedParts DEF DeletesEmail, Records, Go
  <2> QED BY <1>1, <2>1, <2>2
          DEF Placed, FullSuccessIsUsable, Entry, Profiling, Mailing, Reauth
<1>5. CASE ExtractsToken
  <2>1. ~form.reauth /\ rec.stored /\ rec.deleted BY <1>5 DEF ExtractsToken, Placed
  <2>2. CASE at' = "plan" /\ rec' = [rec EXCEPT !.token = TRUE]
    <3>1. rec'.stored /\ rec'.deleted /\ rec'.token
      BY <2>1, <2>2, TypedParts DEF Records
    <3> QED BY <1>1, <2>1, <2>2, <3>1
            DEF Placed, FullSuccessIsUsable, Entry, Profiling, Mailing, Reauth
  <2>3. CASE at' = "ok" /\ \E t \in BOOLEAN : rec' = [rec EXCEPT !.token = t, !.tokenError = TRUE]
    <3>1. rec'.stored /\ rec'.deleted /\ rec'.tokenError
      BY <2>1, <2>3, TypedParts DEF Records
    <3> QED BY <1>1, <2>1, <2>3, <3>1
            DEF Placed, FullSuccessIsUsable, Entry, Profiling, Mailing, Reauth
  <2> QED BY <1>5, <2>2, <2>3 DEF ExtractsToken, Go
<1> QED BY <1>2, <1>3, <1>4, <1>5 DEF StoresAccount, DeletesEmail, Go, Failed

LEMMA TotpPlaced ==
  ASSUME Typed, Placed, SiteGrows,
         BeginsTotp \/ TotpWaitEnds \/ RefreshesToken \/ EnrollsTotp \/ StoresTotp
  PROVE  Placed'
<1>1. form'.reauth = form.reauth
  <2>1. CASE form' = form BY <2>1
  <2> QED BY <2>1, BeginsTotpForm, FormReauth
          DEF TotpWaitEnds, RefreshesToken, EnrollsTotp, StoresTotp, TotpAsked, FormSays
<1>2. CASE Raises("fatal") BY <1>1, <1>2, RaisesPlaced DEF Failed
<1>3. CASE BeginsTotp
  <2>1. at = "totp" BY <1>3 DEF BeginsTotp
  <2> QED BY <1>1, <1>2, <1>3, <2>1, BeginsTotpForm, SamePlaced DEF Reauth
<1>4. CASE TotpWaitEnds
  <2>1. at = "totpWait" /\ (Raises("fatal") \/ (at' = "mail" /\ rec' = rec))
    BY <1>4 DEF TotpWaitEnds, Go
  <2> QED BY <1>1, <1>2, <2>1, SamePlaced DEF Reauth, Mailing
<1>5. CASE RefreshesToken
  <2>1. at = "session" /\ (Raises("fatal") \/ (at' = "enroll" /\ rec' = rec))
    BY <1>5 DEF RefreshesToken, Go
  <2> QED BY <1>1, <1>2, <2>1, SamePlaced DEF Reauth
<1>6. CASE EnrollsTotp
  <2>1. at = "enroll" /\ (Raises("fatal") \/ (at' = "totpStore" /\ rec' = rec))
    BY <1>6 DEF EnrollsTotp, Go
  <2> QED BY <1>1, <1>2, <1>6, <2>1, EnrollsTotpSite, SamePlaced
<1>7. CASE StoresTotp /\ ~Raises("fatal")
  <2>1. at = "totpStore" /\ at' = "ok" /\ rec' = [rec EXCEPT !.secret = TRUE] /\ svc' = svc
    BY <1>7 DEF StoresTotp, Go, site
  <2>2. /\ rec'.secret /\ rec'.stored = rec.stored /\ rec'.deleted = rec.deleted
        /\ rec'.token = rec.token
    BY <2>1, TypedParts DEF Records
  <2> QED BY <1>1, <2>1, <2>2
          DEF Placed, FullSuccessIsUsable, Entry, Profiling, Mailing, Reauth
<1> QED BY <1>2, <1>3, <1>4, <1>5, <1>6, <1>7

LEMMA AccountPlaced ==
  ASSUME Typed, Placed, SiteGrows, AccountSteps
  PROVE  Placed'
<1>1. CASE \/ FillsName \/ FillsAge \/ SubmitsProfile \/ ProfileTriesAgain
           \/ ResubmitsProfile \/ ProfileWaitEnds
  <2>1. form'.reauth = form.reauth
    <3>1. CASE form' = form BY <3>1
    <3> QED BY <1>1, <3>1, ClickingForms, TriesAgainForms, FormReauth DEF FillsName, FillsAge
  <2>2. at \in Profiling /\ at' \in Profiling \cup Failed /\ rec' = rec
    BY <1>1 DEF FillsName, FillsAge, SubmitsProfile, ProfileTriesAgain, ResubmitsProfile,
       ProfileWaitEnds, TriesAgain, Go, Profiling, Failed
  <2> QED BY <2>1, <2>2, SamePlaced DEF Before
<1>2. CASE ReadsPlan \/ ReadsCheckoutType
  <2>1. /\ ~form.reauth /\ rec.stored /\ rec.deleted /\ rec.token /\ rec' = rec
        /\ at \in {"plan", "checkout"}
    BY <1>2 DEF ReadsPlan, ReadsCheckoutType, Placed
  <2>2. CASE FormKept /\ at' = "checkout"
    BY <2>1, <2>2, FormReauth, SamePlaced
  <2>3. ASSUME NEW wanted \in BOOLEAN, Wanted(wanted) PROVE Placed'
    <3>1. form'.reauth = wanted /\ at' = IF wanted THEN "totp" ELSE "ok"
      BY <2>3 DEF Wanted, FormSays
    <3> QED BY <2>1, <3>1
            DEF Placed, FullSuccessIsUsable, Entry, Profiling, Mailing, Reauth
  <2> QED BY <1>2, <2>2, <2>3, PlanForm
<1> QED BY <1>1, <1>2, StoringPlaced, TotpPlaced DEF AccountSteps

LEMMA PlacedNext ==
  ASSUME Typed, Placed, [Next]_vars
  PROVE  Placed'
<1>1. SiteGrows BY SiteNext
<1>2. CASE EmailSteps \/ CodeSteps \/ AccountSteps
  BY <1>1, <1>2, EmailPlaced, CodePlaced, AccountPlaced
<1>3. CASE StartsAttempt
  <2>1. ~form'.reauth /\ at' = "baseline" /\ ~rec'.stored
    BY <1>3, AttemptForm DEF StartsAttempt, FormSays
  <2> QED BY <2>1 DEF Placed, FullSuccessIsUsable, Entry, Profiling, Mailing, Reauth
<1>4. CASE BreaksOff \/ SiteAnswers \/ LoginResets \/ MailArrives \/ UNCHANGED vars
  <2>1. form' = form /\ rec' = rec /\ (at' = at \/ at' = "fatal")
    BY <1>4 DEF BreaksOff, SiteAnswers, LoginResets, MailArrives, vars, Go
  <2> QED BY <1>1, <2>1, SamePlaced DEF Failed
<1> QED BY <1>2, <1>3, <1>4 DEF Next, Done

----------------------------------------------------------------------------
(* What the site has                                                       *)

LEMMA AfterEmailSays ==
  ASSUME NEW step
  PROVE  /\ AfterEmail(step) \in {"pwd", "switch", "mail", "fatal"}
         /\ AfterEmail(step) \in {"pwd", "switch"} => step = "password"
         /\ AfterEmail(step) \in {"switch", "mail"} => ~opts.password
  BY DEF AfterEmail

LEMMA EmailGoes ==
  ASSUME Typed, EmailSteps
  PROVE  /\ at \in Entry \ {"off"} /\ at' \in Failed \cup (Entry \ {"off"}) \cup {"mail"}
         /\ rec' = rec
         /\ at' \in {"switch", "mail"} => ~opts.password
         /\ at' \in {"pwd", "switch"} =>
              /\ page' = page /\ pend' = pend /\ page \in {"create", "password"}
<1>1. CASE RouteDecides \/ FormIsGone \/ SeesNextStep
  <2>1. PICK step : /\ step = "password" => page \in {"create", "password"}
                    /\ \/ at' = AfterEmail(step)
                       \/ at' \in {"fatal", "ready"}
    BY <1>1 DEF RouteDecides, FormIsGone, SeesNextStep, NextStep, Go
  <2>2. at \in Entry \ {"off"} /\ UNCHANGED site /\ rec' = rec
    BY <1>1 DEF RouteDecides, FormIsGone, SeesNextStep, Entry
  <2> QED BY <2>1, <2>2, AfterEmailSays DEF site, Entry, Failed
<1>2. CASE ~(RouteDecides \/ FormIsGone \/ SeesNextStep)
  BY <1>2 DEF EmailSteps, ReadsBaseline, ChecksExit, OpensRegistration, RouteClicks,
     FormIsUnstable, FillsEmail, EmailIsReset, ClicksEmail, ClickEnds,
     EmailTriesAgain, EmailIsRefused, Reconciles, EmailWaitEnds, TriesAgain,
     HasNoPage, FillsAgain, Go, Entry, Failed
<1> QED BY <1>1, <1>2

LEMMA EmailSite ==
  ASSUME Typed, EmailSteps
  PROVE  SiteStays
  BY OpensRegistrationSite, ClickingSites, QuietSites DEF EmailSteps

LEMMA CodeSite ==
  ASSUME Typed, CodeSteps
  PROVE  SiteStays \/ SubmitsPassword
  BY ReloadsCodeSite, ClickingSites, QuietSites DEF CodeSteps

LEMMA AccountSite ==
  ASSUME Typed, AccountSteps
  PROVE  SiteStays \/ ExtractsToken \/ ReadsPlan
  BY BeginsTotpSite, EnrollsTotpSite, ClickingSites, QuietSites DEF AccountSteps

(* The account that is complete stays so, with the password it has; only   *)
(* the page that creates an account sets one.                              *)
Creates ==
  /\ at = "pwd" /\ page = "create" /\ page' = page /\ pend' = "code" /\ at' = "pwdWait"
  /\ rec' = rec /\ svc'.password = form.try

LEMMA SiteChanges ==
  ASSUME Typed, Placed, StoredAccountExists, [Next]_vars
  PROVE  SiteStays \/ Creates
<1>1. CASE EmailSteps BY <1>1, EmailSite
<1>2. CASE SubmitsPassword
  BY <1>2, SubmitsPasswordSite DEF SubmitsPassword, Creates, Raises
<1>3. CASE ExtractsToken \/ ReadsPlan
  <2>1. svc.account = "complete"
    BY <1>3 DEF ExtractsToken, ReadsPlan, Placed, StoredAccountExists
  <2> QED BY <1>3, <2>1, TokenSites DEF SiteStays, SiteKeeps, HomeIsComplete
<1>4. CASE CodeSteps \/ AccountSteps BY <1>2, <1>3, <1>4, CodeSite, AccountSite
<1>5. CASE StartsAttempt \/ BreaksOff \/ SiteAnswers \/ LoginResets \/ MailArrives
  BY <1>5, QuietSites
<1>6. CASE UNCHANGED vars
  BY <1>6, SiteUnchanged DEF vars, site, SiteStays, HomeIsComplete
<1> QED BY <1>1, <1>4, <1>5, <1>6 DEF Next, Done

LEMMA TryNext ==
  ASSUME Typed, [Next]_vars
  PROVE  StartsAttempt \/ form'.try = form.try
<1>1. CASE UNCHANGED form BY <1>1
<1>2. CASE EmailSteps
  BY <1>1, <1>2, BaselineForm, OpensRegistrationForm, EntryForms, ClicksEmailForm
     DEF EmailSteps, ChecksExit, RouteDecides, FormIsGone, FormIsUnstable, FillsEmail,
         SeesNextStep, EmailIsRefused, FormSays, FormKept, FormAsks, FormGoes
<1>3. CASE CodeSteps
  BY <1>1, <1>3, PasswordForm, PollsMailForm, ClickingForms, TriesAgainForms, CodeWaitEndsForm
     DEF CodeSteps, PasswordWaitEnds, GivesUpOnMail, FormSays, FormKept, FormAsks, FormClicks,
         FormGoes
<1>4. CASE AccountSteps
  BY <1>1, <1>4, ClickingForms, TriesAgainForms, PlanForm, BeginsTotpForm
     DEF AccountSteps, FillsName, FillsAge, StoresAccount, DeletesEmail, ExtractsToken,
         TotpWaitEnds, RefreshesToken, EnrollsTotp, StoresTotp, FormSays, FormKept, FormClicks,
         FormGoes, Wanted, TotpAsked
<1>5. CASE BreaksOff \/ SiteAnswers \/ LoginResets \/ MailArrives
  BY <1>1, <1>5 DEF BreaksOff, SiteAnswers, LoginResets, MailArrives
<1> QED BY <1>1, <1>2, <1>3, <1>4, <1>5 DEF Next, Done, vars

RecordSame == rec'.stored = rec.stored /\ rec'.password = rec.password

LEMMA RaisesSame ==
  ASSUME Typed, NEW error, Raises(error)
  PROVE  RecordSame
  BY TypedParts DEF Raises, RecordSame, Records

LEMMA RecordStays ==
  ASSUME Typed, [Next]_vars
  PROVE  RecordSame \/ (StoresAccount /\ at' = "delete")
<1>1. CASE rec' = rec BY <1>1 DEF RecordSame
<1>2. CASE Raises("fatal") \/ Raises("transient") BY <1>2, RaisesSame
<1>3. CASE StoresAccount BY <1>1, <1>3 DEF StoresAccount, Go
<1>4. CASE DeletesEmail BY <1>1, <1>4, TypedParts DEF DeletesEmail, Records, RecordSame
<1>5. CASE ExtractsToken
  <2>1. ASSUME NEW t \in BOOLEAN, rec' = [rec EXCEPT !.token = t, !.tokenError = TRUE]
        PROVE  RecordSame
    BY <2>1, TypedParts DEF Records, RecordSame
  <2>2. CASE rec' = [rec EXCEPT !.token = TRUE]
    BY <2>2, TypedParts DEF Records, RecordSame
  <2> QED BY <1>5, <2>1, <2>2 DEF ExtractsToken
<1>6. CASE StoresTotp
  BY <1>2, <1>6, TypedParts DEF StoresTotp, Records, RecordSame
<1>7. CASE EmailSteps BY <1>1, <1>7, EmailGoes
<1>8. CASE CodeSteps
  BY <1>1, <1>2, <1>8, CodeWaitEndsForm
     DEF CodeSteps, SubmitsPassword, SwitchesToCode, PasswordWaitEnds, PollsMail, GivesUpOnMail,
         SubmitsCode, CodeTriesAgain, ReloadsCode, TriesAgain
<1>9. CASE AccountSteps
  BY <1>1, <1>2, <1>3, <1>4, <1>5, <1>6, <1>9
     DEF AccountSteps, FillsName, FillsAge, SubmitsProfile, ProfileTriesAgain, ResubmitsProfile,
         ProfileWaitEnds, ReadsPlan, ReadsCheckoutType, BeginsTotp, TotpWaitEnds,
         RefreshesToken, EnrollsTotp, TriesAgain
<1> QED BY <1>1, <1>7, <1>8, <1>9
        DEF Next, Done, vars, StartsAttempt, BreaksOff, SiteAnswers, LoginResets, MailArrives

LEMMA HomeNext ==
  ASSUME HomeIsComplete, SiteStays \/ Creates
  PROVE  HomeIsComplete'
  BY DEF SiteStays, Creates, HomeIsComplete

LEMMA StoreIsReached ==
  ASSUME Typed, [Next]_vars, at' = "store"
  PROVE  svc' = svc /\ (at = "store" \/ page = "home")
<1>1. CASE EmailSteps
  <2>1. at' \in Failed \cup Entry \cup {"mail"} BY <1>1, EmailGoes
  <2> QED BY <2>1 DEF Failed, Entry
<1>2. CASE CodeSteps
  <2>1. at' # "store"
    BY <1>2 DEF CodeSteps, SubmitsPassword, SwitchesToCode, PasswordWaitEnds, PollsMail,
       GivesUpOnMail, SubmitsCode, CodeTriesAgain, TriesAgain, CodeWaitEnds, ReloadsCode,
       Raises, Go
  <2> QED BY <2>1
<1>3. CASE AccountSteps
  BY <1>3 DEF AccountSteps, FillsName, FillsAge, SubmitsProfile, ProfileTriesAgain, TriesAgain,
     ResubmitsProfile, ProfileWaitEnds, StoresAccount, DeletesEmail, ExtractsToken, ReadsPlan,
     ReadsCheckoutType, Continues, BeginsTotp, TotpWaitEnds, RefreshesToken, EnrollsTotp,
     StoresTotp, Raises, Go, Home, site
<1> QED
  BY <1>1, <1>2, <1>3
     DEF Next, Done, StartsAttempt, BreaksOff, SiteAnswers, LoginResets, MailArrives, vars, site,
         Go

LEMMA StoredNext ==
  ASSUME Typed, Placed, StoredAccountExists, PasswordIsSet,
         at = "store" => svc.account = "complete",
         SiteStays \/ Creates, [Next]_vars
  PROVE  StoredAccountExists'
<1>1. CASE Creates
  <2>1. ~rec'.stored BY <1>1 DEF Creates, Placed, Entry
  <2> QED BY <2>1 DEF StoredAccountExists
<1>2. CASE SiteStays /\ RecordSame
  BY <1>2 DEF SiteStays, SiteKeeps, RecordSame, StoredAccountExists
<1>3. CASE StoresAccount /\ at' = "delete"
  <2>1. svc.account = "complete" /\ svc' = svc /\ ~rec.stored
    BY <1>3 DEF StoresAccount, site, Placed, Profiling
  <2>2. rec'.password = IF opts.password THEN form.try ELSE NoPassword
    <3>1. rec' = [rec EXCEPT !.stored = TRUE,
                             !.password = IF opts.password THEN form.try ELSE NoPassword]
      BY <1>3 DEF StoresAccount, Go
    <3> QED BY <3>1, TypedParts DEF Records
  <2>3. opts.password => svc.password = form.try
    BY <1>3, <2>1 DEF StoresAccount, PasswordIsSet, Profiling
  <2> QED BY <2>1, <2>2, <2>3 DEF StoredAccountExists
<1> QED BY <1>1, <1>2, <1>3, RecordStays

(* The page that asks for a password is the answer to the last click: a    *)
(* click is made on another page.                                          *)
LEMMA EmailAnswering ==
  ASSUME Typed, Answering, EmailSteps
  PROVE  Answering'
<1>1. opts' = opts BY BoxNext DEF Next
<1>2. at \in Entry /\ (at' \in {"pwd", "switch"} =>
                         page' = page /\ pend' = pend /\ page \in {"create", "password"})
      /\ (at' = "switch" => ~opts.password)
  BY EmailGoes
<1>3. page' \in {"create", "password"} => pend' = "nothing"
  <2>1. CASE UNCHANGED <<page, pend>> BY <1>2, <2>1 DEF Answering
  <2>2. CASE OpensRegistration BY <1>2, <2>1, <2>2, OpensRegistrationSite DEF Answering
  <2>3. CASE RouteClicks \/ ClicksEmail \/ EmailTriesAgain
    <3>1. page' = page /\ page \in {"code", "filled", "retry"}
      BY <2>3, ClickingSites DEF RouteClicks, ClicksEmail, EmailTriesAgain, TriesAgain
    <3> QED BY <3>1
  <2>4. CASE FillsEmail \/ EmailWaitEnds
    <3>1. page' \in {"filled", "login"} \/ UNCHANGED <<page, pend>>
      BY <2>4 DEF FillsEmail, EmailWaitEnds, Shows, site
    <3> QED BY <2>1, <3>1
  <2>5. CASE \/ ReadsBaseline \/ ChecksExit \/ RouteDecides \/ FormIsGone \/ FormIsUnstable
             \/ EmailIsReset \/ ClickEnds \/ SeesNextStep \/ EmailIsRefused \/ Reconciles
    BY <2>1, <2>5 DEF ReadsBaseline, ChecksExit, RouteDecides, FormIsGone, FormIsUnstable,
       EmailIsReset, ClickEnds, SeesNextStep, EmailIsRefused, Reconciles, site
  <2> QED BY <2>2, <2>3, <2>4, <2>5 DEF EmailSteps
<1> QED BY <1>1, <1>2, <1>3 DEF Answering

LEMMA AnsweringNext ==
  ASSUME Typed, Answering, [Next]_vars
  PROVE  Answering'
<1>1. CASE EmailSteps BY <1>1, EmailAnswering
<1>2. CASE at' \notin Entry
  BY <1>2 DEF Answering, Entry
<1>3. CASE CodeSteps
  <2>1. at' \notin Entry
    BY <1>3 DEF CodeSteps, SubmitsPassword, SwitchesToCode, PasswordWaitEnds, PollsMail,
       GivesUpOnMail, SubmitsCode, CodeTriesAgain, TriesAgain, CodeWaitEnds, ReloadsCode,
       Raises, Go, Entry
  <2> QED BY <1>2, <2>1
<1>4. CASE AccountSteps
  <2>1. at' \notin Entry
    BY <1>4 DEF AccountSteps, FillsName, FillsAge, SubmitsProfile, ProfileTriesAgain, TriesAgain,
       ResubmitsProfile, ProfileWaitEnds, StoresAccount, DeletesEmail, ExtractsToken, ReadsPlan,
       ReadsCheckoutType, Continues, BeginsTotp, TotpWaitEnds, RefreshesToken, EnrollsTotp,
       StoresTotp, Raises, Go, Entry
  <2> QED BY <1>2, <2>1
<1>5. CASE StartsAttempt
  BY <1>5 DEF StartsAttempt, Shows, Go, Answering
<1>6. CASE BreaksOff BY <1>2, <1>6 DEF BreaksOff, Go, Entry
<1>7. CASE SiteAnswers
  BY <1>7 DEF SiteAnswers, Shows, Answering, Entry
<1>8. CASE LoginResets
  BY <1>8 DEF LoginResets, Answering
<1>9. CASE MailArrives \/ UNCHANGED vars
  <2>1. UNCHANGED <<opts, at, page, pend>> BY <1>9 DEF MailArrives, vars, site
  <2> QED BY <2>1 DEF Answering
<1> QED BY <1>1, <1>3, <1>4, <1>5, <1>6, <1>7, <1>8, <1>9 DEF Next, Done

(* Where a password page was answered, nobody gets past it otherwise.      *)
LEMMA AnsweredWait ==
  ASSUME Typed, Answering, SubmitsPassword \/ SwitchesToCode, at' = "pwdWait", opts.password
  PROVE  Creates \/ ~(page' = "code" \/ pend' = "code")
<1>1. SubmitsPassword BY DEF SwitchesToCode, Answering
<1>2. at = "pwd" /\ rec' = rec BY <1>1 DEF SubmitsPassword, Raises
<1>3. page \in {"create", "password"} /\ pend = "nothing" BY <1>2 DEF Answering, Entry
<1> QED BY <1>1, <1>2, <1>3, SubmitsPasswordSite DEF Creates, TroublePages

LEMMA PasswordNext ==
  ASSUME Typed, Placed, Answering, PasswordIsSet, SiteStays \/ Creates, [Next]_vars
  PROVE  PasswordIsSet'
<1>1. opts' = opts BY BoxNext
<1> SUFFICES ASSUME opts.password, ~rec'.stored
             PROVE  /\ at' \in Mailing \cup Profiling => svc'.password = form'.try
                    /\ at' = "pwdWait" /\ (page' = "code" \/ pend' = "code") =>
                         svc'.password = form'.try
  BY <1>1 DEF PasswordIsSet
<1>2. ~rec.stored
  <2>1. CASE RecordSame BY <2>1 DEF RecordSame
  <2>2. CASE StoresAccount BY <2>2 DEF StoresAccount, Placed, Profiling
  <2> QED BY <2>1, <2>2, RecordStays
<1>3. CASE StartsAttempt BY <1>3, AttemptForm DEF Mailing, Profiling
<1>4. CASE Creates
  <2>1. at' = "pwdWait" /\ svc'.password = form.try /\ ~StartsAttempt
    BY <1>4 DEF Creates, StartsAttempt
  <2> QED BY <2>1, TryNext
<1>5. CASE SiteStays /\ form'.try = form.try /\ at \in Mailing \cup Profiling
           /\ at' # "pwdWait"
  BY <1>2, <1>5 DEF PasswordIsSet, SiteStays, SiteKeeps
<1>6. CASE at' \notin Mailing \cup Profiling \cup {"pwdWait"} BY <1>6
<1>7. CASE EmailSteps
  <2>1. at' \in Failed \cup Entry BY <1>7, EmailGoes
  <2> QED BY <1>6, <2>1 DEF Failed, Entry, Mailing, Profiling
<1>8. CASE CodeSteps /\ SiteStays /\ form'.try = form.try
  <2>1. CASE SubmitsPassword \/ SwitchesToCode
    <3>1. at' \in {"pwdWait", "fatal", "ok"}
      BY <2>1 DEF SubmitsPassword, SwitchesToCode, Raises, Go
    <3> QED BY <1>4, <1>6, <2>1, <3>1, AnsweredWait DEF Mailing, Profiling
  <2>2. CASE PasswordWaitEnds
    <3>1. at = "pwdWait" /\ (at' = "fatal" \/ (at' = "mail" /\ page = "code"))
      BY <2>2 DEF PasswordWaitEnds, Go
    <3> QED BY <1>2, <1>6, <1>8, <3>1
            DEF PasswordIsSet, SiteStays, SiteKeeps, Mailing, Profiling
  <2>3. CASE ~(SubmitsPassword \/ SwitchesToCode \/ PasswordWaitEnds)
    <3>1. at \in Mailing /\ at' # "pwdWait"
      BY <1>8, <2>3 DEF CodeSteps, PollsMail, GivesUpOnMail, SubmitsCode, CodeTriesAgain,
         TriesAgain, CodeWaitEnds, ReloadsCode, Raises, Go, Mailing
    <3> QED BY <1>5, <1>8, <3>1
  <2> QED BY <2>1, <2>2, <2>3
<1>9. CASE AccountSteps /\ SiteStays /\ form'.try = form.try
  <2>1. \/ at \in Profiling /\ at' # "pwdWait"
        \/ at \in {"delete", "token", "plan", "checkout"} \cup Reauth
    BY <1>9 DEF AccountSteps, FillsName, FillsAge, SubmitsProfile, ProfileTriesAgain, TriesAgain,
       ResubmitsProfile, ProfileWaitEnds, StoresAccount, DeletesEmail, ExtractsToken, ReadsPlan,
       ReadsCheckoutType, BeginsTotp, TotpWaitEnds, RefreshesToken, EnrollsTotp,
       StoresTotp, Go, Profiling, Reauth
  <2> QED BY <1>2, <1>5, <1>9, <2>1 DEF Placed
<1>10. CASE SiteStays /\ form'.try = form.try
            /\ (BreaksOff \/ SiteAnswers \/ LoginResets \/ MailArrives \/ UNCHANGED vars)
  <2>1. CASE BreaksOff BY <1>6, <2>1 DEF BreaksOff, Go, Mailing, Profiling
  <2>2. CASE SiteAnswers \/ LoginResets \/ MailArrives \/ UNCHANGED vars
    <3>1. at' = at /\ (page' = "code" \/ pend' = "code" => page = "code" \/ pend = "code")
      BY <2>2 DEF SiteAnswers, LoginResets, MailArrives, vars, site, Shows
    <3> QED BY <1>2, <1>10, <3>1 DEF PasswordIsSet, SiteStays, SiteKeeps
  <2> QED BY <1>10, <2>1, <2>2
<1> QED BY <1>3, <1>4, <1>7, <1>8, <1>9, <1>10, TryNext DEF Next, Done

LEMMA AccountsNext ==
  ASSUME Typed, Placed, Accounts, [Next]_vars
  PROVE  Accounts'
<1>1. SiteStays \/ Creates BY SiteChanges DEF Accounts
<1>2. HomeIsComplete' BY <1>1, HomeNext DEF Accounts
<1>3. Answering' BY AnsweringNext DEF Accounts
<1>4. PasswordIsSet' BY <1>1, PasswordNext DEF Accounts
<1>5. ASSUME at' = "store" PROVE svc'.account = "complete"
  BY <1>5, StoreIsReached DEF Accounts, HomeIsComplete
<1>6. StoredAccountExists' BY <1>1, StoredNext DEF Accounts
<1> QED BY <1>2, <1>3, <1>4, <1>5, <1>6 DEF Accounts

----------------------------------------------------------------------------
(* The invariant, and what it shows                                        *)

LEMMA InitIInv ==
  ASSUME Init
  PROVE  IInv
<1>1. Typed BY TypedInit
<1>2. /\ at = "off" /\ form = NewForm(0) /\ rec = NoRecord /\ page = "blank"
      /\ pend = "nothing" /\ svc.sent = 0 /\ box = [arrived |-> {}, newest |-> 0]
  BY DEF Init
<1>3. FormSays(form, 0, 0, 0, 0, {}, 0, 0, FALSE)
  <2>1. FormSays(NewForm(0), 0, 0, 0, 0, {}, 0, 0, FALSE) BY NewFormSays
  <2> QED BY <1>2, <2>1
<1>4. /\ form.start = 0 /\ form.code = 0 /\ form.seen = {} /\ form.base = 0
      /\ form.clicks = 0 /\ ~form.reauth
  BY <1>3 DEF FormSays
<1>5. ~rec.stored BY <1>2 DEF NoRecord
<1>6. box.newest = 0 /\ box.arrived = {} BY <1>2
<1>7. Codes BY <1>2, <1>4, <1>6 DEF Codes, FreshCode, Uncoded, AskedAt
<1>8. Placed
  BY <1>2, <1>4, <1>5 DEF Placed, FullSuccessIsUsable, Entry, Profiling, Mailing, Reauth
<1>9. Accounts
  BY <1>2, <1>5 DEF Accounts, HomeIsComplete, Answering, PasswordIsSet, StoredAccountExists,
     Mailing, Profiling
<1> QED BY <1>1, <1>7, <1>8, <1>9 DEF IInv

LEMMA NextIInv ==
  ASSUME IInv, [Next]_vars
  PROVE  IInv'
<1>1. Typed' BY TypedNext DEF IInv
<1>2. Codes' BY <1>1, CodesNext DEF IInv
<1>3. Placed' BY PlacedNext DEF IInv
<1>4. Accounts' BY AccountsNext DEF IInv
<1> QED BY <1>1, <1>2, <1>3, <1>4 DEF IInv

LEMMA Invariance == Spec => []IInv
<1>1. Init => IInv BY InitIInv
<1>2. IInv /\ [Next]_vars => IInv' BY NextIInv
<1> QED BY <1>1, <1>2, PTL DEF Spec

(* A dated code that is typed was sent since the attempt began or is the    *)
(* last one sent before its request; an undated one was not in the mailbox *)
(* at the baseline.                                                         *)
THEOREM TypedCodeIsFresh == Spec => []FreshCode
<1>1. IInv => FreshCode BY DEF IInv, Codes
<1> QED BY <1>1, Invariance, PTL

(* A stored account is complete at the site and has the stored password:   *)
(* no lost click, late page or earlier attempt makes it another one.       *)
THEOREM StoredAccountIsReal == Spec => []StoredAccountExists
<1>1. IInv => StoredAccountExists BY DEF IInv, Accounts
<1> QED BY <1>1, Invariance, PTL

(* An attempt that tells of no error leaves an account with its token and, *)
(* when a second factor was asked for, with the secret that is active.     *)
THEOREM SuccessIsUsable == Spec => []FullSuccessIsUsable
<1>1. IInv => FullSuccessIsUsable BY DEF IInv, Placed
<1> QED BY <1>1, Invariance, PTL

----------------------------------------------------------------------------
(* What the worker relies on                                               *)

LEMMA AccountGoes ==
  ASSUME AccountSteps
  PROVE  at \in Working /\ at' \notin {"off", "proxy", "transient"}
  BY DEF AccountSteps, FillsName, FillsAge, SubmitsProfile, ProfileTriesAgain, TriesAgain,
     ResubmitsProfile, ProfileWaitEnds, StoresAccount, DeletesEmail, ExtractsToken, ReadsPlan,
     ReadsCheckoutType, Continues, BeginsTotp, TotpWaitEnds, RefreshesToken, EnrollsTotp,
     StoresTotp, Raises, Go, Working, Steps, Waits

LEMMA CodeGoes ==
  ASSUME CodeSteps
  PROVE  /\ at \in {"pwd", "switch", "pwdWait"} \cup Mailing /\ at' \notin {"off", "proxy"}
         /\ at' = "transient" => rec' = rec /\ ~form.reauth
  BY DEF CodeSteps, SubmitsPassword, SwitchesToCode, PasswordWaitEnds, PollsMail, GivesUpOnMail,
     SubmitsCode, CodeTriesAgain, TriesAgain, CodeWaitEnds, ReloadsCode, Raises, Go, Mailing

(* An attempt that ends with an error that is tried again stored nothing.  *)
LEMMA TriedAgainUnstored ==
  ASSUME Typed, Placed, EmailSteps \/ CodeSteps \/ AccountSteps \/ BreaksOff
  PROVE  /\ at \in Working /\ at' # "off"
         /\ at' \in {"proxy", "transient"} => ~rec.stored
<1>1. CASE EmailSteps
  BY <1>1, EmailGoes DEF Placed, Entry, Failed, Working, Steps, Waits
<1>2. CASE CodeSteps
  <2>1. at \in Working /\ at' # "off"
    BY <1>2, CodeGoes DEF Mailing, Working, Steps, Waits
  <2>2. at' \in {"proxy", "transient"} => ~rec.stored
    BY <1>2, CodeGoes DEF Placed, Entry
  <2> QED BY <2>1, <2>2
<1>3. CASE AccountSteps BY <1>3, AccountGoes
<1>4. CASE BreaksOff BY <1>4 DEF BreaksOff, Go
<1> QED BY <1>1, <1>2, <1>3, <1>4

LEMMA DeletionStays ==
  ASSUME Typed, [Next]_vars
  PROVE  \/ rec'.deleted = rec.deleted
         \/ at = "delete" /\ at' = "token" /\ rec'.deleted /\ rec'.stored = rec.stored
<1>1. CASE rec' = rec BY <1>1
<1>2. CASE Raises("fatal") \/ Raises("transient")
  BY <1>2, TypedParts DEF Raises, Records
<1>3. CASE StoresAccount
  <2>1. ASSUME NEW p \in Int, rec' = [rec EXCEPT !.stored = TRUE, !.password = p]
        PROVE  rec'.deleted = rec.deleted
    BY <2>1, TypedParts DEF Records
  <2>2. form.try \in Int /\ NoPassword \in Int BY TypedParts DEF NoPassword
  <2> QED BY <1>1, <1>3, <2>1, <2>2 DEF StoresAccount
<1>4. CASE DeletesEmail BY <1>1, <1>4, TypedParts DEF DeletesEmail, Records, Go
<1>5. CASE ExtractsToken
  <2>1. ASSUME NEW t \in BOOLEAN, rec' = [rec EXCEPT !.token = t, !.tokenError = TRUE]
        PROVE  rec'.deleted = rec.deleted
    BY <2>1, TypedParts DEF Records
  <2>2. CASE rec' = [rec EXCEPT !.token = TRUE]
    BY <2>2, TypedParts DEF Records
  <2> QED BY <1>5, <2>1, <2>2 DEF ExtractsToken
<1>6. CASE StoresTotp BY <1>2, <1>6, TypedParts DEF StoresTotp, Records
<1>7. CASE EmailSteps BY <1>1, <1>7, EmailGoes
<1>8. CASE CodeSteps
  BY <1>1, <1>2, <1>8, CodeWaitEndsForm
     DEF CodeSteps, SubmitsPassword, SwitchesToCode, PasswordWaitEnds, PollsMail, GivesUpOnMail,
         SubmitsCode, CodeTriesAgain, ReloadsCode, TriesAgain
<1>9. CASE AccountSteps
  BY <1>1, <1>2, <1>3, <1>4, <1>5, <1>6, <1>9
     DEF AccountSteps, FillsName, FillsAge, SubmitsProfile, ProfileTriesAgain, ResubmitsProfile,
         ProfileWaitEnds, ReadsPlan, ReadsCheckoutType, BeginsTotp, TotpWaitEnds,
         RefreshesToken, EnrollsTotp, TriesAgain
<1> QED BY <1>1, <1>7, <1>8, <1>9
        DEF Next, Done, vars, StartsAttempt, BreaksOff, SiteAnswers, LoginResets, MailArrives

LEMMA StepKeepsContract ==
  ASSUME IInv, [Next]_vars
  PROVE  [Contract!Next]_(Contract!vars)
<1>1. Typed /\ Placed /\ Typed' /\ Placed' BY NextIInv DEF IInv
<1>2. /\ rec.stored \in BOOLEAN /\ rec.deleted \in BOOLEAN
      /\ rec'.stored \in BOOLEAN /\ rec'.deleted \in BOOLEAN
  BY <1>1 DEF Typed, Records
<1>3. /\ Working \cap (Ended \cup {"off"}) = {}
      /\ Steps \cup Waits \cup Ended = Working \cup Ended \cup {"off"}
  BY DEF Working, Steps, Waits, Ended
<1>4. CASE StartsAttempt
  <2>1. /\ at \in {"off", "proxy", "transient", "fatal"} /\ at' = "baseline"
        /\ ~rec.stored /\ rec' = rec
    BY <1>4 DEF StartsAttempt, Go
  <2>2. at \notin Working /\ at' \in Working BY <1>3, <2>1 DEF Ended, Working, Steps
  <2>3. Contract!Starts BY <2>1, <2>2 DEF Contract!Starts
  <2> QED BY <2>3 DEF Contract!Next
<1>5. CASE EmailSteps \/ CodeSteps \/ AccountSteps \/ BreaksOff
  <2>1. at \in Working /\ at' # "off" /\ (at' \in {"proxy", "transient"} => ~rec.stored)
    BY <1>1, <1>5, TriedAgainUnstored
  <2>2. at' \in Working \/ at' \in Ended BY <1>1, <1>3, <2>1 DEF Typed
  <2>3. CASE StoresAccount /\ at' = "delete"
    <3>1. rec'.stored /\ at' \in Working
      BY <1>1, <2>3 DEF Placed, Working, Steps
    <3>2. rec'.deleted = rec.deleted BY <1>1, <2>3, DeletionStays
    <3>3. Contract!Stores BY <1>2, <2>1, <3>1, <3>2 DEF Contract!Stores
    <3> QED BY <3>3 DEF Contract!Next
  <2>4. CASE at = "delete" /\ at' = "token" /\ rec'.deleted /\ rec'.stored = rec.stored
    <3>1. rec.stored /\ at' \in Working BY <1>1, <2>4 DEF Placed, Working, Steps
    <3>2. Contract!Deletes BY <1>2, <2>1, <2>4, <3>1 DEF Contract!Deletes
    <3> QED BY <3>2 DEF Contract!Next
  <2>5. CASE rec'.stored = rec.stored /\ rec'.deleted = rec.deleted
    <3>1. CASE at' \in Working
      BY <2>1, <2>5, <3>1 DEF Contract!vars
    <3>2. CASE at' \in Ended
      <4>1. at' \notin Working BY <1>3, <3>2
      <4>2. at' = "ok" => rec.stored /\ rec.deleted BY <1>1, <2>5 DEF Placed
      <4>3. Contract!Ends
        BY <2>1, <2>5, <3>2, <4>1, <4>2 DEF Contract!Ends, Ended
      <4> QED BY <4>3 DEF Contract!Next
    <3> QED BY <2>2, <3>1, <3>2
  <2> QED BY <1>1, <2>3, <2>4, <2>5, RecordStays, DeletionStays DEF RecordSame
<1>6. CASE SiteAnswers \/ LoginResets \/ MailArrives \/ UNCHANGED vars
  BY <1>6 DEF SiteAnswers, LoginResets, MailArrives, vars, Contract!vars
<1> QED BY <1>4, <1>5, <1>6 DEF Next, Done

(* What BrowserProbeRunner.run relies on: an attempt stores the account    *)
(* before it deletes the address, ends well only after both, and never     *)
(* asks to be tried again once the account is stored.                      *)
THEOREM AttemptsKeepContract == Spec => KeepsContract
<1>1. Init => Contract!Init
  BY DEF Init, NoRecord, Contract!Init, Working
<1>2. IInv /\ [Next]_vars => [Contract!Next]_(Contract!vars) BY StepKeepsContract
<1> QED BY <1>1, <1>2, Invariance, PTL DEF Spec, KeepsContract, Contract!Spec
==============================================================================
