----------------------------- MODULE ResourceDesk -----------------------------
(* MongoResourceStore and ResourceService (resource_service.py) under concurrent *)
(* use: the pages import, create and delete e-mails, accounts and proxies; runs  *)
(* list, reserve and register e-mails; plan checks (plan_check_service.py) claim *)
(* accounts and lease proxies.  A step is one call of the database, which the    *)
(* calls of the others can come before or after.                                *)
EXTENDS MailDomain

CONSTANTS
    Runs,           \* the runs that register, with one e-mail each
    Checks,         \* the plan checks that can be in progress
    Proxies,
    Pool,           \* the addresses that can come to the service (bound)
    Stocked,        \* addresses that are in the pool at first
    Members         \* addresses that are registered at first, with a token

ASSUME DeskAssumption ==
    /\ Pool \subseteq Addresses
    /\ Stocked \subseteq Pool /\ Members \subseteq Pool
    /\ {"page", None} \cap Runs = {} /\ None \notin Checks

VARIABLES
    account,    \* the accounts, by address
    email,      \* the e-mails, by address
    proxy,      \* the proxies and their leases
    run,        \* where each run is
    check,      \* where each plan check is, and whether its lease ran over
    importer,   \* the import or sync in progress
    creator,    \* the page's POST /api/accounts in progress
    disturbed,  \* history: addresses the page has put back or taken under a run
    takenOver,  \* history: accounts whose claim was over five minutes old
    renewed,    \* history: accounts that got a new token during a check
    dropped     \* history: proxies the page deleted under a check

rows == <<account, email, proxy>>
desk == <<importer, creator>>
histories == <<disturbed, takenOver, renewed, dropped>>
deskVars == <<rows, run, check, desk, histories>>

NoAccount == [id |-> 0, present |-> FALSE, by |-> None, token |-> 0,
              configured |-> FALSE, bad |-> {}, plan |-> "none", aged |-> FALSE]
NoEmail == [id |-> 0, present |-> FALSE, by |-> None]
NoRun == [pc |-> "idle", registered |-> {}, candidates |-> {}, a |-> None,
          id |-> 0, found |-> FALSE]
NoCheck == [pc |-> "idle", a |-> None, id |-> 0, token |-> 0, p |-> None,
            lapsed |-> FALSE]

Registered == {a \in Pool : account[a].present}
Available(a) == email[a].present /\ email[a].by = None
Holds(r) == run[r].pc \in {"holds", "works", "registers"}
AtWork(c) == check[c].pc # "idle"
Asking(c) == check[c].pc \notin {"idle", "releases"}
Uses(c, p) == AtWork(c) /\ check[c].p = p

DeskInit ==
    /\ account = [a \in Pool |->
          IF a \in Members
          THEN [NoAccount EXCEPT !.id = 1, !.present = TRUE, !.by = "page",
                                 !.token = 1, !.configured = TRUE]
          ELSE NoAccount]
    /\ email = [a \in Pool |->
          IF a \in Stocked THEN Inserted(NoEmail) ELSE NoEmail]
    /\ proxy = [p \in Proxies |->
          [present |-> TRUE, enabled |-> TRUE, owner |-> None, over |-> FALSE]]
    /\ run = [r \in Runs |-> NoRun]
    /\ check = [c \in Checks |-> NoCheck]
    /\ importer = [todo |-> {}, at |-> None]
    /\ creator = [a |-> None, id |-> 0]
    /\ disturbed = {} /\ takenOver = {} /\ renewed = {}
    /\ dropped = {}

------------------------------------------------------------------------------
(* Rows.                                                                        *)

NewAccount(a, by) ==
    [account EXCEPT ![a] = [NoAccount EXCEPT !.id = account[a].id + 1,
                                             !.present = TRUE, !.by = by]]
(* $setOnInsert: an account that is there keeps what it has.                    *)
Upserted(a, by) == IF account[a].present THEN account ELSE NewAccount(a, by)

Freed(a) == [email EXCEPT ![a].by = None]
DeletedEmail(a) == [email EXCEPT ![a] = [Deleted(@) EXCEPT !.by = None]]
(* The run has the address, or may still take it from the list it has.          *)
Reaches(r, a) ==
    run[r].a = a \/ (run[r].pc \in {"lists", "tries"} /\ a \notin run[r].registered)
Owns(r) == Is(email[run[r].a], run[r].id) /\ email[run[r].a].by = r

------------------------------------------------------------------------------
(* A run: reserve_emails, get_reserved_email, complete_probe_profile_success.   *)

RunGoes(r, place) == run' = [run EXCEPT ![r].pc = place]
RunEnds(r) == run' = [run EXCEPT ![r] = NoRun]

(* _exclude_registered_accounts, which the query keeps from here on.            *)
StartRun(r) ==
    /\ Asks /\ run[r].pc = "idle"
    /\ run' = [run EXCEPT ![r].pc = "lists", ![r].registered = Registered]
    /\ UNCHANGED <<rows, check, desk, histories>>

Lists(r) ==
    /\ run[r].pc = "lists"
    /\ run' = [run EXCEPT ![r].pc = "tries",
          ![r].candidates = {<<a, email[a].id>> :
              a \in {b \in Pool \ run[r].registered : Available(b)}}]
    /\ UNCHANGED <<rows, check, desk, histories>>

(* Mutant: the reservation asks for the id alone.                               *)
TakesById(r, c) == Is(email[c[1]], c[2])

(* find_one_and_update with the same query and the candidate's id.              *)
Takes(r, c) ==
    Is(email[c[1]], c[2]) /\ Available(c[1]) /\ c[1] \notin run[r].registered

Tries(r, c) ==
    /\ run[r].pc = "tries"
    /\ IF Takes(r, c)
       THEN /\ email' = [email EXCEPT ![c[1]].by = r]
            /\ run' = [run EXCEPT ![r] = [NoRun EXCEPT !.pc = "holds",
                                          !.a = c[1], !.id = c[2]]]
       ELSE /\ run' = [run EXCEPT ![r].candidates = @ \ {c}]
            /\ UNCHANGED email
    /\ UNCHANGED <<account, proxy, check, desk, histories>>

(* Too few: what it did get is released (release_run_reservations).             *)
ComesShort(r) ==
    /\ run[r].pc = "tries" /\ run[r].candidates = {}
    /\ RunEnds(r)
    /\ email' = [a \in Pool |-> IF email[a].by = r
                                     THEN [email[a] EXCEPT !.by = None] ELSE email[a]]
    /\ UNCHANGED <<account, proxy, check, desk, histories>>

(* get_reserved_email: a reservation that is gone ends the slot.                *)
BeginsWork(r) ==
    /\ run[r].pc = "holds"
    /\ IF Owns(r) THEN RunGoes(r, "works") ELSE RunEnds(r)
    /\ UNCHANGED <<rows, check, desk, histories>>

Gives(r) ==
    /\ run[r].pc = "works"
    /\ email' = IF Owns(r) THEN Freed(run[r].a) ELSE email
    /\ RunEnds(r)
    /\ UNCHANGED <<account, proxy, check, desk, histories>>

Registers(r) ==
    /\ run[r].pc = "works"
    /\ account' = Upserted(run[r].a, r)
    /\ RunGoes(r, "registers")
    /\ UNCHANGED <<email, proxy, check, desk, histories>>

Consumes(r) ==
    /\ run[r].pc = "registers"
    /\ email' = IF Owns(r) THEN DeletedEmail(run[r].a) ELSE email
    /\ RunEnds(r)
    /\ UNCHANGED <<account, proxy, check, desk, histories>>

(* reconcile_run_reservations for a run that did not end by itself.             *)
Reconciles(r) ==
    /\ run[r].pc = "dead"
    /\ run' = IF Owns(r)
              THEN [run EXCEPT ![r].pc = "settles", ![r].found = account[run[r].a].present]
              ELSE [run EXCEPT ![r] = NoRun]
    /\ UNCHANGED <<rows, check, desk, histories>>

Settles(r) ==
    /\ run[r].pc = "settles"
    /\ email' = IF ~Owns(r) THEN email
                ELSE IF run[r].found THEN DeletedEmail(run[r].a) ELSE Freed(run[r].a)
    /\ RunEnds(r)
    /\ UNCHANGED <<account, proxy, check, desk, histories>>

------------------------------------------------------------------------------
(* The pages: e-mails and accounts.                                             *)

(* import_emails, sync_mailcom_aliases: line by line, a look and an upsert.     *)
Import(todo) ==
    /\ Asks /\ importer.todo = {} /\ importer.at = None
    /\ importer' = [importer EXCEPT !.todo = todo]
    /\ UNCHANGED <<rows, run, check, creator, histories>>

Looks(a) ==
    /\ importer.at = None /\ a \in importer.todo
    /\ importer' = [todo |-> importer.todo \ {a},
                    at |-> IF account[a].present THEN None ELSE a]
    /\ UNCHANGED <<rows, run, check, creator, histories>>

Upserts ==
    LET a == importer.at IN
    /\ a # None
    /\ importer' = [importer EXCEPT !.at = None]
    /\ IF email[a].present
       THEN UNCHANGED <<email, disturbed>>
       ELSE /\ email' = [email EXCEPT ![a] = Inserted(@)]
            /\ disturbed' = IF account[a].present THEN disturbed \cup {a} ELSE disturbed
    /\ UNCHANGED <<account, proxy, run, check, creator, takenOver, renewed, dropped>>

DeleteEmail(a) ==
    /\ Asks /\ email[a].present
    /\ email' = DeletedEmail(a)
    /\ disturbed' = IF email[a].by # None THEN disturbed \cup {a} ELSE disturbed
    /\ UNCHANGED <<account, proxy, run, check, desk, takenOver, renewed, dropped>>

(* create_account: the insert, then the e-mail it was made from, if it has one.  *)
CreateAccount(a) ==
    /\ Asks /\ creator.a = None
    /\ ~account[a].present
    /\ account' = NewAccount(a, "page")
    /\ \E id \in {0, email[a].id} : creator' = [a |-> a, id |-> id]
    /\ disturbed' = IF \E r \in Runs : Reaches(r, a)
                    THEN disturbed \cup {a} ELSE disturbed
    /\ UNCHANGED <<email, proxy, run, check, importer, takenOver, renewed, dropped>>

DeleteSource ==
    LET a == creator.a IN
    /\ a # None
    /\ creator' = [a |-> None, id |-> 0]
    /\ IF Is(email[a], creator.id)
       THEN /\ email' = DeletedEmail(a)
            /\ disturbed' = IF email[a].by # None THEN disturbed \cup {a} ELSE disturbed
       ELSE UNCHANGED <<email, disturbed>>
    /\ UNCHANGED <<account, proxy, run, check, importer, takenOver, renewed, dropped>>

DeleteAccounts(a) ==
    /\ Asks /\ account[a].present
    /\ account' = [account EXCEPT ![a] = [NoAccount EXCEPT !.id = account[a].id]]
    /\ UNCHANGED <<email, proxy, run, check, desk, histories>>

------------------------------------------------------------------------------
(* Plan checks and the proxies they use.                                        *)

CheckGoes(c, place) == check' = [check EXCEPT ![c].pc = place]
Answers == {"success", "bad", "error"}

(* claim_account_plan_check: a claim of over five minutes is taken over.        *)
Claimable(a) ==
    account[a].configured /\ (account[a].plan # "running" \/ account[a].aged)

Claims(c, a) ==
    /\ Asks /\ ~AtWork(c) /\ Claimable(a)
    /\ account' = [account EXCEPT ![a].plan = "running", ![a].aged = FALSE]
    /\ check' = [check EXCEPT ![c] = [NoCheck EXCEPT !.pc = "claimed", !.a = a,
                     !.id = account[a].id, !.token = account[a].token]]
    /\ takenOver' = IF account[a].plan = "running" THEN takenOver \cup {a} ELSE takenOver
    /\ UNCHANGED <<email, proxy, run, desk, disturbed, renewed, dropped>>

Free(p) == proxy[p].present /\ proxy[p].enabled /\ (proxy[p].owner = None \/ proxy[p].over)

Leases(c, p) ==
    /\ check[c].pc = "claimed" /\ Free(p)
    /\ proxy' = [proxy EXCEPT ![p].owner = c, ![p].over = FALSE]
    /\ check' = [check EXCEPT ![c].pc = "asks", ![c].p = p]
    /\ UNCHANGED <<account, email, run, desk, histories>>

(* Mutant: any failure takes the token for a bad one.                           *)
PlanStoredDistrustful(c, outcome) ==
    LET a == check[c].a IN
    IF Is(account[a], check[c].id)
    THEN [account EXCEPT ![a].plan = IF outcome = "success" THEN "success" ELSE "failed",
                         ![a].configured = @ /\ outcome = "success"]
    ELSE account

(* What a check writes of its account, when the row it claimed is still there.  *)
PlanStored(c, outcome) ==
    LET a == check[c].a IN
    IF Is(account[a], check[c].id)
    THEN [account EXCEPT ![a].plan = IF outcome = "success" THEN "success" ELSE "failed",
                         ![a].configured = @ /\ outcome # "bad"]
    ELSE account

NoProxy(c) ==
    /\ check[c].pc = "claimed" /\ \A p \in Proxies : ~Free(p)
    /\ account' = PlanStored(c, "error")
    /\ check' = [check EXCEPT ![c] = NoCheck]
    /\ UNCHANGED <<email, proxy, run, desk, histories>>

(* The check's answer.  A token is bad when the site refuses it, or when its own  *)
(* expiry has passed, for which the site is not asked (chatgpt_plan.py:225);     *)
(* either is for good.                                                          *)
Answered(c, outcome) ==
    LET a == check[c].a IN
    /\ check[c].pc = "asks"
    /\ CheckGoes(c, outcome)
    /\ account' = IF outcome = "bad" /\ Is(account[a], check[c].id)
                  THEN [account EXCEPT ![a].bad = @ \cup {check[c].token}]
                  ELSE account
    /\ UNCHANGED <<email, proxy, run, desk, histories>>

(* store_account_plan_result or store_account_plan_failure.                     *)
Stores(c) ==
    /\ check[c].pc \in Answers
    /\ account' = PlanStored(c, check[c].pc)
    /\ CheckGoes(c, "releases")
    /\ UNCHANGED <<email, proxy, run, desk, histories>>

(* The database does not answer: a result that is not stored may be stored as a *)
(* failure, else the claim, or the lease, stays until it is old.                *)
CallFails(c) ==
    /\ Asks
    /\ \/ /\ check[c].pc \in Answers
          /\ CheckGoes(c, "releases")
          /\ \/ UNCHANGED account
             \/ check[c].pc = "success" /\ account' = PlanStored(c, "error")
       \/ /\ check[c].pc \in {"claimed", "releases"}
          /\ check' = [check EXCEPT ![c] = NoCheck]
          /\ UNCHANGED account
    /\ UNCHANGED <<email, proxy, run, desk, histories>>

(* Mutant: whoever has it.                                                      *)
ReleasesProxyOfAny(c) ==
    LET p == check[c].p IN
    /\ check[c].pc = "releases"
    /\ proxy' = [proxy EXCEPT ![p].owner = None, ![p].over = FALSE]
    /\ check' = [check EXCEPT ![c] = NoCheck]
    /\ UNCHANGED <<account, email, run, desk, histories>>

(* release_proxy names its owner.                                               *)
ReleasesProxy(c) ==
    LET p == check[c].p IN
    /\ check[c].pc = "releases"
    /\ proxy' = IF proxy[p].owner = c
                THEN [proxy EXCEPT ![p].owner = None, ![p].over = FALSE] ELSE proxy
    /\ check' = [check EXCEPT ![c] = NoCheck]
    /\ UNCHANGED <<account, email, run, desk, histories>>

(* store_account_access_token, store_account_totp.                              *)
Renews(a) ==
    /\ Asks /\ account[a].present
    /\ account' = [account EXCEPT ![a].token = @ + 1, ![a].configured = TRUE]
    /\ renewed' = IF \E c \in Checks : AtWork(c) /\ check[c].a = a
                  THEN renewed \cup {a} ELSE renewed
    /\ UNCHANGED <<email, proxy, run, check, desk, disturbed, takenOver, dropped>>

UpdateProxy(p) ==
    /\ Asks /\ proxy[p].present
    /\ proxy' = [proxy EXCEPT ![p].enabled = ~@]
    /\ UNCHANGED <<account, email, run, check, desk, histories>>

DeleteProxy(p) ==
    /\ Asks /\ proxy[p].present
    /\ proxy' = [proxy EXCEPT ![p] = [present |-> FALSE, enabled |-> FALSE,
                                      owner |-> None, over |-> FALSE]]
    /\ dropped' = IF \E c \in Checks : Uses(c, p)
                  THEN dropped \cup {p} ELSE dropped
    /\ UNCHANGED <<account, email, run, check, desk, disturbed, takenOver, renewed>>

(* import_proxies: what is there keeps its state, what is not comes in enabled. *)
ImportProxy(p) ==
    /\ Asks /\ ~proxy[p].present
    /\ proxy' = [proxy EXCEPT ![p].present = TRUE, ![p].enabled = TRUE]
    /\ UNCHANGED <<account, email, run, check, desk, histories>>

------------------------------------------------------------------------------
(* Time and the process.                                                        *)

ClaimAges(a) ==
    /\ account[a].plan = "running" /\ ~account[a].aged
    /\ account' = [account EXCEPT ![a].aged = TRUE]
    /\ UNCHANGED <<email, proxy, run, check, desk, histories>>

LeaseExpires(p) ==
    /\ proxy[p].owner # None /\ ~proxy[p].over
    /\ proxy' = [proxy EXCEPT ![p].over = TRUE]
    /\ check' = [c \in Checks |-> [check[c] EXCEPT !.lapsed = @ \/ proxy[p].owner = c]]
    /\ UNCHANGED <<account, email, run, desk, histories>>

(* The rows stay; a run that held an e-mail is reconciled when it is found.     *)
DeskRestarts ==
    /\ Asks
    /\ run' = [r \in Runs |-> IF Holds(r) \/ run[r].pc \in {"dead", "settles"}
                              THEN [run[r] EXCEPT !.pc = "dead", !.found = FALSE]
                              ELSE NoRun]
    /\ check' = [c \in Checks |-> NoCheck]
    /\ importer' = [todo |-> {}, at |-> None]
    /\ creator' = [a |-> None, id |-> 0]
    /\ UNCHANGED <<rows, histories>>

RunStep(r) ==
    \/ Lists(r) \/ ComesShort(r) \/ BeginsWork(r) \/ Gives(r) \/ Registers(r)
    \/ Consumes(r) \/ Reconciles(r) \/ Settles(r)
    \/ \E c \in run[r].candidates : Tries(r, c)

CheckStep(c) ==
    \/ \E p \in Proxies : Leases(c, p)
    \/ \E outcome \in Answers : Answered(c, outcome)
    \/ NoProxy(c) \/ Stores(c) \/ ReleasesProxy(c)

DeskWorks ==
    \/ \E r \in Runs : RunStep(r)
    \/ \E c \in Checks : CheckStep(c)
    \/ \E a \in importer.todo : Looks(a)
    \/ Upserts \/ DeleteSource
    \/ \E a \in Pool : ClaimAges(a)
    \/ \E p \in Proxies : LeaseExpires(p)

DeskAsked ==
    \/ DeskRestarts
    \/ \E r \in Runs : StartRun(r)
    \/ \E c \in Checks : CallFails(c) \/ \E a \in Pool : Claims(c, a)
    \/ \E a \in Pool :
          \/ Import({a}) \/ DeleteEmail(a) \/ CreateAccount(a) \/ DeleteAccounts(a)
          \/ Renews(a)
    \/ \E p \in Proxies : UpdateProxy(p) \/ DeleteProxy(p) \/ ImportProxy(p)

------------------------------------------------------------------------------
(* Properties.                                                                  *)

(* No two runs work on one address, and none on an address that is registered,   *)
(* although the list of registered addresses is read before the reservations     *)
(* (resource_service.py:717) and a dead run's e-mails are given back in between; *)
(* unless the page put the address back or took it while a run could reach it.  *)
TakenOnce ==
    \A r \in Runs : run[r].pc = "works" /\ run[r].a \notin disturbed =>
        /\ ~account[run[r].a].present
        /\ \A q \in Runs \ {r} : run[q].pc \in {"works", "registers"} => run[q].a # run[r].a

(* Two plan checks are at work on one account only after a claim of over five    *)
(* minutes was taken over (from then on the result of the slow one frees the     *)
(* account for a third), and on one proxy only when the lease of one of the two  *)
(* ran over or the page deleted the proxy.                                      *)
ChecksApart ==
    \A c, d \in Checks : c # d /\ Asking(c) /\ Asking(d) =>
        /\ check[c].a = check[d].a /\ check[c].id = check[d].id => check[c].a \in takenOver
        /\ check[c].p = check[d].p /\ check[c].p \notin dropped \cup {None} =>
               check[c].lapsed \/ check[d].lapsed

(* An account's token counts as missing only when that very token was refused by  *)
(* the site or had expired, whatever other failures the checks met; or when a    *)
(* token before it was, and it was renewed while a check of the old one was at   *)
(* work (resource_service.py:592).                                              *)
TokenKept ==
    \A a \in Registered :
        account[a].token > 0 /\ ~account[a].configured =>
            \E t \in account[a].bad : t = account[a].token \/ (t < account[a].token /\ a \in renewed)

==============================================================================
