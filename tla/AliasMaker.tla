------------------------------ MODULE AliasMaker ------------------------------
(* The MailCom Manager's making of aliases (manager/app.py, alias_creator.py,   *)
(* storage.py): accounts and aliases in SQLite, a browser flow for each account *)
(* it works on, the bulk job that works through the accounts that have too few, *)
(* and the page's requests in between.  The provider's pages are external.      *)
EXTENDS MailDomain

CONSTANTS
    Workers,        \* the bulk job's workers
    Manual,         \* the page's requests for a single account
    Target,         \* addresses wanted in a mailbox, the primary one included
    LoginAttempts,
    BrowserSlots    \* application.state.alias_semaphore

ASSUME MakerAssumption ==
    /\ IsFiniteSet(Workers) /\ Workers \cap Manual = {}
    /\ Target \in 1..Limit /\ LoginAttempts \in Nat \ {0} /\ BrowserSlots \in Nat \ {0}

VARIABLES
    row,        \* the accounts table
    owner,      \* the aliases table: the account that an address is stored under
    remote,     \* how many aliases the provider has for each mailbox
    flow,       \* create_aliases_for_account, for each worker and manual request
    job,        \* application.state.alias_bulk_job
    met,        \* history: mailboxes a browser was opened at beside another flow
    removed     \* history: addresses the page took away from under a flow

Flows == Workers \cup Manual
aliasVars == <<row, owner, remote, flow, job, met, removed>>

(* A flow's account is address <<m, n>> of mailbox m: the mailbox itself, or an  *)
(* alias that was imported as an account of its own.                            *)
Rest == [pc |-> "idle", m |-> None, n |-> 0, id |-> 0, attempt |-> 0,
         known |-> {}, made |-> 0, todo |-> {}]
NoJob == [status |-> "none", left |-> {}, total |-> 0, succeeded |-> 0,
          failed |-> 0, created |-> 0, made |-> 0, redone |-> FALSE]

Browsing == {"login", "creates", "persists"}
InBrowser(f) == flow[f].pc \in Browsing
At(f, place) == flow[f].pc = place
Account(f) == <<flow[f].m, flow[f].n>>
Mailbox(m) == 1..remote[m]
Stored(c) == {a \in Addresses : owner[a] = c}
Has(a) == owner[a] # None \/ row[a].present

(* A mailbox that has more addresses than wanted is left as it is.              *)
AliasInit ==
    /\ row \in [Addresses -> {Absent, Inserted(Absent)}]
    /\ \A a \in Aliases : row[a] = Absent
    /\ remote \in [Masters -> 0..(Target - 1)]
    /\ owner = [a \in Addresses |-> None]
    /\ flow = [f \in Flows |-> Rest]
    /\ job = NoJob
    /\ met = {} /\ removed = {}

------------------------------------------------------------------------------
(* The store.                                                                   *)

(* import_alias: nothing without its account, and nothing over another row or   *)
(* an account: an address is in one of the two tables.                          *)
ImportedAlias(c, id, a) ==
    IF Is(row[c], id) /\ ~Has(a) THEN [owner EXCEPT ![a] = c] ELSE owner

Underfilled ==
    {c \in Addresses : row[c].present /\ Cardinality(Stored(c)) < Target - 1}

(* Addresses taken away from a mailbox that a flow is at work on.                 *)
Missed(gone) ==
    {a \in gone : \E f \in Flows : ~At(f, "idle") /\ flow[f].m = a[1]}

------------------------------------------------------------------------------
(* create_aliases_for_account and MailComAliasCreator.create_to_total.          *)

Goes(f, place) == flow' = [flow EXCEPT ![f].pc = place]

(* A worker's step is noted in its job's record; a manual request has no job.   *)
Tallied(f, record) == IF f \in Workers THEN record ELSE job

(* Mutant: a failure is not counted.                                            *)
FailsUncounted(f) ==
    /\ flow' = [flow EXCEPT ![f] = Rest]
    /\ UNCHANGED job

Fails(f) ==
    /\ flow' = [flow EXCEPT ![f] = Rest]
    /\ job' = Tallied(f, [job EXCEPT !.failed = @ + 1])

Begins(f) ==
    /\ At(f, "begins")
    /\ IF Is(row[Account(f)], flow[f].id)
       THEN Goes(f, "waits") /\ UNCHANGED job
       ELSE Fails(f)
    /\ UNCHANGED <<row, owner, remote, met, removed>>

SlotFree == Cardinality({f \in Flows : InBrowser(f)}) < BrowserSlots

OpensBrowser(f) ==
    /\ At(f, "waits") /\ SlotFree
    /\ flow' = [flow EXCEPT ![f].pc = "login", ![f].attempt = 1]
    /\ met' = IF \E g \in Flows \ {f} : flow[g].pc \in Browsing \cup {"imports"}
                                            /\ flow[g].m = flow[f].m
              THEN met \cup {flow[f].m} ELSE met
    /\ UNCHANGED <<row, owner, remote, job, removed>>

(* A context of its own for every attempt: nothing is kept of the one before.    *)
(* Any address that the provider knows opens the mailbox it belongs to.         *)
Login(f) ==
    /\ At(f, "login") /\ flow[f].n <= remote[flow[f].m]
    /\ flow' = [flow EXCEPT ![f].pc = "creates", ![f].known = Mailbox(flow[f].m),
                            ![f].made = 0]
    /\ UNCHANGED <<row, owner, remote, job, met, removed>>

(* Mutant: the list of addresses is kept over a failed attempt.                 *)
AttemptEndsKeepingList(f) ==
    IF flow[f].attempt < LoginAttempts
    THEN /\ flow' = [flow EXCEPT ![f].pc = IF At(f, "login") THEN "login" ELSE "creates",
                                  ![f].attempt = @ + 1]
         /\ job' = Tallied(f, [job EXCEPT !.redone = TRUE])
    ELSE Fails(f)

AttemptEnds(f) ==
    IF flow[f].attempt < LoginAttempts
    THEN /\ flow' = [flow EXCEPT ![f] = [Rest EXCEPT !.pc = "login", !.m = flow[f].m,
                                  !.n = flow[f].n, !.id = flow[f].id,
                                  !.attempt = flow[f].attempt + 1]]
         /\ job' = Tallied(f, [job EXCEPT !.redone = TRUE])
    ELSE Fails(f)

(* The site, or the callback that stores an alias, raises inside an attempt.    *)
AttemptFails(f) ==
    /\ InBrowser(f)
    /\ AttemptEnds(f)
    /\ UNCHANGED <<row, owner, remote, met, removed>>

(* What raises outside of an attempt ends the flow at once: the store, at its    *)
(* beginning and at its import, the launch of the browser (alias_creator.py:239) *)
(* and its end, the opening of a context (:246) and its end (:270).             *)
Breaks(f) ==
    /\ ~At(f, "idle") /\ (At(f, "waits") => SlotFree)
    /\ Fails(f)
    /\ UNCHANGED <<row, owner, remote, met, removed>>

Wanted(f) == Cardinality(flow[f].known) + 1 < Target

(* _create_one: the provider makes the alias and the page says so.              *)
Creates(f) ==
    LET m == flow[f].m IN
    /\ At(f, "creates") /\ Wanted(f) /\ remote[m] < Limit
    /\ remote' = [remote EXCEPT ![m] = @ + 1]
    /\ flow' = [flow EXCEPT ![f].pc = "persists", ![f].made = @ + 1,
                            ![f].known = @ \cup {remote[m] + 1}]
    /\ job' = Tallied(f, [job EXCEPT !.made = @ + 1])
    /\ UNCHANGED <<row, owner, met, removed>>

(* The provider makes it, and no response is seen within eight seconds.         *)
CreateUnanswered(f) ==
    LET m == flow[f].m IN
    /\ At(f, "creates") /\ Wanted(f) /\ remote[m] < Limit
    /\ remote' = [remote EXCEPT ![m] = @ + 1]
    /\ AttemptEnds(f)
    /\ UNCHANGED <<row, owner, met, removed>>

(* The callback persist, for the alias just made.                               *)
Persists(f) ==
    LET m == flow[f].m
        newest == CHOOSE k \in flow[f].known : \A l \in flow[f].known : l <= k IN
    /\ At(f, "persists")
    /\ owner' = ImportedAlias(Account(f), flow[f].id, <<m, newest>>)
    /\ Goes(f, "creates")
    /\ UNCHANGED <<row, remote, job, met, removed>>

(* Mutant: only the aliases of this attempt are imported.                       *)
ClosesBrowserWithNew(f) ==
    /\ At(f, "creates") /\ ~Wanted(f)
    /\ flow' = [flow EXCEPT ![f].pc = "imports",
          ![f].todo = {k \in flow[f].known : k > Cardinality(flow[f].known) - flow[f].made}]
    /\ UNCHANGED <<row, owner, remote, job, met, removed>>

(* The browser is closed, and every address it knows of is imported in turn, but *)
(* the account's own.                                                           *)
ClosesBrowser(f) ==
    /\ At(f, "creates") /\ ~Wanted(f)
    /\ flow' = [flow EXCEPT ![f].pc = "imports",
                            ![f].todo = ({0} \cup flow[f].known) \ {flow[f].n}]
    /\ UNCHANGED <<row, owner, remote, job, met, removed>>

Imports(f) ==
    LET m == flow[f].m
        k == CHOOSE k \in flow[f].todo : \A l \in flow[f].todo : k <= l IN
    /\ At(f, "imports") /\ flow[f].todo # {}
    /\ owner' = ImportedAlias(Account(f), flow[f].id, <<m, k>>)
    /\ flow' = [flow EXCEPT ![f].todo = @ \ {k}]
    /\ UNCHANGED <<row, remote, job, met, removed>>

Succeeds(f) ==
    /\ At(f, "imports") /\ flow[f].todo = {}
    /\ job' = Tallied(f, [job EXCEPT !.succeeded = @ + 1,
                                     !.created = @ + flow[f].made])
    /\ flow' = [flow EXCEPT ![f] = Rest]
    /\ UNCHANGED <<row, owner, remote, met, removed>>

------------------------------------------------------------------------------
(* The bulk job.                                                                *)

JobRuns == job.status = "running"

(* Under alias_bulk_lock: a job that is not done is answered as it is.          *)
AskBulk ==
    /\ ~JobRuns /\ Asks
    /\ job' = [NoJob EXCEPT !.status = IF Underfilled = {} THEN "done" ELSE "running",
                            !.left = {<<c, row[c].id>> : c \in Underfilled},
                            !.total = Cardinality(Underfilled)]
    /\ UNCHANGED <<row, owner, remote, flow, met, removed>>

SetsOut(f, c, id) ==
    flow' = [flow EXCEPT ![f].pc = "begins", ![f].m = c[1], ![f].n = c[2], ![f].id = id]

(* Accounts of the queue are taken in the queue's order, which is left open.    *)
WorkerTakes(f, entry) ==
    /\ At(f, "idle")
    /\ job' = [job EXCEPT !.left = @ \ {entry}]
    /\ SetsOut(f, entry[1], entry[2])
    /\ UNCHANGED <<row, owner, remote, met, removed>>

JobEnds ==
    /\ JobRuns /\ job.left = {} /\ \A f \in Workers : At(f, "idle")
    /\ job' = [job EXCEPT !.status = "done"]
    /\ UNCHANGED <<row, owner, remote, flow, met, removed>>

------------------------------------------------------------------------------
(* The page's other requests, and the process.                                  *)

AskManual(f, c) ==
    /\ Asks
    /\ At(f, "idle") /\ row[c].present
    /\ SetsOut(f, c, row[c].id)
    /\ UNCHANGED <<row, owner, remote, job, met, removed>>

(* import_account: any address that is in neither table.                        *)
ImportAccount(c) ==
    /\ Asks
    /\ ~Has(c)
    /\ row' = [row EXCEPT ![c] = Inserted(@)]
    /\ UNCHANGED <<owner, remote, flow, job, met, removed>>

(* An alias may be typed in under any account.                                  *)
ImportAlias(c, a) ==
    /\ Asks
    /\ row[c].present /\ ~Has(a)
    /\ owner' = ImportedAlias(c, row[c].id, a)
    /\ UNCHANGED <<row, remote, flow, job, met, removed>>

DeleteAlias(a) ==
    /\ Asks
    /\ owner[a] # None
    /\ owner' = [owner EXCEPT ![a] = None]
    /\ removed' = removed \cup Missed({a})
    /\ UNCHANGED <<row, remote, flow, job, met>>

(* ON DELETE CASCADE takes the account's aliases with it, and a flow at the      *)
(* account has nowhere to store what it finds.                                  *)
Gone(c) ==
    {a \in Addresses :
        \/ a = c \/ owner[a] = c
        \/ a[1] = c[1] /\ \E f \in Flows : ~At(f, "idle") /\ Account(f) = c}

DeleteAccount(c) ==
    /\ Asks
    /\ row[c].present
    /\ row' = [row EXCEPT ![c] = Deleted(@)]
    /\ owner' = [a \in Addresses |-> IF owner[a] = c THEN None ELSE owner[a]]
    /\ removed' = removed \cup Missed(Gone(c))
    /\ UNCHANGED <<remote, flow, job, met>>

(* Only the tables outlive the process.                                         *)
ManagerRestarts ==
    /\ Asks
    /\ flow' = [f \in Flows |-> Rest]
    /\ job' = NoJob
    /\ UNCHANGED <<row, owner, remote, met, removed>>

FlowStep(f) ==
    \/ Begins(f) \/ OpensBrowser(f) \/ Login(f) \/ AttemptFails(f)
    \/ Breaks(f)
    \/ Creates(f) \/ CreateUnanswered(f) \/ Persists(f) \/ ClosesBrowser(f)
    \/ Imports(f) \/ Succeeds(f)

MakerWorks ==
    \/ \E f \in Flows : FlowStep(f)
    \/ \E f \in Workers, entry \in job.left : WorkerTakes(f, entry)
    \/ JobEnds

MakerAsked ==
    \/ AskBulk \/ ManagerRestarts
    \/ \E c \in Addresses :
          \/ \E f \in Manual : AskManual(f, c)
          \/ ImportAccount(c) \/ DeleteAccount(c) \/ DeleteAlias(c)
          \/ \E a \in Addresses : ImportAlias(c, a)

------------------------------------------------------------------------------
(* Properties.                                                                  *)

(* No mailbox is given more addresses than was asked for, however many creations *)
(* were made and not answered, tried again, or left behind by a restart; unless  *)
(* a second flow was at that mailbox, which the bulk job's assignment of         *)
(* accounts to workers prevents as long as no alias is an account of its own,    *)
(* and a manual request does not.                                               *)
WithinTarget == \A m \in Masters : remote[m] + 1 <= Target \/ m \in met

(* When a flow succeeds, every address the provider has for the mailbox is in    *)
(* the tables, as an alias or as an account, those of attempts that failed or    *)
(* were not answered included; unless a second flow made some, or the page took  *)
(* the address, or the flow's account, away meanwhile.                          *)
StoresWhatExists ==
    [][\A f \in Flows : Succeeds(f) =>
          LET m == flow[f].m IN
          \/ m \in met
          \/ \A k \in 0..remote[m] : Has(<<m, k>>) \/ <<m, k>> \in removed]_aliasVars

(* A job that is done has told of each of its accounts once; and of each alias   *)
(* its workers made, unless an attempt was made again or an account failed: what *)
(* such an attempt had made before is not told of.                              *)
CountsAddUp ==
    job.status = "done" =>
        /\ job.succeeded + job.failed = job.total
        /\ job.created = job.made \/ job.redone \/ job.failed > 0

==============================================================================
