---------------------------- MODULE RunDatabase ----------------------------
(***************************************************************************)
(* The part of the MongoDB database that the run manager reads and writes: *)
(* the "runs" collection (MongoRunStore), the "emails" pool and the        *)
(* "accounts" collection (MongoResourceStore).                             *)
(*                                                                         *)
(* A database value is a record                                            *)
(*   run     : Runs -> [status, key, cancel]   key: the document holds     *)
(*             activeKey = "singleton" (unique sparse index)               *)
(*   email   : Emails -> "available" | "deleted" | the run in reservedBy   *)
(*   account : the emails for which an account document exists             *)
(* Every operator below is one server-side operation: it maps a database   *)
(* value to the value the operation leaves.                                *)
(***************************************************************************)
EXTENDS FiniteSets

CONSTANTS Runs,     \* run ids (uuid4)
          Emails    \* the addresses in the pool

ASSUME NamesDistinct == {"available", "deleted"} \cap Runs = {}

Active   == {"queued", "running", "waiting_for_database"}
Terminal == {"completed", "failed", "cancelled", "interrupted"}
Statuses == Active \cup Terminal

NoDoc == [status |-> "none", key |-> FALSE, cancel |-> FALSE]

Docs == [status : Statuses \cup {"none"}, key : BOOLEAN, cancel : BOOLEAN]

Databases == [run : [Runs -> Docs],
              email : [Emails -> Runs \cup {"available", "deleted"}],
              account : SUBSET Emails]

EmptyDatabase == [run |-> [r \in Runs |-> NoDoc],
                  email |-> [e \in Emails |-> "available"],
                  account |-> {}]

(* A query for active runs that forgets the status condition.              *)
DocsOfAnyStatus(d) == {r \in Runs : d.run[r].status # "none"}

ActiveDocs(d) == {r \in Runs : d.run[r].status \in Active}

KeyHolders(d) == {r \in Runs : d.run[r].key}

HeldBy(d, r) == {e \in Emails : d.email[e] = r}

ReservedEmails(d) == {e \in Emails : d.email[e] \in Runs}

(* MongoRunStore.create; the caller has checked that no document holds the *)
(* unique key.                                                             *)
Created(d, r) ==
  [d EXCEPT !.run[r] = [status |-> "queued", key |-> TRUE, cancel |-> FALSE]]

(* MongoRunStore.save: a terminal status unsets activeKey, no status sets  *)
(* it again; a document that does not exist is not created.                *)
Saved(d, r, s, c) ==
  IF d.run[r].status = "none" THEN d
  ELSE [d EXCEPT !.run[r] = [status |-> s,
                             key |-> d.run[r].key /\ s \notin Terminal,
                             cancel |-> c]]

(* MongoRunStore.request_cancel: only an active document is flagged.       *)
CancelRequested(d, r) ==
  IF d.run[r].status \in Active THEN [d EXCEPT !.run[r].cancel = TRUE] ELSE d

(* The documents reserve_emails iterates over: available, and no account   *)
(* with the same normalized address at the time of the query.              *)
Candidates(d) ==
  {e \in Emails : d.email[e] = "available" /\ e \notin d.account}

(* The find_one_and_update of reserve_emails re-checks "available".        *)
Reserved(d, e, r) ==
  IF d.email[e] = "available" THEN [d EXCEPT !.email[e] = r] ELSE d

(* release_email and release_run_reservations, on emails E held by a run.  *)
Released(d, E) ==
  [d EXCEPT !.email = [e \in Emails |-> IF e \in E THEN "available" ELSE d.email[e]]]

(* The upsert with $setOnInsert of complete_mock_success.                  *)
Registered(d, e) == [d EXCEPT !.account = @ \cup {e}]

(* The delete_one {_id, reservedBy} of complete_mock_success.              *)
Consumed(d, e, r) ==
  IF d.email[e] = r THEN [d EXCEPT !.email[e] = "deleted"] ELSE d

(* A reconciliation that consumes without looking for the account.         *)
ReconciledBlindly(d, e, r) == Consumed(d, e, r)

(* One iteration of reconcile_run_reservations: an email whose account     *)
(* exists is consumed, any other reservation of the run is released.       *)
Reconciled(d, e, r) ==
  IF e \in d.account THEN Consumed(d, e, r)
  ELSE IF d.email[e] = r THEN Released(d, {e}) ELSE d
=============================================================================
