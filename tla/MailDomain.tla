------------------------------ MODULE MailDomain ------------------------------
(* What the mail.com manager and the registration pages share: the mailboxes,   *)
(* their addresses, and a budget of requests that bounds both.                  *)
EXTENDS Naturals, FiniteSets

CONSTANTS
    Masters,        \* the mail.com accounts
    None,           \* no account, no run
    Limit,          \* the aliases a mailbox may have in the model (bound)
    MaxRequests     \* requests of the pages and registrations in all (bound)

VARIABLE requests   \* made so far

(* Address <<m, 0>> is the mailbox itself, <<m, k>> the k-th alias made for it. *)
Aliases == Masters \X (1..Limit)
Addresses == Masters \X (0..Limit)

ASSUME DomainAssumption ==
    /\ IsFiniteSet(Masters) /\ None \notin Masters \cup Addresses
    /\ Limit \in Nat \ {0} /\ MaxRequests \in Nat

(* Every id is issued once: a row that is inserted again has the next one.      *)
Absent == [id |-> 0, present |-> FALSE]
Inserted(row) == [row EXCEPT !.id = @ + 1, !.present = TRUE]
Deleted(row) == [row EXCEPT !.present = FALSE]
Is(row, id) == row.present /\ row.id = id

Asks == requests < MaxRequests /\ requests' = requests + 1

==============================================================================
