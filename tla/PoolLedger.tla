----------------------------- MODULE PoolLedger -----------------------------
(***************************************************************************)
(* What the run manager promises about the email pool, whatever fails: an  *)
(* address is lent to a run and given back, an account is stored once and  *)
(* for all, and an address leaves the pool for good, only while it is lent *)
(* and once its account is stored.                                         *)
(***************************************************************************)
CONSTANT Emails

VARIABLES pool,     \* email -> "available", "reserved" or "deleted"
          accounts  \* the emails whose account is stored

Init == pool = [e \in Emails |-> "available"] /\ accounts = {}

Lend(e) == /\ pool[e] = "available"
           /\ pool' = [pool EXCEPT ![e] = "reserved"]
           /\ UNCHANGED accounts

GiveBack(E) == /\ \A e \in E : pool[e] = "reserved"
               /\ pool' = [e \in Emails |-> IF e \in E THEN "available" ELSE pool[e]]
               /\ UNCHANGED accounts

Store(e) == accounts' = accounts \cup {e} /\ UNCHANGED pool

Remove(e) == /\ pool[e] = "reserved" /\ e \in accounts
             /\ pool' = [pool EXCEPT ![e] = "deleted"]
             /\ UNCHANGED accounts

Next == \/ \E e \in Emails : Lend(e) \/ Store(e) \/ Remove(e)
        \/ \E E \in SUBSET Emails : GiveBack(E)

Spec == Init /\ [][Next]_<<pool, accounts>>
=============================================================================
