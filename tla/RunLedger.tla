----------------------------- MODULE RunLedger ------------------------------
(***************************************************************************)
(* What the runs collection promises while the database stays reachable:   *)
(* runs are opened one at a time, and a closed run keeps its outcome, also *)
(* across restarts ("遗留活动任务标记为 interrupted，不会自动续跑").           *)
(***************************************************************************)
CONSTANT Runs

VARIABLE outcome  \* run -> "none", "active" or the status it ended with

Init == outcome = [r \in Runs |-> "none"]

Open(r) == /\ outcome[r] = "none"
           /\ \A s \in Runs : outcome[s] # "active"
           /\ outcome' = [outcome EXCEPT ![r] = "active"]

Close(r, o) == /\ outcome[r] = "active"
               /\ outcome' = [outcome EXCEPT ![r] = o]

Next == \E r \in Runs : \/ Open(r)
                        \/ \E o \in {"completed", "failed", "cancelled", "interrupted"} :
                             Close(r, o)

Spec == Init /\ [][Next]_outcome
=============================================================================
