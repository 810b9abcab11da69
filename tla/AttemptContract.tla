-------------------------- MODULE AttemptContract --------------------------
(***************************************************************************)
(* What a worker relies on of an attempt: it stores the account and then   *)
(* deletes the address, it ends well only when both are done, and once the *)
(* account is stored it does not end with an error that is tried again.    *)
(***************************************************************************)
VARIABLES
  phase,      \* "off", "working", or how the attempt ended
  account,    \* the account is stored
  deleted     \* the address is deleted

vars == <<phase, account, deleted>>

Init == phase = "off" /\ ~account /\ ~deleted

Starts ==
  /\ phase \in {"off", "proxy", "transient", "fatal"} /\ ~account /\ phase' = "working"
  /\ UNCHANGED <<account, deleted>>
Stores == phase = "working" /\ account' = TRUE /\ UNCHANGED <<phase, deleted>>
Deletes == phase = "working" /\ account /\ deleted' = TRUE /\ UNCHANGED <<phase, account>>
Ends ==
  /\ phase = "working"
  /\ \/ ~account /\ phase' \in {"proxy", "transient"}
     \/ phase' = "fatal"
     \/ account /\ deleted /\ phase' = "ok"
  /\ UNCHANGED <<account, deleted>>

Next == Starts \/ Stores \/ Deletes \/ Ends
Spec == Init /\ [][Next]_vars
=============================================================================
