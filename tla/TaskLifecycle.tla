---------------------------- MODULE TaskLifecycle ----------------------------
(***************************************************************************)
(* What the task manager promises about its tasks, seen through GET:       *)
(* a task moves only along its life cycle, a cancellation is never         *)
(* answered with a success, and a retry replaces the task it retries, once *)
(* and in one step.                                                        *)
(***************************************************************************)
CONSTANTS Tasks, None

VARIABLES status,  \* task -> its status, "none" before and "gone" after
          origin   \* task -> the task it retries, or None

Terminal == {"succeeded", "failed", "cancelled"}

Moves == {<<"none", "queued">>, <<"queued", "running">>, <<"queued", "cancelled">>,
          <<"running", "cancel_requested">>,
          <<"running", "succeeded">>, <<"running", "failed">>,
          <<"cancel_requested", "cancelled">>, <<"cancel_requested", "failed">>}
         \cup {<<s, "gone">> : s \in Terminal}

Init == status = [t \in Tasks |-> "none"] /\ origin = [t \in Tasks |-> None]

Next ==
  /\ status' \in [Tasks -> Terminal \cup
                    {"none", "queued", "running", "cancel_requested", "gone"}]
  /\ origin' \in [Tasks -> Tasks \cup {None}]
  /\ \A t \in Tasks : status'[t] # status[t] => <<status[t], status'[t]>> \in Moves
  /\ \A t \in Tasks : origin'[t] # origin[t] =>
       /\ status[t] = "none" /\ status'[t] = "queued"
       /\ status[origin'[t]] \in Terminal /\ status'[origin'[t]] = "gone"

Spec == Init /\ [][Next]_<<status, origin>>
=============================================================================
