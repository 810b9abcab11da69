-------------------------- MODULE WorkerContract --------------------------
(***************************************************************************)
(* What a worker process promises to the run that started it: it registers *)
(* its address at most once, from a window of its own behind a proxy it    *)
(* leases; from then on it takes nothing more; and it reports a success    *)
(* only when the account is stored, the address is deleted, and neither    *)
(* the window nor the proxy is held any longer.                            *)
(***************************************************************************)
VARIABLES lease, window, account, email, result

vars == <<lease, window, account, email, result>>

Init == ~lease /\ ~window /\ ~account /\ email = "reserved" /\ result = "none"

Leases ==
  /\ ~lease /\ ~account /\ email = "reserved" /\ result = "none" /\ lease'
  /\ UNCHANGED <<window, account, email, result>>
Opens ==
  /\ lease /\ ~window /\ ~account /\ email = "reserved" /\ result = "none" /\ window'
  /\ UNCHANGED <<lease, account, email, result>>
Registers ==
  /\ lease /\ window /\ ~account /\ email = "reserved" /\ result = "none" /\ account'
  /\ UNCHANGED <<lease, window, email, result>>
DeletesEmail ==
  /\ account /\ lease /\ email = "reserved" /\ email' = "deleted"
  /\ UNCHANGED <<lease, window, account, result>>
(* Closed, or given up for that of another attempt. *)
Closes == window /\ ~window' /\ UNCHANGED <<lease, account, email, result>>
Returns == lease /\ ~lease' /\ UNCHANGED <<window, account, email, result>>
GivesBack ==
  /\ email = "reserved" /\ result = "none" /\ email' = "released"
  /\ UNCHANGED <<lease, window, account, result>>
Ends ==
  /\ result = "none" /\ result' \in {"success", "failed"}
  /\ result' = "success" => account /\ email = "deleted" /\ ~window /\ ~lease
  /\ UNCHANGED <<lease, window, account, email>>

Next == Leases \/ Opens \/ Registers \/ DeletesEmail \/ Closes \/ Returns \/ GivesBack \/ Ends
Spec == Init /\ [][Next]_vars
=============================================================================
