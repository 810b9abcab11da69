---------------------------- MODULE ProbeWorker ----------------------------
(***************************************************************************)
(* One worker process: BrowserProbeRunner.run of browser_probe.py, around  *)
(* attempts that keep AttemptContract.  It leases a proxy, makes a window  *)
(* in Roxy that goes through it, attempts the registration there, removes  *)
(* the window, and on some errors tries again with the same or another     *)
(* proxy.                                                                  *)
(*                                                                         *)
(* Any call to Roxy may fail with or without effect.  A window whose       *)
(* opening was not answered may start later, even after its deletion.      *)
(***************************************************************************)
EXTENDS Integers, FiniteSets

CONSTANTS
  Proxies,        \* the eligible proxies
  RetryCount,     \* settings.proxyRetryCount
  MaxRotations,   \* max_registration_proxy_rotations
  MaxTroubles     \* bound: calls that fail or are not answered, and a cancellation

ASSUME WorkerAssumption == RetryCount \in Nat /\ MaxRotations \in Nat /\ MaxTroubles \in Nat

VARIABLES
  pc,         \* where run is
  proxy,      \* the lease in MongoDB, or NoProxy
  loop,       \* excluded proxies, attempts with this one, rotations, tries of a call
  windows,    \* Roxy's windows: <<number, proxy, state>>
  opened,     \* dir_id (0: none), open_requested, open_completed, of the last attempt
  obs,        \* _cleanup_browser's observation of a delayed opening
  err,        \* the class of the primary error
  phase,      \* the attempt: "off", "working", or how it ended
  account,    \* the account is stored
  deleted,    \* the address is deleted
  released,   \* the address is free again
  result,     \* what run returns
  troubles    \* not in the code: the troubles so far

NoProxy == "none"
ASSUME ProxiesAssumption == NoProxy \notin Proxies
attemptVars == <<phase, account, deleted, released>>
vars == <<pc, proxy, loop, windows, opened, obs, err, attemptVars, result, troubles>>

NoWindow == [dir |-> 0, asked |-> FALSE, done |-> FALSE]
NewObs == [absent |-> 0, present |-> FALSE, queryError |-> FALSE, deleteError |-> FALSE]

Init ==
  /\ phase = "off" /\ account = FALSE /\ troubles = 0
  /\ pc = "roxy" /\ proxy = NoProxy
  /\ loop = [excluded |-> {}, tries |-> 0, rotations |-> 0, calls |-> 0, made |-> 0]
  /\ windows = {} /\ opened = NoWindow /\ obs = NewObs
  /\ err = "none" /\ deleted = FALSE /\ released = FALSE /\ result = "none"

Mine == {w \in windows : w[1] = opened.dir}
InState(S) == {w \in Mine : w[3] \in S}
Recorded == {w \in windows : w[3] \notin {"late", "stray"}}
Running == InState({"running", "stray"})
Becoming(s) == {IF w[1] = opened.dir THEN <<w[1], w[2], s>> ELSE w : w \in windows}
Jump(l) == pc' = l
Trouble == troubles < MaxTroubles /\ troubles' = troubles + 1
Count(f) == loop' = [loop EXCEPT ![f] = @ + 1]

----------------------------------------------------------------------------
(* _ensure_roxy_online: health, and up to forty more once it was launched. *)
EnsuresRoxy ==
  /\ pc = "roxy"
  /\ \/ Jump("workspace") /\ UNCHANGED <<err, troubles>>
     \/ Jump("end") /\ err' = "fatal" /\ Trouble
  /\ UNCHANGED <<attemptVars, proxy, loop, windows, opened, obs, result>>
(* The workspace must be seen three times running before the deadline. *)
WaitsForWorkspace ==
  /\ pc = "workspace"
  /\ \/ loop.calls < 2 /\ Count("calls") /\ UNCHANGED <<pc, err, troubles>>
     \/ loop.calls = 2 /\ loop' = [loop EXCEPT !.calls = 0] /\ Jump("lease")
        /\ UNCHANGED <<err, troubles>>
     \/ Trouble /\ loop' = [loop EXCEPT !.calls = 0] /\ UNCHANGED <<pc, err>>
     \/ Trouble /\ Jump("end") /\ err' = "fatal" /\ UNCHANGED loop
  /\ UNCHANGED <<attemptVars, proxy, windows, opened, obs, result>>

(* The least used of those enabled, not leased, of the country and group,  *)
(* that this worker has not tried.                                         *)
Eligible == Proxies \ loop.excluded
LeasesProxy ==
  /\ pc = "lease" /\ \E p \in Eligible :
       /\ proxy' = p
       /\ loop' = [loop EXCEPT !.excluded = @ \cup {p}, !.tries = 0, !.calls = 0]
  /\ Jump("create")
  /\ UNCHANGED <<attemptVars, troubles, windows, opened, obs, err, result>>
(* proxy_pool_exhausted *)
RunsOutOfProxies ==
  /\ pc = "lease" /\ Jump("end") /\ err' = "fatal"
  /\ Trouble \/ (Eligible = {} /\ UNCHANGED troubles)
  /\ UNCHANGED <<attemptVars, proxy, loop, windows, opened, obs, result>>

----------------------------------------------------------------------------
(* The window *)

GetsWindow(n) ==
  /\ opened' = [dir |-> n, asked |-> TRUE, done |-> FALSE] /\ Jump("open")
Fails(e) == err' = e /\ Jump("cleanup")

(* create_browser answers, fails or is cancelled, having made a window or not. *)
CreatesWindow ==
  /\ pc = "create" /\ LET n == loop.made + 1 IN
     \/ /\ windows' = windows \cup {<<n, proxy, "made">>}
        /\ loop' = [loop EXCEPT !.made = n] /\ GetsWindow(n) /\ UNCHANGED <<err, troubles>>
     \/ /\ Trouble /\ Jump("list") /\ loop' = [loop EXCEPT !.calls = @ + 1, !.made = n]
        /\ windows' = windows \cup {<<n, proxy, "made">>} /\ opened' = NoWindow /\ UNCHANGED err
     \/ /\ Trouble /\ Jump("list") /\ Count("calls") /\ opened' = NoWindow
        /\ UNCHANGED <<windows, err>>
     \/ /\ Trouble /\ \E e \in {"fatal", "cancelled"} : Fails(e)
        /\ opened' = NoWindow /\ UNCHANGED <<loop, windows>>
     \/ /\ Trouble /\ Fails("cancelled") /\ loop' = [loop EXCEPT !.made = n]
        /\ windows' = windows \cup {<<n, proxy, "made">>} /\ opened' = NoWindow
  /\ UNCHANGED <<attemptVars, proxy, obs, result>>
(* Then a window of this probe's name is taken for the one just asked for; *)
(* every window of this worker has the name.                               *)
ListsWindows ==
  /\ pc = "list" /\ UNCHANGED <<windows, loop>>
  /\ \/ \E w \in Recorded : GetsWindow(w[1]) /\ UNCHANGED <<err, troubles>>
     \/ /\ Trouble \/ (Recorded = {} /\ UNCHANGED troubles)
        /\ UNCHANGED opened
        /\ IF loop.calls < 3 THEN Jump("create") /\ UNCHANGED err ELSE Fails("fatal")
  /\ UNCHANGED <<attemptVars, proxy, obs, result>>

StartsAttempt ==
  /\ opened' = [opened EXCEPT !.done = TRUE] /\ Jump("attempt")
  /\ Count("tries") /\ phase' = "working" /\ UNCHANGED <<account, deleted, released>>
(* open_browser answers with an endpoint of the window.                    *)
Opens == Mine # {} /\ windows' = Becoming("running")
OpensWindow ==
  /\ pc = "open"
  /\ \/ /\ Opens /\ StartsAttempt
        /\ UNCHANGED <<err, troubles>>
     \/ /\ Trouble /\ windows' \in {windows, Becoming("opening")} /\ Jump("poll")
        /\ UNCHANGED <<attemptVars, loop, opened, err>>
     \/ /\ Trouble \/ (Mine = {} /\ UNCHANGED troubles)
        /\ Fails("notready") /\ UNCHANGED windows
        /\ UNCHANGED <<attemptVars, loop, opened>>
  /\ UNCHANGED <<proxy, obs, result>>
(* connection_info, until it lists the window or the time is over. *)
PollsOpening ==
  /\ pc = "poll"
  /\ \/ Running # {} /\ StartsAttempt /\ UNCHANGED err
     \/ /\ Fails("notready")
        /\ UNCHANGED <<attemptVars, loop, opened>>
  /\ UNCHANGED <<proxy, windows, obs, result, troubles>>
WindowStarts ==
  /\ \E w \in windows :
       /\ w[3] \in {"opening", "late"}
       /\ windows' = (windows \ {w}) \cup
                      {<<w[1], w[2], IF w[3] = "late" THEN "stray" ELSE "running">>}
  /\ UNCHANGED <<attemptVars, troubles, pc, proxy, loop, opened, obs, err, result>>

(* The automation in the window, as far as run can tell. *)
Attempt == INSTANCE AttemptContract
WorksOnPage ==
  /\ pc = "attempt" /\ (Attempt!Stores \/ Attempt!Deletes)
  /\ UNCHANGED <<released, pc, proxy, loop, windows, opened, obs, err, result, troubles>>
PageEnds ==
  /\ pc = "attempt" /\ Attempt!Ends
  /\ UNCHANGED <<released, pc, proxy, loop, windows, opened, obs, err, result, troubles>>
AttemptEnds ==
  /\ pc = "attempt" /\ phase # "working" /\ Fails(IF phase = "ok" THEN "none" ELSE phase)
  /\ phase' = "off"
  /\ UNCHANGED <<account, deleted, released, proxy, loop, windows, opened, obs, result, troubles>>
(* task.cancel of _run_worker, once, strikes at an await: within _attempt, *)
(* where an opening that was asked for may go on...                        *)
CancelStrikes ==
  /\ pc \in {"list", "open", "poll", "attempt"} /\ Trouble /\ Fails("cancelled")
  /\ phase' = "off"
  /\ windows' = windows \/ (pc = "open" /\ windows' = Becoming("opening"))
  /\ UNCHANGED <<account, deleted, released, proxy, loop, opened, obs, result>>

----------------------------------------------------------------------------
(* _cleanup_browser *)

Observes == opened.asked /\ ~opened.done
(* A window being opened is not gone with its record. *)
Removed == (windows \ Mine) \cup {<<w[1], w[2], "late">> : w \in InState({"opening", "late"})}

(* mutant: a cleanup that failed is told to nobody *)
FinishesQuietly(ok) == Jump("after") /\ obs' = NewObs /\ UNCHANGED err
(* _attempt's finally: a failed cleanup shows unless another error does. *)
Finishes(ok) ==
  /\ err' = IF ~ok /\ err \in {"none", "notready"} THEN "cleanup" ELSE err
  /\ Jump("after") /\ obs' = NewObs
StartsCleanup ==
  /\ pc = "cleanup" /\ loop' = [loop EXCEPT !.calls = 0]
  /\ IF opened.dir = 0 THEN Finishes(TRUE) ELSE Jump("delete") /\ UNCHANGED <<err, obs>>
  /\ UNCHANGED <<attemptVars, troubles, proxy, windows, opened, result>>
DeletesWindow ==
  /\ pc = "delete" /\ Count("calls")
  /\ \/ /\ windows' = Removed /\ UNCHANGED troubles
        /\ IF Observes THEN Jump("observe") /\ UNCHANGED <<err, obs>> ELSE Finishes(TRUE)
     \/ /\ Trouble /\ windows' \in {windows, Removed}
        /\ \/ Observes /\ Jump("observe") /\ obs' = [obs EXCEPT !.deleteError = TRUE]
              /\ UNCHANGED err
           \/ ~Observes /\ loop.calls < 2 /\ UNCHANGED <<pc, err, obs>>
           \/ ~Observes /\ Finishes(FALSE)
  /\ UNCHANGED <<attemptVars, proxy, opened, result>>
(* A window that still comes up within the observation is deleted again. *)
ObservesWindow ==
  /\ pc = "observe"
  /\ \/ /\ Running = {} /\ UNCHANGED <<windows, troubles>>
        /\ obs' = [obs EXCEPT !.present = FALSE, !.queryError = FALSE,
                              !.absent = IF @ < 2 THEN @ + 1 ELSE @]
     \/ /\ Running # {} /\ windows' = Removed /\ UNCHANGED troubles
        /\ obs' = [NewObs EXCEPT !.present = TRUE]
     \/ /\ Running # {} /\ windows' \in {windows, Removed} /\ Trouble
        /\ obs' = [NewObs EXCEPT !.present = TRUE, !.deleteError = TRUE]
     \/ /\ Trouble /\ UNCHANGED windows
        /\ obs' = [obs EXCEPT !.present = FALSE, !.queryError = TRUE]
  /\ UNCHANGED <<attemptVars, pc, proxy, loop, opened, err, result>>
ObservationEnds ==
  /\ pc = "observe" /\ obs # [NewObs EXCEPT !.deleteError = obs.deleteError]
  /\ \E p \in (IF obs.present THEN {Running # {}, TRUE} ELSE {FALSE}) :
       Finishes(~p /\ ~(obs.queryError /\ obs.absent < 2) /\ ~obs.deleteError)
  /\ UNCHANGED <<attemptVars, troubles, proxy, loop, windows, opened, result>>

----------------------------------------------------------------------------
(* What follows an attempt *)

Repeats == err = "proxy" /\ loop.tries <= RetryCount
Rotates == err = "proxy" \/ (err = "transient" /\ loop.rotations < MaxRotations)

RepeatsAttempt ==
  /\ pc = "after" /\ Repeats /\ Jump("create") /\ err' = "none"
  /\ loop' = [loop EXCEPT !.calls = 0]
  /\ UNCHANGED <<attemptVars, troubles, proxy, windows, opened, obs, result>>
(* The success of the proxy is recorded, and the result put together: a    *)
(* token, a password or a second factor that is missing does not fail it.  *)
MakesResult ==
  /\ pc = "after" /\ err = "none" /\ Jump("release")
  /\ \/ UNCHANGED <<err, troubles>>
     \/ Trouble /\ err' = "fatal"
  /\ UNCHANGED <<attemptVars, proxy, loop, windows, opened, obs, result>>
(* finally: release_proxy. *)
Releasing == pc = "release" \/ (pc = "after" /\ err # "none" /\ ~Repeats)
ReleasesProxy ==
  /\ Releasing
  /\ \/ /\ proxy' = NoProxy /\ UNCHANGED troubles
        /\ IF Rotates
           THEN /\ Jump("lease") /\ err' = "none"
                /\ loop' = [loop EXCEPT !.rotations = IF err = "transient" THEN @ + 1 ELSE @]
           ELSE Jump("end") /\ UNCHANGED <<loop, err>>
     \/ /\ Trouble /\ proxy' \in {proxy, NoProxy}
        /\ Jump("end") /\ err' = (IF err = "cancelled" THEN err ELSE "fatal") /\ UNCHANGED loop
  /\ UNCHANGED <<attemptVars, windows, opened, obs, result>>
ReleasesEmail ==
  /\ pc = "end" /\ Jump("return")
  /\ \/ released' = ~deleted /\ UNCHANGED troubles
     \/ Trouble /\ UNCHANGED released
  /\ UNCHANGED <<proxy, loop, windows, opened, obs, err, phase, account, deleted, result>>
Returns ==
  /\ pc = "return" /\ Jump("done")
  /\ result' = IF err = "none" THEN "success" ELSE "failed"
  /\ UNCHANGED <<attemptVars, troubles, proxy, loop, windows, opened, obs, err>>

(* ... and outside of it: what was asked for may be done, and the rest of  *)
(* the block that awaits it is not.                                        *)
CancelStops ==
  /\ Trouble /\ err # "cancelled" /\ err' = "cancelled" /\ obs' = NewObs
  /\ \/ pc \in {"roxy", "workspace"} /\ Jump("end") /\ UNCHANGED <<proxy, windows, released>>
     \/ pc = "lease" /\ Jump("end") /\ proxy' \in Eligible \cup {NoProxy}
        /\ UNCHANGED <<windows, released>>
     \/ pc \in {"delete", "observe", "after"} /\ Jump("after") /\ UNCHANGED <<proxy, released>>
        /\ \/ UNCHANGED windows
           \/ (pc = "delete" \/ (pc = "observe" /\ Running # {})) /\ windows' = Removed
     \/ Releasing /\ Jump("end") /\ proxy' \in {proxy, NoProxy} /\ UNCHANGED <<windows, released>>
     \/ pc = "end" /\ Jump("return") /\ released' \in {FALSE, ~deleted} /\ UNCHANGED <<proxy, windows>>
     \/ pc = "return" /\ UNCHANGED <<pc, proxy, windows, released>>
  /\ UNCHANGED <<loop, opened, phase, account, deleted, result>>

PrepareSteps ==
  \/ EnsuresRoxy \/ WaitsForWorkspace \/ LeasesProxy \/ RunsOutOfProxies \/ CreatesWindow
  \/ ListsWindows \/ OpensWindow \/ PollsOpening
FinishSteps ==
  \/ WorksOnPage \/ PageEnds \/ AttemptEnds \/ CancelStrikes \/ StartsCleanup \/ DeletesWindow
  \/ ObservesWindow \/ ObservationEnds \/ RepeatsAttempt \/ MakesResult \/ ReleasesProxy
  \/ ReleasesEmail \/ Returns \/ CancelStops
Done == pc = "done" /\ UNCHANGED vars
Next == PrepareSteps \/ FinishSteps \/ WindowStarts \/ Done
Spec == Init /\ [][Next]_vars

----------------------------------------------------------------------------

(* What the run relies on of its workers.  *)
Contract == INSTANCE WorkerContract
  WITH lease <- proxy # NoProxy, window <- Mine # {},
       email <- IF deleted THEN "deleted" ELSE IF released THEN "released" ELSE "reserved"
KeepsContract == Contract!Spec

============================================================================
