---------------------------- MODULE AccountLife ----------------------------
(***************************************************************************)
(* An account from its registration by a worker process to its completion  *)
(* by the backfill script, once it is paid.                                *)
(***************************************************************************)
EXTENDS ProbeWorker

CONSTANT MaxRuns   \* bound: times the script is started

VARIABLES at, site, page, doc, snap, local, held, attempt, spoiled, counts
backfillVars == <<at, site, page, doc, snap, local, held, attempt, spoiled, counts>>

Backfill == INSTANCE AccountBackfill

Fresh == [totp |-> Backfill!None, password |-> Backfill!None]
LifeInit ==
  /\ Init /\ at = "off" /\ page = "blank" /\ held = {} /\ spoiled = {}
  /\ site = [totp |-> Backfill!None, password |-> Backfill!None, deactivated |-> FALSE]
  /\ doc = [totp |-> Backfill!None, password |-> Backfill!None,
             status |-> "none", error |-> "none"]
  /\ snap = Fresh /\ local = Backfill!NewLocal(Fresh) /\ attempt = Backfill!NewAttempt(0)
  /\ counts = [runs |-> 0, made |-> 0]

Working == (PrepareSteps \/ FinishSteps \/ WindowStarts) /\ UNCHANGED backfillVars
(* The worker is gone, with its memory, and the account is paid: 2FA and a  *)
(* password were set as it registered, or not, and stored, or not.         *)
BecomesPaid ==
  /\ pc = "done" /\ account /\ at = "off" /\ at' = "idle"
  /\ \E a \in Backfill!Paid : site' = a.site /\ doc' = a.doc
        /\ spoiled' = Backfill!Wrong(a.doc, a.site)
  /\ loop' = [loop EXCEPT !.excluded = {}, !.tries = 0, !.rotations = 0, !.calls = 0]
  /\ err' = "none" /\ windows' = Mine
  /\ UNCHANGED <<pc, proxy, opened, obs, attemptVars, result, troubles>>
  /\ UNCHANGED <<page, snap, local, held, attempt, counts>>
Completing ==
  /\ at # "off" /\ Backfill!Steps
  /\ UNCHANGED <<pc, proxy, loop, windows, opened, obs, err, attemptVars, result>>
Rests == pc = "done" /\ at \in {"off", "idle"} /\ UNCHANGED <<vars, backfillVars>>
LifeNext == Working \/ BecomesPaid \/ Completing \/ Rests
LifeSpec == LifeInit /\ [][LifeNext]_<<vars, backfillVars>>

(* AccountBackfill's invariant, from the registration of the account on.    *)
BackfillKept == Backfill!BackfillKept
============================================================================
