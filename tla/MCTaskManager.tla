---------------------------- MODULE MCTaskManager ----------------------------
(* TaskManager on small instances; tasks and threads are interchangeable.  *)
EXTENDS TaskManager, TLC

Symmetry == Permutations(Tasks) \cup Permutations(Threads)

(* The page's reducer applied to each event of evs at the places I.        *)
Reduction(shown, evs, I) ==
  LET page[i \in 0 .. Len(evs)] ==
        IF i = 0 THEN shown
        ELSE IF i \in I THEN Reduced(page[i - 1], evs[i]) ELSE page[i - 1]
  IN  page[Len(evs)]

(* Replayed is that reduction, for every page, three events and places.    *)
ASSUME ReplayIsReduction ==
  LET statuses == {"none", "succeeded"} IN
  \A shown \in [Tasks -> statuses],
    evs \in [1 .. 3 -> {Event(t, "stage", s) : t \in Tasks, s \in statuses}],
    I \in SUBSET (1 .. 3) :
      Replayed(shown, evs, I) = Reduction(shown, evs, I)
=============================================================================
