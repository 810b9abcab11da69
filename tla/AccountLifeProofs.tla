--------------------------- MODULE AccountLifeProofs ---------------------------
(***************************************************************************)
(* Proofs about AccountLife, for any proxies, any number of retries and    *)
(* runs of the script: a worker keeps the contract that the run which      *)
(* started it relies on, and what the script stores is what the site has.  *)
(***************************************************************************)
EXTENDS AccountLife, TLAPS

----------------------------------------------------------------------------
(* The worker *)

WindowKinds == {"made", "opening", "running", "late", "stray"}
Kinds(n) == (1 .. n) \X (Proxies \cup {NoProxy}) \X WindowKinds
Alone(ws) == \A v, w \in ws : v[1] = w[1] => v = w
Loops == [excluded : SUBSET Proxies, tries : Nat, rotations : Nat, calls : Nat, made : Nat]
Openings == [dir : Nat, asked : BOOLEAN, done : BOOLEAN]
Facts == account \in BOOLEAN /\ deleted \in BOOLEAN /\ released \in BOOLEAN

WorkerTyped ==
  /\ proxy \in Proxies \cup {NoProxy}
  /\ loop \in Loops /\ opened \in Openings /\ Facts
  /\ windows \subseteq Kinds(loop.made)

(* Where a window is, and in which state: a number is a window's own.      *)
WindowsKept ==
  /\ Alone(windows)
  /\ opened.done => \A w \in Mine : w[3] \in {"running", "stray"}
  /\ pc = "attempt" => Mine # {}
  /\ err = "none" /\ pc \in {"after", "release", "end", "return"} => Mine = {}

Holding == {"create", "list", "open", "poll", "attempt", "cleanup", "delete", "observe", "after",
            "release"}
Preparing == {"roxy", "workspace", "lease"}
Trying == Preparing \cup {"create", "list", "open", "poll"}

(* What holds at each place of run: above all, that the worker tries       *)
(* another attempt only while the account is not registered.               *)
Progress ==
  /\ pc \in Holding => proxy # NoProxy
  /\ pc \in Preparing => proxy = NoProxy
  /\ pc \in Trying => ~account
  /\ pc \in Trying \cup {"attempt"} => err = "none"
  /\ err \in {"proxy", "transient"} => ~account
  /\ phase \in {"proxy", "transient"} => ~account
  /\ pc = "attempt" => phase \in {"working", "ok", "proxy", "transient", "fatal"}
  /\ deleted => account
  /\ phase = "ok" => account /\ deleted
  /\ phase # "off" => pc = "attempt"
  /\ pc \notin {"return", "done"} => ~released
  /\ pc # "done" => result = "none"
  /\ pc \in {"open", "poll", "observe"} => ~opened.done
  /\ pc = "attempt" => opened.done
  /\ err = "none" /\ pc \in {"cleanup", "delete", "observe", "after", "release", "end", "return"} =>
       account /\ deleted /\ opened.done
  /\ err = "none" /\ pc \in {"end", "return"} => proxy = NoProxy

WorkerInv == WorkerTyped /\ WindowsKept /\ Progress

(* What becomes of the windows. *)

LEMMA TypedParts ==
  ASSUME WorkerTyped
  PROVE  /\ loop \in Loops /\ loop.made \in Nat /\ loop.calls \in Nat /\ loop.tries \in Nat
         /\ loop.rotations \in Nat /\ loop.excluded \in SUBSET Proxies
         /\ opened \in Openings /\ opened.dir \in Nat /\ opened.asked \in BOOLEAN
         /\ opened.done \in BOOLEAN /\ windows \subseteq Kinds(loop.made)
         /\ account \in BOOLEAN /\ deleted \in BOOLEAN /\ released \in BOOLEAN
  BY DEF WorkerTyped, Loops, Openings, Facts

LEMMA KindParts ==
  ASSUME NEW n \in Nat, NEW w \in Kinds(n)
  PROVE  w[1] \in 1 .. n /\ w[2] \in Proxies \cup {NoProxy} /\ w[3] \in WindowKinds
         /\ w = <<w[1], w[2], w[3]>>
  BY DEF Kinds

LEMMA KindMade ==
  ASSUME NEW n \in Nat, NEW m \in 1 .. n, NEW p \in Proxies \cup {NoProxy}, NEW k \in WindowKinds
  PROVE  /\ <<m, p, k>> \in Kinds(n) /\ <<m, p, k>>[1] = m /\ <<m, p, k>>[2] = p
         /\ <<m, p, k>>[3] = k
  BY DEF Kinds

(* A set of windows made from another by changing the states of some and   *)
(* leaving some out, none of them twice.                                   *)
Changed(ws, us) ==
  /\ \A u \in us : u[3] \in WindowKinds /\ u = <<u[1], u[2], u[3]>>
  /\ \A u \in us : \E w \in ws : u[1] = w[1] /\ u[2] = w[2]
  /\ Alone(us)

LEMMA ChangedKinds ==
  ASSUME NEW n \in Nat, NEW ws, ws \subseteq Kinds(n), NEW us, Changed(ws, us)
  PROVE  us \subseteq Kinds(n)
<1> SUFFICES ASSUME NEW u \in us PROVE u \in Kinds(n) OBVIOUS
<1>1. PICK w \in ws : u[1] = w[1] /\ u[2] = w[2] BY DEF Changed
<1>2. w[1] \in 1 .. n /\ w[2] \in Proxies \cup {NoProxy} BY KindParts
<1>3. u[3] \in WindowKinds /\ u = <<u[1], u[2], u[3]>> BY DEF Changed
<1> QED BY <1>1, <1>2, <1>3, KindMade

LEMMA BecomingSays ==
  ASSUME WorkerTyped, Alone(windows), NEW s \in WindowKinds
  PROVE  /\ Changed(windows, Becoming(s))
         /\ \A u \in Becoming(s) : u[1] = opened.dir => u[3] = s
         /\ Mine # {} => \E u \in Becoming(s) : u[1] = opened.dir
<1> DEFINE f(w) == IF w[1] = opened.dir THEN <<w[1], w[2], s>> ELSE w
<1>1. ASSUME NEW w \in windows
      PROVE  /\ f(w)[1] = w[1] /\ f(w)[2] = w[2] /\ f(w) = <<f(w)[1], f(w)[2], f(w)[3]>>
             /\ f(w)[3] \in WindowKinds /\ (w[1] = opened.dir => f(w)[3] = s)
  <2>1. w[1] \in 1 .. loop.made /\ w[3] \in WindowKinds /\ w = <<w[1], w[2], w[3]>>
    BY TypedParts, KindParts
  <2>2. CASE w[1] = opened.dir
    <3>1. f(w) = <<w[1], w[2], s>> BY <2>2
    <3> HIDE DEF f
    <3> QED BY <2>2, <3>1
  <2>3. CASE w[1] # opened.dir
    <3>1. f(w) = w BY <2>3
    <3> HIDE DEF f
    <3> QED BY <2>1, <2>3, <3>1
  <2> QED BY <2>2, <2>3
<1>2. Becoming(s) = {f(w) : w \in windows} BY DEF Becoming
<1> HIDE DEF f
<1>3. Alone(Becoming(s))
  <2> SUFFICES ASSUME NEW v \in windows, NEW w \in windows, f(v)[1] = f(w)[1]
               PROVE  f(v) = f(w)
    BY <1>2 DEF Alone
  <2>1. v[1] = w[1] BY <1>1
  <2> QED BY <2>1 DEF Alone
<1>4. Changed(windows, Becoming(s)) BY <1>1, <1>2, <1>3 DEF Changed
<1>5. \A u \in Becoming(s) : u[1] = opened.dir => u[3] = s BY <1>1, <1>2
<1>6. Mine # {} => \E u \in Becoming(s) : u[1] = opened.dir BY <1>1, <1>2 DEF Mine
<1> QED BY <1>4, <1>5, <1>6

LEMMA RemovedSays ==
  ASSUME WorkerTyped, Alone(windows)
  PROVE  /\ Changed(windows, Removed)
         /\ \A u \in Removed : u[1] = opened.dir =>
              \E w \in Mine : w[3] \in {"opening", "late"}
<1> DEFINE late(w) == <<w[1], w[2], "late">>
<1>1. ASSUME NEW w \in Mine
      PROVE  /\ late(w)[1] = w[1] /\ late(w)[2] = w[2] /\ late(w)[3] = "late"
             /\ late(w) = <<late(w)[1], late(w)[2], late(w)[3]>>
  OBVIOUS
<1>2. Removed = (windows \ Mine) \cup {late(w) : w \in InState({"opening", "late"})}
  BY DEF Removed
<1> HIDE DEF late
<1>3. ASSUME NEW w \in windows
      PROVE  w[3] \in WindowKinds /\ w = <<w[1], w[2], w[3]>>
  BY TypedParts, KindParts
<1>4. /\ InState({"opening", "late"}) \subseteq Mine /\ Mine \subseteq windows
      /\ \A w \in Mine : w[1] = opened.dir
      /\ \A w \in windows \ Mine : w[1] # opened.dir
      /\ \A w \in InState({"opening", "late"}) : w[3] \in {"opening", "late"}
  BY DEF InState, Mine
<1>5. Alone(Removed) BY <1>1, <1>2, <1>4 DEF Alone
<1>6. Changed(windows, Removed)
  <2>1. ASSUME NEW u \in Removed
        PROVE  u[3] \in WindowKinds /\ u = <<u[1], u[2], u[3]>>
               /\ \E w \in windows : u[1] = w[1] /\ u[2] = w[2]
    BY <1>1, <1>2, <1>3, <1>4 DEF WindowKinds
  <2> QED BY <1>5, <2>1 DEF Changed
<1>7. ASSUME NEW u \in Removed, u[1] = opened.dir
      PROVE  \E w \in Mine : w[3] \in {"opening", "late"}
  <2>1. u \notin windows \ Mine BY <1>4, <1>7
  <2>2. PICK w \in InState({"opening", "late"}) : u = late(w) BY <1>2, <2>1
  <2> QED BY <1>4, <2>2
<1> QED BY <1>6, <1>7

LEMMA StartingSays ==
  ASSUME WorkerTyped, Alone(windows), WindowStarts
  PROVE  /\ Changed(windows, windows')
         /\ \A u \in windows' : u \in windows \/ u[3] \in {"running", "stray"}
         /\ \A w \in windows : \E u \in windows' : u[1] = w[1]
<1>1. PICK x \in windows :
        windows' = (windows \ {x}) \cup
                     {<<x[1], x[2], IF x[3] = "late" THEN "stray" ELSE "running">>}
  BY DEF WindowStarts
<1> DEFINE y == <<x[1], x[2], IF x[3] = "late" THEN "stray" ELSE "running">>
<1>2. y[1] = x[1] /\ y[2] = x[2] /\ y[3] \in {"running", "stray"} /\ y = <<y[1], y[2], y[3]>>
  OBVIOUS
<1>3. windows' = (windows \ {x}) \cup {y} BY <1>1
<1> HIDE DEF y
<1>4. ASSUME NEW w \in windows
      PROVE  w[3] \in WindowKinds /\ w = <<w[1], w[2], w[3]>>
  BY TypedParts, KindParts
<1>5. Alone(windows') BY <1>2, <1>3 DEF Alone
<1>6. Changed(windows, windows')
  <2>1. ASSUME NEW u \in windows'
        PROVE  u[3] \in WindowKinds /\ u = <<u[1], u[2], u[3]>>
               /\ \E w \in windows : u[1] = w[1] /\ u[2] = w[2]
    BY <1>2, <1>3, <1>4 DEF WindowKinds
  <2> QED BY <1>5, <2>1 DEF Changed
<1>7. \A w \in windows : \E u \in windows' : u[1] = w[1] BY <1>2, <1>3
<1> QED BY <1>2, <1>3, <1>6, <1>7

(* What becomes of the counters. *)

LEMMA CountSays ==
  ASSUME NEW l \in Loops, NEW n \in Nat
  PROVE  /\ [l EXCEPT !.calls = n] \in Loops /\ [l EXCEPT !.calls = n].made = l.made
         /\ [l EXCEPT !.tries = n] \in Loops /\ [l EXCEPT !.tries = n].made = l.made
         /\ [l EXCEPT !.rotations = n] \in Loops /\ [l EXCEPT !.rotations = n].made = l.made
         /\ [l EXCEPT !.made = n] \in Loops /\ [l EXCEPT !.made = n].made = n
  BY DEF Loops

LEMMA CountBothSays ==
  ASSUME NEW l \in Loops, NEW n \in Nat, NEW m \in Nat
  PROVE  /\ [l EXCEPT !.calls = n, !.made = m] \in Loops
         /\ [l EXCEPT !.calls = n, !.made = m].made = m
  BY DEF Loops

LEMMA ExcludedSays ==
  ASSUME NEW l \in Loops, NEW x \in SUBSET Proxies
  PROVE  /\ [l EXCEPT !.excluded = x, !.tries = 0, !.calls = 0] \in Loops
         /\ [l EXCEPT !.excluded = x, !.tries = 0, !.calls = 0].made = l.made
  BY DEF Loops

LoopKept == loop' \in Loops /\ loop'.made = loop.made

LEMMA CountingLoop ==
  ASSUME WorkerTyped,
         \/ WaitsForWorkspace \/ LeasesProxy \/ ListsWindows \/ OpensWindow \/ PollsOpening
         \/ StartsCleanup \/ DeletesWindow \/ RepeatsAttempt \/ ReleasesProxy
  PROVE  LoopKept
<1>1. loop.calls + 1 \in Nat /\ loop.tries + 1 \in Nat /\ loop.rotations + 1 \in Nat /\ 0 \in Nat
  BY TypedParts
<1>2. loop \in Loops BY TypedParts
<1>3. CASE loop' = loop BY <1>2, <1>3 DEF LoopKept
<1>4. CASE \E n \in Nat : \/ loop' = [loop EXCEPT !.calls = n]
                          \/ loop' = [loop EXCEPT !.tries = n]
                          \/ loop' = [loop EXCEPT !.rotations = n]
  <2>1. PICK n \in Nat : \/ loop' = [loop EXCEPT !.calls = n]
                         \/ loop' = [loop EXCEPT !.tries = n]
                         \/ loop' = [loop EXCEPT !.rotations = n]
    BY <1>4
  <2>2. /\ [loop EXCEPT !.calls = n] \in Loops /\ [loop EXCEPT !.calls = n].made = loop.made
        /\ [loop EXCEPT !.tries = n] \in Loops /\ [loop EXCEPT !.tries = n].made = loop.made
        /\ [loop EXCEPT !.rotations = n] \in Loops
        /\ [loop EXCEPT !.rotations = n].made = loop.made
    BY <1>2, CountSays
  <2> QED BY <2>1, <2>2 DEF LoopKept
<1>5. CASE LeasesProxy
  <2>1. PICK p \in Eligible :
          loop' = [loop EXCEPT !.excluded = loop.excluded \cup {p}, !.tries = 0, !.calls = 0]
    BY <1>5 DEF LeasesProxy
  <2>2. loop.excluded \cup {p} \in SUBSET Proxies BY TypedParts DEF Eligible
  <2> QED BY <1>1, <1>2, <2>1, <2>2, ExcludedSays DEF LoopKept
<1>6. CASE WaitsForWorkspace \/ DeletesWindow
  BY <1>1, <1>3, <1>4, <1>6 DEF WaitsForWorkspace, DeletesWindow, Count
<1>7. CASE ListsWindows BY <1>3, <1>7 DEF ListsWindows
<1>8. CASE OpensWindow \/ PollsOpening
  <2>1. loop' = loop \/ loop' = [loop EXCEPT !.tries = loop.tries + 1]
    BY <1>8 DEF OpensWindow, PollsOpening, StartsAttempt, Count
  <2> QED BY <1>1, <1>3, <1>4, <2>1
<1>9. CASE StartsCleanup \/ RepeatsAttempt
  BY <1>1, <1>4, <1>9 DEF StartsCleanup, RepeatsAttempt
<1>10. CASE ReleasesProxy
  <2>1. \/ loop' = loop
        \/ loop' = [loop EXCEPT !.rotations = loop.rotations]
        \/ loop' = [loop EXCEPT !.rotations = loop.rotations + 1]
    BY <1>10 DEF ReleasesProxy
  <2> QED BY <1>1, <1>3, <1>4, <2>1, TypedParts
<1> QED BY <1>5, <1>6, <1>7, <1>8, <1>9, <1>10

LEMMA OtherLoop ==
  ASSUME WorkerTyped,
         \/ EnsuresRoxy \/ RunsOutOfProxies \/ WorksOnPage \/ PageEnds \/ AttemptEnds
         \/ CancelStrikes \/ CancelStops \/ ObservesWindow \/ ObservationEnds \/ MakesResult
         \/ ReleasesEmail \/ Returns \/ WindowStarts
  PROVE  LoopKept
<1>1. loop' = loop
  BY DEF EnsuresRoxy, RunsOutOfProxies, WorksOnPage, PageEnds, AttemptEnds, CancelStrikes,
     CancelStops, ObservesWindow, ObservationEnds, MakesResult, ReleasesEmail, Returns, WindowStarts
<1> QED BY <1>1, TypedParts DEF LoopKept

(* A window that is made gets the next number; it may be nobody's.         *)
LEMMA CreatingSays ==
  ASSUME WorkerInv, CreatesWindow
  PROVE  /\ loop' \in Loops /\ windows' \subseteq Kinds(loop'.made) /\ Alone(windows')
         /\ opened' \in Openings /\ ~opened'.done
         /\ \/ /\ pc' = "open" /\ err' = err
               /\ \E w \in windows' : w[1] = opened'.dir
            \/ /\ pc' = "list" /\ err' = err /\ opened' = NoWindow
            \/ /\ pc' = "cleanup" /\ err' \in {"fatal", "cancelled"} /\ opened' = NoWindow
<1> DEFINE n == loop.made + 1
           new == <<n, proxy, "made">>
<1>1. /\ WorkerTyped /\ Alone(windows) /\ loop.made \in Nat /\ n \in Nat /\ n \in 1 .. n
      /\ proxy \in Proxies \cup {NoProxy} /\ loop.calls + 1 \in Nat /\ loop \in Loops
  BY TypedParts DEF WorkerInv, WindowsKept, WorkerTyped
<1>2. /\ new \in Kinds(n) /\ new[1] = n
  BY <1>1, KindMade DEF WindowKinds
<1>3. windows \subseteq Kinds(n) /\ \A w \in windows : w[1] # n
  <2>1. ASSUME NEW w \in windows PROVE w \in Kinds(n) /\ w[1] # n
    <3>1. w[1] \in 1 .. loop.made /\ w[2] \in Proxies \cup {NoProxy} /\ w[3] \in WindowKinds
          /\ w = <<w[1], w[2], w[3]>>
      BY <1>1, TypedParts, KindParts
    <3>2. w[1] \in 1 .. n /\ w[1] # n BY <1>1, <3>1
    <3> QED BY <1>1, <3>1, <3>2, KindMade
  <2> QED BY <2>1
<1>4. Alone(windows \cup {new}) BY <1>1, <1>2, <1>3 DEF Alone
<1>5. NoWindow \in Openings /\ ~NoWindow.done BY DEF NoWindow, Openings
<1>6. [dir |-> n, asked |-> TRUE, done |-> FALSE] \in Openings BY <1>1 DEF Openings
<1>7. CASE /\ windows' = windows \cup {new} /\ loop' = [loop EXCEPT !.made = n]
           /\ GetsWindow(n) /\ err' = err
  <2>1. loop' \in Loops /\ loop'.made = n BY <1>1, <1>7, CountSays
  <2>2. opened' = [dir |-> n, asked |-> TRUE, done |-> FALSE] /\ pc' = "open"
    BY <1>7 DEF GetsWindow, Jump
  <2> QED BY <1>2, <1>3, <1>4, <1>6, <1>7, <2>1, <2>2
<1>8. CASE /\ windows' = windows \cup {new}
           /\ loop' = [loop EXCEPT !.calls = loop.calls + 1, !.made = n]
           /\ opened' = NoWindow /\ pc' = "list" /\ err' = err
  <2>1. /\ [loop EXCEPT !.calls = loop.calls + 1, !.made = n] \in Loops
        /\ [loop EXCEPT !.calls = loop.calls + 1, !.made = n].made = n
    <3> HIDE DEF n
    <3> QED BY <1>1, CountBothSays
  <2> QED BY <1>2, <1>3, <1>4, <1>5, <1>8, <2>1
<1>9. CASE /\ windows' = windows /\ opened' = NoWindow
           /\ loop' = loop \/ loop' = [loop EXCEPT !.calls = loop.calls + 1]
           /\ \/ pc' = "list" /\ err' = err
              \/ pc' = "cleanup" /\ err' \in {"fatal", "cancelled"}
  <2>1. /\ [loop EXCEPT !.calls = loop.calls + 1] \in Loops
        /\ [loop EXCEPT !.calls = loop.calls + 1].made = loop.made
    BY <1>1, CountSays
  <2>2. loop' \in Loops /\ loop'.made = loop.made BY <1>1, <1>9, <2>1
  <2> QED BY <1>1, <1>5, <1>9, <2>2, TypedParts
<1>10. CASE /\ windows' = windows \cup {new} /\ loop' = [loop EXCEPT !.made = n]
            /\ opened' = NoWindow /\ pc' = "cleanup" /\ err' = "cancelled"
  <2>1. loop' \in Loops /\ loop'.made = n BY <1>1, <1>10, CountSays
  <2> QED BY <1>2, <1>3, <1>4, <1>5, <1>10, <2>1
<1> QED BY <1>7, <1>8, <1>9, <1>10 DEF CreatesWindow, Count, Fails, Jump

(* Types *)

LEMMA WindowsUnchanged ==
  ASSUME WorkerTyped, Alone(windows)
  PROVE  Changed(windows, windows)
<1>1. \A w \in windows : w[3] \in WindowKinds /\ w = <<w[1], w[2], w[3]>>
  BY TypedParts, KindParts
<1> QED BY <1>1 DEF Changed

(* Only CreatesWindow makes windows.                                       *)
LEMMA WindowsChange ==
  ASSUME WorkerTyped, Alone(windows), PrepareSteps \/ FinishSteps \/ WindowStarts, ~CreatesWindow
  PROVE  LoopKept /\ Changed(windows, windows')
<1>1. windows' = windows => Changed(windows, windows') BY WindowsUnchanged
<1>2. ASSUME NEW s \in WindowKinds, windows' = Becoming(s) PROVE Changed(windows, windows')
  BY <1>2, BecomingSays
<1>3. windows' = Removed => Changed(windows, windows') BY RemovedSays
<1>4. CASE WindowStarts BY <1>4, StartingSays, OtherLoop
<1>5. CASE PrepareSteps
  <2>1. \/ windows' = windows \/ windows' = Becoming("running") \/ windows' = Becoming("opening")
    BY <1>5 DEF PrepareSteps, EnsuresRoxy, WaitsForWorkspace, LeasesProxy, RunsOutOfProxies,
       ListsWindows, OpensWindow, PollsOpening, Opens
  <2> QED BY <1>1, <1>2, <1>5, <2>1, CountingLoop, OtherLoop DEF PrepareSteps, WindowKinds
<1>6. CASE FinishSteps
  <2>1. windows' = windows \/ windows' = Removed \/ windows' = Becoming("opening")
    BY <1>6 DEF FinishSteps, WorksOnPage, PageEnds, AttemptEnds, CancelStrikes, StartsCleanup,
       DeletesWindow, ObservesWindow, ObservationEnds, RepeatsAttempt, MakesResult,
       ReleasesProxy, ReleasesEmail, Returns, CancelStops
  <2> QED BY <1>1, <1>2, <1>3, <1>6, <2>1, CountingLoop, OtherLoop DEF FinishSteps, WindowKinds
<1> QED BY <1>4, <1>5, <1>6

LEMMA OpenedNext ==
  ASSUME WorkerTyped, PrepareSteps \/ FinishSteps \/ WindowStarts, ~CreatesWindow
  PROVE  opened' \in Openings
<1>1. CASE opened' = opened BY <1>1, TypedParts
<1>2. CASE ListsWindows
  <2>1. ASSUME NEW w \in Recorded, GetsWindow(w[1]) PROVE opened' \in Openings
    <3>1. w[1] \in 1 .. loop.made BY TypedParts, KindParts DEF Recorded
    <3>2. w[1] \in Nat BY <3>1
    <3> QED BY <2>1, <3>2 DEF GetsWindow, Openings
  <2> QED BY <1>1, <1>2, <2>1 DEF ListsWindows
<1>3. CASE OpensWindow \/ PollsOpening
  BY <1>1, <1>3, TypedParts DEF OpensWindow, PollsOpening, StartsAttempt, Openings
<1> QED
  BY <1>1, <1>2, <1>3
     DEF PrepareSteps, EnsuresRoxy, WaitsForWorkspace, LeasesProxy, RunsOutOfProxies, FinishSteps,
         WorksOnPage, PageEnds, AttemptEnds, StartsCleanup, DeletesWindow, ObservesWindow,
         ObservationEnds, RepeatsAttempt, MakesResult, ReleasesProxy, ReleasesEmail, Returns,
         CancelStrikes, CancelStops, WindowStarts

LEMMA FactsNext ==
  ASSUME WorkerTyped, PrepareSteps \/ FinishSteps \/ WindowStarts
  PROVE  Facts' /\ proxy' \in Proxies \cup {NoProxy}
<1>1. Facts /\ proxy \in Proxies \cup {NoProxy} BY DEF WorkerTyped
<1>2. CASE PrepareSteps \/ WindowStarts
  BY <1>1, <1>2
     DEF PrepareSteps, EnsuresRoxy, WaitsForWorkspace, LeasesProxy, RunsOutOfProxies, Eligible,
         CreatesWindow, ListsWindows, OpensWindow, PollsOpening, StartsAttempt, WindowStarts,
         attemptVars, Facts
<1>3. CASE FinishSteps
  BY <1>1, <1>3
     DEF FinishSteps, WorksOnPage, PageEnds, AttemptEnds, CancelStrikes, StartsCleanup,
         DeletesWindow, ObservesWindow, ObservationEnds, RepeatsAttempt, MakesResult,
         ReleasesProxy, ReleasesEmail, Returns, CancelStops, Eligible, attemptVars, Facts,
         Attempt!Stores,
         Attempt!Deletes, Attempt!Ends
<1> QED BY <1>2, <1>3

LEMMA WorkerTypedNext ==
  ASSUME WorkerInv, PrepareSteps \/ FinishSteps \/ WindowStarts
  PROVE  WorkerTyped' /\ Alone(windows')
<1>1. WorkerTyped /\ Alone(windows) BY DEF WorkerInv, WindowsKept
<1>2. CASE CreatesWindow BY <1>1, <1>2, CreatingSays, FactsNext DEF WorkerTyped
<1>3. CASE ~CreatesWindow
  <2>1. LoopKept /\ Changed(windows, windows') BY <1>1, <1>3, WindowsChange
  <2>2. windows' \subseteq Kinds(loop'.made)
    BY <1>1, <2>1, TypedParts, ChangedKinds DEF LoopKept
  <2> QED BY <1>1, <1>3, <2>1, <2>2, OpenedNext, FactsNext DEF WorkerTyped, LoopKept, Changed
<1> QED BY <1>2, <1>3

(* The windows of the last attempt *)

LEMMA NoneAdded ==
  ASSUME Changed(windows, windows'), opened' = opened
  PROVE  Mine = {} => Mine' = {}
  BY DEF Changed, Mine

LEMMA WindowsKeptSame ==
  ASSUME WindowsKept, windows' = windows, opened' = opened,
         pc' = "attempt" => pc = "attempt",
         err' = "none" /\ pc' \in {"after", "release", "end", "return"} =>
           err = "none" /\ pc \in {"after", "release", "end", "return"}
  PROVE  WindowsKept'
<1>1. Mine' = Mine BY DEF Mine
<1> QED BY <1>1 DEF WindowsKept

LEMMA PrepareWindows ==
  ASSUME WorkerInv, PrepareSteps
  PROVE  WindowsKept'
<1>1. WorkerTyped /\ Alone(windows) /\ WindowsKept /\ Progress /\ Alone(windows')
  BY WorkerTypedNext DEF WorkerInv, WindowsKept
<1>2. CASE EnsuresRoxy \/ WaitsForWorkspace \/ LeasesProxy \/ RunsOutOfProxies
  BY <1>1, <1>2, WindowsKeptSame
     DEF EnsuresRoxy, WaitsForWorkspace, LeasesProxy, RunsOutOfProxies, Jump
<1>3. CASE CreatesWindow
  <2>1. ~opened'.done /\ pc' \in {"open", "list", "cleanup"} BY <1>3, CreatingSays
  <2> QED BY <1>1, <2>1 DEF WindowsKept
<1>4. CASE ListsWindows
  <2>1. ~opened'.done \/ opened' = opened
    BY <1>4 DEF ListsWindows, GetsWindow
  <2>2. windows' = windows /\ pc' \in {"open", "create", "cleanup"}
    BY <1>4 DEF ListsWindows, GetsWindow, Jump, Fails
  <2>3. CASE ~opened'.done BY <1>1, <2>2, <2>3 DEF WindowsKept
  <2>4. CASE opened' = opened BY <1>1, <2>2, <2>4, WindowsKeptSame
  <2> QED BY <2>1, <2>3, <2>4
<1>5. CASE OpensWindow
  <2>1. ~opened.done BY <1>1, <1>5 DEF Progress, OpensWindow
  <2>2. CASE Opens /\ StartsAttempt
    <3>1. windows' = Becoming("running") /\ Mine # {} BY <2>2 DEF Opens
    <3>2. opened' = [opened EXCEPT !.done = TRUE] /\ pc' = "attempt"
      BY <2>2 DEF StartsAttempt, Jump
    <3>3. opened'.dir = opened.dir BY <3>2, TypedParts, <1>1 DEF Openings
    <3>4. "running" \in WindowKinds BY DEF WindowKinds
    <3>5. /\ \A u \in windows' : u[1] = opened.dir => u[3] = "running"
          /\ \E u \in windows' : u[1] = opened.dir
      BY <1>1, <3>1, <3>4, BecomingSays
    <3> QED BY <1>1, <3>2, <3>3, <3>5 DEF WindowsKept, Mine
  <2>3. CASE opened' = opened /\ pc' \in {"poll", "cleanup"}
    BY <1>1, <2>1, <2>3 DEF WindowsKept
  <2> QED BY <1>5, <2>2, <2>3 DEF OpensWindow, Jump, Fails
<1>6. CASE PollsOpening
  <2>1. CASE Running # {} /\ StartsAttempt
    <3>1. PICK w \in Mine : w[3] \in {"running", "stray"} BY <2>1 DEF Running, InState
    <3>2. opened' = [opened EXCEPT !.done = TRUE] /\ pc' = "attempt"
      BY <2>1 DEF StartsAttempt, Jump
    <3>3. opened'.dir = opened.dir BY <3>2, TypedParts, <1>1 DEF Openings
    <3>4. windows' = windows BY <1>6 DEF PollsOpening
    <3>5. Mine' = Mine BY <3>3, <3>4 DEF Mine
    <3>6. \A v \in Mine : v = w BY <1>1 DEF Alone, Mine
    <3> QED BY <1>1, <3>1, <3>2, <3>5, <3>6 DEF WindowsKept
  <2>2. CASE opened' = opened /\ windows' = windows /\ pc' = "cleanup"
    BY <1>1, <2>2, WindowsKeptSame
  <2> QED BY <1>6, <2>1, <2>2 DEF PollsOpening, Fails, Jump
<1> QED BY <1>2, <1>3, <1>4, <1>5, <1>6 DEF PrepareSteps

(* After a deletion that worked, of a window that had started, it is gone. *)
LEMMA RemovedGone ==
  ASSUME WorkerTyped, WindowsKept, opened.done, windows' = Removed, opened' = opened
  PROVE  Mine' = {}
<1>1. \A u \in windows' : u[1] = opened.dir => \E w \in Mine : w[3] \in {"opening", "late"}
  BY RemovedSays DEF WindowsKept
<1> QED BY <1>1 DEF WindowsKept, Mine

LEMMA FinishWindows ==
  ASSUME WorkerInv, FinishSteps
  PROVE  WindowsKept'
<1>1. WorkerTyped /\ Alone(windows) /\ WindowsKept /\ Progress /\ Alone(windows')
  BY WorkerTypedNext DEF WorkerInv, WindowsKept
<1>2. CASE WorksOnPage \/ PageEnds \/ AttemptEnds \/ RepeatsAttempt \/ MakesResult \/ ReleasesEmail \/ Returns
  BY <1>1, <1>2, WindowsKeptSame
     DEF WorksOnPage, PageEnds, AttemptEnds, RepeatsAttempt, MakesResult, ReleasesEmail, Returns,
         Jump, Fails
<1>3. CASE ReleasesProxy
  BY <1>1, <1>3, WindowsKeptSame DEF ReleasesProxy, Releasing, Jump
<1>4. CASE CancelStrikes
  <2>1. pc' = "cleanup" /\ opened' = opened
        /\ (windows' = windows \/ (pc = "open" /\ windows' = Becoming("opening")))
    BY <1>4 DEF CancelStrikes, Fails, Jump
  <2>2. CASE windows' = windows BY <1>1, <2>1, <2>2, WindowsKeptSame
  <2>3. CASE pc = "open"
    <3>1. ~opened'.done BY <1>1, <2>1, <2>3 DEF Progress
    <3> QED BY <1>1, <2>1, <3>1 DEF WindowsKept
  <2> QED BY <2>1, <2>2, <2>3
<1>5. CASE StartsCleanup
  <2>1. windows' = windows /\ opened' = opened BY <1>5 DEF StartsCleanup
  <2>2. CASE opened.dir = 0
    <3>1. \A w \in windows : w[1] # 0
      <4>1. \A w \in windows : w[1] \in 1 .. loop.made BY <1>1, TypedParts, KindParts
      <4> QED BY <4>1
    <3>2. Mine = {} BY <2>2, <3>1 DEF Mine
    <3>3. Mine' = {} /\ pc' = "after"
      BY <1>5, <2>1, <2>2, <3>2 DEF Mine, StartsCleanup, Finishes, Jump
    <3> QED BY <1>1, <3>3 DEF WindowsKept
  <2>3. CASE opened.dir # 0
    BY <1>1, <1>5, <2>1, <2>3, WindowsKeptSame DEF StartsCleanup, Jump
  <2> QED BY <2>2, <2>3
<1>6. CASE DeletesWindow
  <2>1. pc = "delete" /\ opened' = opened /\ pc' \in {"delete", "observe", "after"}
    BY <1>6 DEF DeletesWindow, Finishes, Jump
  <2>2. \/ windows' = windows /\ (pc' = "after" => err' # "none")
        \/ windows' = Removed /\ (pc' = "after" /\ err' = "none" => err = "none")
    BY <1>6 DEF DeletesWindow, Finishes, Jump
  <2>3. CASE windows' = windows /\ (pc' = "after" => err' # "none")
    BY <1>1, <2>1, <2>3, WindowsKeptSame
  <2>4. CASE windows' = Removed /\ (pc' = "after" /\ err' = "none" => err = "none")
    <3>1. opened.done => Mine' = {} BY <1>1, <2>1, <2>4, RemovedGone
    <3>2. pc' = "after" /\ err' = "none" => opened.done BY <1>1, <2>1, <2>4 DEF Progress
    <3> QED BY <1>1, <2>1, <3>1, <3>2 DEF WindowsKept
  <2> QED BY <2>2, <2>3, <2>4
<1>7. CASE ObservesWindow
  <2>1. ~opened'.done /\ pc' = "observe"
    BY <1>1, <1>7 DEF ObservesWindow, Progress
  <2> QED BY <1>1, <2>1 DEF WindowsKept
<1>8. CASE ObservationEnds
  <2>1. err # "none" /\ pc = "observe" BY <1>1, <1>8 DEF ObservationEnds, Progress
  <2>2. err' # "none" /\ pc' = "after" BY <1>8, <2>1 DEF ObservationEnds, Finishes, Jump
  <2>3. windows' = windows /\ opened' = opened BY <1>8 DEF ObservationEnds
  <2> QED BY <1>1, <2>2, <2>3, WindowsKeptSame
<1>9. CASE CancelStops
  <2>1. /\ err' = "cancelled" /\ opened' = opened /\ pc' \in {"end", "after", "return"}
        /\ windows' = windows \/ windows' = Removed
    BY <1>9 DEF CancelStops, Jump
  <2>2. CASE windows' = windows BY <1>1, <2>1, <2>2, WindowsKeptSame
  <2>3. CASE windows' = Removed
    <3>1. opened.done => Mine' = {} BY <1>1, <2>1, <2>3, RemovedGone
    <3> QED BY <1>1, <2>1, <3>1 DEF WindowsKept
  <2> QED BY <2>1, <2>2, <2>3
<1> QED BY <1>2, <1>3, <1>4, <1>5, <1>6, <1>7, <1>8, <1>9 DEF FinishSteps

LEMMA StartingWindows ==
  ASSUME WorkerInv, WindowStarts
  PROVE  WindowsKept'
<1>1. WorkerTyped /\ Alone(windows) /\ WindowsKept /\ Alone(windows')
  BY WorkerTypedNext DEF WorkerInv, WindowsKept
<1>2. UNCHANGED <<pc, err, opened>> BY DEF WindowStarts
<1>3. /\ Changed(windows, windows')
      /\ \A u \in windows' : u \in windows \/ u[3] \in {"running", "stray"}
      /\ \A w \in windows : \E u \in windows' : u[1] = w[1]
  BY <1>1, StartingSays
<1>4. Mine = {} => Mine' = {} BY <1>2, <1>3, NoneAdded
<1>5. Mine # {} => Mine' # {} BY <1>2, <1>3 DEF Mine
<1>6. opened.done => \A u \in Mine' : u[3] \in {"running", "stray"}
  BY <1>1, <1>2, <1>3 DEF WindowsKept, Mine
<1> QED BY <1>1, <1>2, <1>4, <1>5, <1>6 DEF WindowsKept

(* Progress *)

LEMMA PrepareProgress ==
  ASSUME WorkerInv, PrepareSteps
  PROVE  Progress'
<1>1. Progress /\ WorkerTyped BY DEF WorkerInv
<1>2. CASE EnsuresRoxy \/ WaitsForWorkspace \/ RunsOutOfProxies
  BY <1>1, <1>2 DEF EnsuresRoxy, WaitsForWorkspace, RunsOutOfProxies, Progress, Jump, attemptVars,
     Holding, Preparing, Trying
<1>3. CASE LeasesProxy
  <2>1. proxy' # NoProxy BY <1>3, ProxiesAssumption DEF LeasesProxy, Eligible
  <2> QED BY <1>1, <1>3, <2>1 DEF LeasesProxy, Progress, Jump, attemptVars, Holding, Preparing,
          Trying
<1>4. CASE CreatesWindow
  <2>1. /\ ~opened'.done
        /\ \/ pc' = "cleanup" /\ err' \in {"fatal", "cancelled"}
           \/ pc' \in {"open", "list"} /\ err' = err
    BY <1>4, CreatingSays
  <2>2. pc = "create" /\ UNCHANGED <<phase, account, deleted, released, proxy, result>>
    BY <1>4 DEF CreatesWindow, attemptVars
  <2> QED BY <1>1, <2>1, <2>2 DEF Progress, Holding, Preparing, Trying
<1>5. CASE ListsWindows
  <2>1. \/ pc' = "cleanup" /\ err' = "fatal"
        \/ pc' = "open" /\ err' = err /\ ~opened'.done
        \/ pc' = "create" /\ err' = err
    BY <1>5 DEF ListsWindows, GetsWindow, Fails, Jump
  <2>2. pc = "list" /\ UNCHANGED <<phase, account, deleted, released, proxy, result>>
    BY <1>5 DEF ListsWindows, attemptVars
  <2> QED BY <1>1, <2>1, <2>2 DEF Progress, Holding, Preparing, Trying
<1>6. CASE OpensWindow \/ PollsOpening
  <2>1. pc \in {"open", "poll"} /\ UNCHANGED <<account, deleted, released, proxy, result>>
    BY <1>6 DEF OpensWindow, PollsOpening, attemptVars, StartsAttempt
  <2>2. \/ pc' = "cleanup" /\ err' = "notready" /\ phase' = phase
        \/ pc' = "poll" /\ err' = err /\ opened' = opened /\ phase' = phase
        \/ pc' = "attempt" /\ err' = err /\ opened'.done /\ phase' = "working"
    BY <1>1, <1>6, TypedParts
       DEF OpensWindow, PollsOpening, attemptVars, StartsAttempt, Fails, Jump, Openings
  <2> QED BY <1>1, <2>1, <2>2 DEF Progress, Holding, Preparing, Trying
<1> QED BY <1>2, <1>3, <1>4, <1>5, <1>6 DEF PrepareSteps

LEMMA FinishProgress ==
  ASSUME WorkerInv, FinishSteps
  PROVE  Progress'
<1>1. Progress /\ WorkerTyped BY DEF WorkerInv
<1>2. CASE WorksOnPage \/ PageEnds
  <2>1. pc = "attempt" /\ phase = "working" /\ UNCHANGED <<pc, err, opened, released, proxy, result>>
    BY <1>2 DEF WorksOnPage, PageEnds, Attempt!Stores, Attempt!Deletes, Attempt!Ends
  <2>2. \/ phase' = phase /\ account' = TRUE /\ deleted' = deleted
        \/ phase' = phase /\ account' = account /\ deleted' = TRUE /\ account
        \/ /\ account' = account /\ deleted' = deleted
           /\ \/ ~account /\ phase' \in {"proxy", "transient"}
              \/ phase' = "fatal"
              \/ account /\ deleted /\ phase' = "ok"
    BY <1>2 DEF WorksOnPage, PageEnds, Attempt!Stores, Attempt!Deletes, Attempt!Ends
  <2> QED BY <1>1, <2>1, <2>2 DEF Progress, Holding, Preparing, Trying
<1>3. CASE AttemptEnds
  <2>1. /\ pc = "attempt" /\ pc' = "cleanup" /\ phase' = "off" /\ phase # "working"
        /\ err' = IF phase = "ok" THEN "none" ELSE phase
        /\ UNCHANGED <<opened, account, deleted, released, proxy, result>>
    BY <1>3 DEF AttemptEnds, Fails, Jump
  <2>2. /\ proxy # NoProxy /\ ~released /\ result = "none" /\ opened.done
        /\ deleted => account
        /\ phase \in {"ok", "proxy", "transient", "fatal"}
        /\ phase \in {"proxy", "transient"} => ~account
        /\ phase = "ok" => account /\ deleted
    BY <1>1, <2>1 DEF Progress, Holding
  <2>3. err' = "none" => account /\ deleted BY <2>1, <2>2
  <2>4. err' \in {"proxy", "transient"} => ~account BY <2>1, <2>2
  <2> QED BY <2>1, <2>2, <2>3, <2>4 DEF Progress, Holding, Preparing, Trying
<1>4. CASE CancelStrikes
  BY <1>1, <1>4 DEF CancelStrikes, Fails, Jump, Progress, Holding, Preparing, Trying
<1>5. CASE StartsCleanup
  BY <1>1, <1>5 DEF StartsCleanup, Finishes, Jump, attemptVars, Progress, Holding, Preparing,
     Trying
<1>6. CASE DeletesWindow
  <2>1. /\ pc = "delete" /\ UNCHANGED <<opened, phase, account, deleted, released, proxy, result>>
        /\ \/ pc' \in {"delete"} /\ err' = err
           \/ pc' = "observe" /\ err' = err /\ ~opened.done
           \/ pc' = "after" /\ (err' = err \/ err' = "cleanup")
    BY <1>6 DEF DeletesWindow, Finishes, Jump, attemptVars, Observes
  <2> QED BY <1>1, <2>1 DEF Progress, Holding, Preparing, Trying
<1>7. CASE ObservesWindow \/ ObservationEnds
  <2>1. /\ pc = "observe" /\ UNCHANGED <<opened, phase, account, deleted, released, proxy, result>>
        /\ \/ pc' = "observe" /\ err' = err
           \/ pc' = "after" /\ (err' = err \/ err' = "cleanup")
    BY <1>7 DEF ObservesWindow, ObservationEnds, Finishes, Jump, attemptVars
  <2>2. ~opened.done /\ err # "none" BY <1>1, <2>1 DEF Progress
  <2> QED BY <1>1, <2>1, <2>2 DEF Progress, Holding, Preparing, Trying
<1>8. CASE RepeatsAttempt \/ MakesResult
  BY <1>1, <1>8 DEF RepeatsAttempt, MakesResult, Repeats, Jump, attemptVars, Progress, Holding,
     Preparing, Trying
<1>9. CASE ReleasesProxy
  <2>1. /\ pc = "release" \/ (pc = "after" /\ err # "none")
        /\ UNCHANGED <<opened, phase, account, deleted, released, result>>
        /\ \/ pc' = "lease" /\ proxy' = NoProxy /\ err' = "none" /\ err \in {"proxy", "transient"}
           \/ pc' = "end" /\ proxy' = NoProxy /\ err' = err
           \/ pc' = "end" /\ err' \in {"fatal", "cancelled"}
    BY <1>9 DEF ReleasesProxy, Releasing, Rotates, Jump, attemptVars
  <2> QED BY <1>1, <2>1 DEF Progress, Holding, Preparing, Trying
<1>10. CASE ReleasesEmail \/ Returns
  BY <1>1, <1>10 DEF ReleasesEmail, Returns, Jump, attemptVars, Progress, Holding, Preparing,
     Trying
<1>11. CASE CancelStops
  <2>1. /\ err' = "cancelled" /\ UNCHANGED <<opened, phase, account, deleted, result>>
        /\ \/ pc # "return" /\ pc' = "end" /\ released' = released
           \/ pc \in {"delete", "observe", "after"} /\ pc' = "after"
              /\ proxy' = proxy /\ released' = released
           \/ pc \in {"end", "return"} /\ pc' = "return"
    BY <1>11 DEF CancelStops, Releasing, Jump
  <2>2. pc # "attempt" /\ pc # "done" BY <1>11 DEF CancelStops, Releasing
  <2> QED BY <1>1, <2>1, <2>2 DEF Progress, Holding, Preparing, Trying
<1> QED BY <1>2, <1>3, <1>4, <1>5, <1>6, <1>7, <1>8, <1>9, <1>10, <1>11 DEF FinishSteps

LEMMA WorkerNext ==
  ASSUME WorkerInv, PrepareSteps \/ FinishSteps \/ WindowStarts
  PROVE  WorkerInv'
<1>1. WorkerTyped' BY WorkerTypedNext
<1>2. WindowsKept' BY PrepareWindows, FinishWindows, StartingWindows
<1>3. Progress'
  <2>1. CASE WindowStarts
    BY <2>1 DEF WorkerInv, WindowStarts, attemptVars, Progress
  <2> QED BY <2>1, PrepareProgress, FinishProgress
<1> QED BY <1>1, <1>2, <1>3 DEF WorkerInv

(* The account is paid: nothing of the worker is left but its windows.     *)
LEMMA PaidWorker ==
  ASSUME WorkerInv, BecomesPaid
  PROVE  WorkerInv'
<1>1. /\ pc = "done" /\ windows' = Mine /\ err' = "none"
      /\ loop' = [loop EXCEPT !.excluded = {}, !.tries = 0, !.rotations = 0, !.calls = 0]
      /\ UNCHANGED <<pc, proxy, opened, phase, account, deleted, released, result>>
  BY DEF BecomesPaid, attemptVars
<1>2. loop' \in Loops /\ loop'.made = loop.made
  <2>1. loop \in Loops BY DEF WorkerInv, WorkerTyped
  <2> QED BY <1>1, <2>1 DEF Loops
<1>3. Mine \subseteq windows /\ Mine' = Mine BY <1>1 DEF Mine
<1>4. WorkerTyped' BY <1>1, <1>2, <1>3 DEF WorkerInv, WorkerTyped, Facts
<1>5. WindowsKept' BY <1>1, <1>3 DEF WorkerInv, WindowsKept, Alone
<1>6. Progress' BY <1>1 DEF WorkerInv, Progress, Holding, Preparing, Trying
<1> QED BY <1>4, <1>5, <1>6 DEF WorkerInv

LEMMA WorkerLives ==
  ASSUME WorkerInv, [LifeNext]_<<vars, backfillVars>>
  PROVE  WorkerInv'
<1>1. CASE Working BY <1>1, WorkerNext DEF Working
<1>2. CASE BecomesPaid BY <1>2, PaidWorker
<1>3. CASE Completing \/ Rests \/ UNCHANGED <<vars, backfillVars>>
  <2>1. UNCHANGED <<pc, proxy, loop, windows, opened, err, phase, account, deleted, released, result>>
    BY <1>3 DEF Completing, Rests, vars, attemptVars
  <2>2. Mine' = Mine BY <2>1 DEF Mine
  <2> QED BY <2>1, <2>2
          DEF WorkerInv, WorkerTyped, Facts, WindowsKept, Progress
<1> QED BY <1>1, <1>2, <1>3 DEF LifeNext

LEMMA WorkerInit == ASSUME LifeInit PROVE WorkerInv
<1>1. loop \in Loops /\ loop.made = 0 /\ opened \in Openings /\ windows = {}
  BY DEF LifeInit, Init, Loops, Openings, NoWindow
<1>2. WorkerTyped BY <1>1 DEF LifeInit, Init, WorkerTyped, Facts
<1>3. WindowsKept BY <1>1 DEF LifeInit, Init, NoWindow, WindowsKept, Alone
<1>4. Progress BY DEF LifeInit, Init, Progress, Holding, Preparing, Trying
<1> QED BY <1>2, <1>3, <1>4 DEF WorkerInv

----------------------------------------------------------------------------
(* The contract of the worker *)

LEMMA WorkerStepKeepsContract ==
  ASSUME WorkerInv, WorkerInv', PrepareSteps \/ FinishSteps \/ WindowStarts
  PROVE  [Contract!Next]_(Contract!vars)
<1>1. Progress /\ WorkerTyped /\ WindowsKept /\ Alone(windows) BY DEF WorkerInv, WindowsKept
<1>2. CASE UNCHANGED <<proxy, account, deleted, released, result>> /\ (Mine' = {} \/ Mine # {})
  <2>1. CASE Mine # {} /\ Mine' = {}
    <3>1. Contract!Closes BY <1>2, <2>1 DEF Contract!Closes
    <3> QED BY <3>1 DEF Contract!Next
  <2>2. CASE (Mine # {}) = (Mine' # {})
    BY <1>2, <2>2 DEF Contract!vars
  <2> QED BY <1>2, <2>1, <2>2
<1>3. CASE UNCHANGED <<proxy, account, deleted, released, result>> /\ Mine = {} /\ Mine' # {}
           /\ pc \in {"create", "list"}
  <2>1. proxy # NoProxy /\ ~account /\ ~deleted /\ ~released /\ result = "none"
    BY <1>1, <1>3 DEF Progress, Holding, Trying
  <2>2. Contract!Opens BY <1>3, <2>1 DEF Contract!Opens
  <2> QED BY <2>2 DEF Contract!Next
<1>4. CASE /\ ~(CreatesWindow \/ ListsWindows)
           /\ UNCHANGED <<proxy, account, deleted, released, result>>
  <2>1. opened'.dir = opened.dir
    BY <1>1, <1>4, TypedParts
       DEF PrepareSteps, EnsuresRoxy, WaitsForWorkspace, LeasesProxy, RunsOutOfProxies,
           OpensWindow, PollsOpening, StartsAttempt, FinishSteps, WorksOnPage, PageEnds,
           AttemptEnds, StartsCleanup, DeletesWindow, ObservesWindow, ObservationEnds,
           RepeatsAttempt, MakesResult, ReleasesProxy, ReleasesEmail, Returns, CancelStrikes,
           CancelStops, WindowStarts, Openings
  <2>2. Changed(windows, windows') BY <1>1, <1>4, WindowsChange
  <2>3. Mine' = {} \/ Mine # {} BY <2>1, <2>2 DEF Changed, Mine
  <2> QED BY <1>2, <1>4, <2>3
<1>5. CASE CreatesWindow \/ ListsWindows
  <2>1. UNCHANGED <<proxy, account, deleted, released, result>> /\ pc \in {"create", "list"}
    BY <1>5 DEF CreatesWindow, ListsWindows, attemptVars
  <2> QED BY <1>2, <1>3, <2>1
<1>6. CASE CancelStops
  <2>1. /\ pc # "attempt" /\ opened' = opened /\ UNCHANGED <<account, deleted, result>>
        /\ \/ UNCHANGED <<proxy, released>>
           \/ pc = "lease" /\ UNCHANGED <<windows, released>>
           \/ Releasing /\ proxy' \in {proxy, NoProxy} /\ UNCHANGED <<windows, released>>
           \/ pc = "end" /\ released' \in {FALSE, ~deleted} /\ UNCHANGED <<proxy, windows>>
    BY <1>6 DEF CancelStops, Releasing
  <2>2. CASE UNCHANGED <<proxy, released>>
    <3>1. pc \notin {"create", "list"} BY <1>6 DEF CancelStops, Releasing
    <3>2. ~(CreatesWindow \/ ListsWindows) BY <3>1 DEF CreatesWindow, ListsWindows
    <3> QED BY <1>4, <2>1, <2>2, <3>2
  <2>3. CASE windows' = windows
    <3>1. Mine' = Mine BY <2>1, <2>3 DEF Mine
    <3>2. CASE UNCHANGED <<proxy, released>> BY <2>1, <3>1, <3>2 DEF Contract!vars
    <3>3. CASE pc = "lease" /\ released' = released /\ proxy' # NoProxy
      <4>1. proxy = NoProxy /\ ~account /\ ~deleted /\ ~released /\ result = "none"
        BY <1>1, <3>3 DEF Progress, Preparing, Trying
      <4>2. Contract!Leases BY <2>1, <3>1, <3>3, <4>1 DEF Contract!Leases
      <4> QED BY <4>2 DEF Contract!Next
    <3>4. CASE proxy # NoProxy /\ proxy' = NoProxy /\ released' = released
      <4>1. Contract!Returns BY <2>1, <3>1, <3>4 DEF Contract!Returns
      <4> QED BY <4>1 DEF Contract!Next
    <3>5. CASE pc = "end" /\ released' /\ ~deleted /\ proxy' = proxy
      <4>1. ~released /\ result = "none" BY <1>1, <3>5 DEF Progress
      <4>2. Contract!GivesBack BY <2>1, <3>1, <3>5, <4>1 DEF Contract!GivesBack
      <4> QED BY <4>2 DEF Contract!Next
    <3>6. pc = "lease" => proxy = NoProxy BY <1>1 DEF Progress, Preparing
    <3>7. pc = "end" => released = FALSE
      BY <1>1, TypedParts DEF Progress
    <3>8. released' = FALSE \/ released' = ~deleted \/ released' = released BY <2>1
    <3> QED BY <1>1, <2>1, <3>2, <3>3, <3>4, <3>5, <3>6, <3>7, <3>8, TypedParts
  <2> QED BY <2>1, <2>2, <2>3
<1>7. CASE LeasesProxy
  <2>1. proxy' # NoProxy BY <1>7, ProxiesAssumption DEF LeasesProxy, Eligible
  <2>2. /\ proxy = NoProxy /\ ~account /\ ~deleted /\ ~released /\ result = "none"
        /\ UNCHANGED <<account, deleted, released, result, windows, opened>>
    BY <1>1, <1>7 DEF LeasesProxy, Progress, Preparing, Trying, attemptVars
  <2>3. Mine' = Mine BY <2>2 DEF Mine
  <2>4. Contract!Leases BY <2>1, <2>2, <2>3 DEF Contract!Leases
  <2> QED BY <2>4 DEF Contract!Next
<1>8. CASE WorksOnPage
  <2>1. /\ pc = "attempt" /\ UNCHANGED <<released, proxy, result, windows, opened>>
        /\ \/ account' = TRUE /\ deleted' = deleted
           \/ account /\ deleted' = TRUE /\ account' = account
    BY <1>8 DEF WorksOnPage, Attempt!Stores, Attempt!Deletes
  <2>2. proxy # NoProxy /\ Mine # {} /\ ~released /\ result = "none" /\ (deleted => account)
    BY <1>1, <2>1 DEF Progress, WindowsKept, Holding
  <2>3. Mine' = Mine BY <2>1 DEF Mine
  <2>4. account \in BOOLEAN /\ deleted \in BOOLEAN BY <1>1, TypedParts
  <2>5. CASE ~account /\ account' = TRUE /\ deleted' = deleted
    <3>1. Contract!Registers BY <2>1, <2>2, <2>3, <2>5 DEF Contract!Registers
    <3> QED BY <3>1 DEF Contract!Next
  <2>6. CASE account /\ deleted' = TRUE /\ account' = account /\ ~deleted
    <3>1. Contract!DeletesEmail BY <2>1, <2>2, <2>3, <2>6 DEF Contract!DeletesEmail
    <3> QED BY <3>1 DEF Contract!Next
  <2>7. CASE account' = account /\ deleted' = deleted
    BY <2>1, <2>3, <2>7 DEF Contract!vars
  <2> QED BY <2>1, <2>4, <2>5, <2>6, <2>7
<1>9. CASE ReleasesProxy
  <2>1. /\ proxy # NoProxy /\ (proxy' = NoProxy \/ proxy' = proxy)
        /\ UNCHANGED <<account, deleted, released, result, windows, opened>>
    BY <1>1, <1>9 DEF ReleasesProxy, Releasing, Progress, Holding, attemptVars
  <2>2. Mine' = Mine BY <2>1 DEF Mine
  <2>3. CASE proxy' = NoProxy
    <3>1. Contract!Returns BY <2>1, <2>2, <2>3 DEF Contract!Returns
    <3> QED BY <3>1 DEF Contract!Next
  <2>4. CASE proxy' = proxy BY <2>1, <2>2, <2>4 DEF Contract!vars
  <2> QED BY <2>1, <2>3, <2>4
<1>10. CASE ReleasesEmail
  <2>1. /\ ~released /\ result = "none" /\ (released' = ~deleted \/ released' = released)
        /\ UNCHANGED <<account, deleted, proxy, result, windows, opened>>
    BY <1>1, <1>10 DEF ReleasesEmail, Progress
  <2>2. Mine' = Mine BY <2>1 DEF Mine
  <2>3. CASE released' /\ ~deleted
    <3>1. Contract!GivesBack BY <2>1, <2>2, <2>3 DEF Contract!GivesBack
    <3> QED BY <3>1 DEF Contract!Next
  <2>4. CASE ~(released' /\ ~deleted) BY <2>1, <2>2, <2>4 DEF Contract!vars
  <2> QED BY <2>3, <2>4
<1>11. CASE Returns
  <2>1. /\ pc = "return" /\ result' = IF err = "none" THEN "success" ELSE "failed"
        /\ UNCHANGED <<account, deleted, released, proxy, windows, opened>>
    BY <1>11 DEF Returns, attemptVars
  <2>2. /\ result = "none"
        /\ err = "none" => account /\ deleted /\ proxy = NoProxy /\ Mine = {}
    BY <1>1, <2>1 DEF Progress, WindowsKept
  <2>3. Mine' = Mine BY <2>1 DEF Mine
  <2>4. Contract!Ends BY <2>1, <2>2, <2>3 DEF Contract!Ends
  <2> QED BY <2>4 DEF Contract!Next
<1>12. CASE ~(\/ LeasesProxy \/ WorksOnPage \/ ReleasesProxy \/ ReleasesEmail \/ Returns
              \/ CreatesWindow \/ ListsWindows \/ CancelStops)
  <2>1. UNCHANGED <<proxy, account, deleted, released, result>>
    BY <1>12
       DEF PrepareSteps, EnsuresRoxy, WaitsForWorkspace, RunsOutOfProxies, OpensWindow,
           PollsOpening, StartsAttempt, FinishSteps, PageEnds, AttemptEnds, StartsCleanup,
           DeletesWindow, ObservesWindow, ObservationEnds, RepeatsAttempt, MakesResult,
           CancelStrikes, WindowStarts, attemptVars, Attempt!Ends
  <2> QED BY <1>4, <1>12, <2>1
<1> QED BY <1>5, <1>6, <1>7, <1>8, <1>9, <1>10, <1>11, <1>12

LEMMA LifeStepKeepsContract ==
  ASSUME WorkerInv, [LifeNext]_<<vars, backfillVars>>
  PROVE  [Contract!Next]_(Contract!vars)
<1>1. WorkerInv' BY WorkerLives
<1>2. CASE Working BY <1>1, <1>2, WorkerStepKeepsContract DEF Working
<1>3. CASE BecomesPaid \/ Completing \/ Rests \/ UNCHANGED <<vars, backfillVars>>
  <2>1. /\ UNCHANGED <<proxy, opened, account, deleted, released, result>>
        /\ windows' = windows \/ windows' = Mine
    BY <1>3 DEF BecomesPaid, Completing, Rests, vars, attemptVars
  <2>2. Mine' = Mine BY <2>1 DEF Mine
  <2> QED BY <2>1, <2>2 DEF Contract!vars
<1> QED BY <1>2, <1>3 DEF LifeNext

LEMMA WorkerInvariance == LifeSpec => []WorkerInv
<1>1. LifeInit => WorkerInv BY WorkerInit
<1>2. WorkerInv /\ [LifeNext]_<<vars, backfillVars>> => WorkerInv' BY WorkerLives
<1> QED BY <1>1, <1>2, PTL DEF LifeSpec

(* A worker process registers its address at most once, from a window      *)
(* behind a proxy it leases, takes nothing after that, and reports a       *)
(* success only when nothing is held any longer.                           *)
THEOREM WorkersKeepContract == LifeSpec => KeepsContract
<1>1. LifeInit => Contract!Init
  BY DEF LifeInit, Init, NoWindow, Mine, Contract!Init
<1>2. WorkerInv /\ [LifeNext]_<<vars, backfillVars>> => [Contract!Next]_(Contract!vars)
  BY LifeStepKeepsContract
<1> QED BY <1>1, <1>2, WorkerInvariance, PTL DEF LifeSpec, KeepsContract, Contract!Spec

----------------------------------------------------------------------------
(* The script *)

None == Backfill!None
Foreign == Backfill!Foreign
Secrets == Int
Errors == {"none", "retryable", "fatal", "account_deactivated"}
Sites == [totp : Secrets, password : Secrets, deactivated : BOOLEAN]
Docs == [totp : Secrets, password : Secrets, status : {"none", "running", "success", "failed"},
         error : Errors]
Locals == [totp : Secrets, password : Secrets, mine : SUBSET {"lock", "workspace", "proxy"},
           used : SUBSET {"totp", "code"}, submitted : BOOLEAN]
ScriptTyped ==
  /\ site \in Sites /\ doc \in Docs /\ local \in Locals
  /\ snap \in [totp : Secrets, password : Secrets]
  /\ attempt \in [n : Nat, error : Errors] /\ counts \in [runs : Nat, made : Nat]

(* Signing in, the script has what was stored when the run began. *)
Signing == {"lock", "roxy", "workspace", "proxy", "window", "email", "login"}
Enrolling == {"enroll", "activate", "storeTotp"}
Securing == {"reauth", "password"}

(* The secret: one that the site has and nobody stored is on its way to    *)
(* the document, or trouble is known to have lost it.                      *)
SecretKept ==
  /\ doc.totp # None => doc.totp = site.totp
  /\ at = "activate" => site.totp = None
  /\ at = "storeTotp" => local.totp = site.totp /\ doc.totp = None /\ local.totp # None
  /\ at # "storeTotp" /\ site.totp \notin {doc.totp, Foreign} => "totp" \in spoiled
  /\ snap.totp # None => doc.totp # None
  /\ at \in Signing => local.totp = snap.totp
  /\ at \in Securing \cup {"storePassword"} => doc.totp # None

(* The password: one is set only for an account that has none stored.      *)
PasswordKept ==
  /\ doc.password \in {None, site.password} \/ "password" \in spoiled
  /\ snap.password # None => doc.password # None
  /\ at \notin {"off", "idle"} =>
       \/ doc.password = snap.password
       \/ at \in {"finally", "result"} /\ attempt.error \in {"none", "fatal"}
  /\ at \in Signing \cup Enrolling => local.password = snap.password
  /\ at \in Securing => snap.password = None
  /\ at = "reauth" => local.password = None
  /\ at \in Signing \cup Enrolling \cup {"reauth"} => ~local.submitted
  /\ at = "password" /\ ~local.submitted => local.password = None
  /\ at = "password" /\ local.submitted => local.password # None
  /\ at = "storePassword" =>
       local.password # None /\ (local.password = site.password \/ "password" \in spoiled)

SuccessKept ==
  /\ at \notin {"finally", "result"} => attempt.error = "none"
  /\ at \in {"finally", "result"} /\ attempt.error = "none" =>
       doc.totp # None /\ doc.password # None
  /\ doc.status = "success" => doc.totp # None /\ doc.password # None

LeasesKept ==
  /\ held \ local.mine # {} => "leases" \in spoiled
  /\ at \in {"idle", "mark", "result"} /\ held # {} => "leases" \in spoiled

Untouched ==
  at = "off" => snap.totp = None /\ snap.password = None /\ held = {}

ScriptInv ==
  ScriptTyped /\ SecretKept /\ PasswordKept /\ SuccessKept /\ LeasesKept /\ Untouched

LEMMA Numbers ==
  /\ None \in Int /\ Foreign \in Int /\ Foreign # None /\ Backfill!Changed \in Int
  /\ Backfill!Changed # None /\ \A n \in Nat : n + 1 \in Int /\ n + 1 # None
  BY DEF None, Foreign, Backfill!None, Backfill!Foreign, Backfill!Changed

LEMMA ScriptParts ==
  ASSUME ScriptTyped
  PROVE  /\ site.totp \in Int /\ site.password \in Int /\ doc.totp \in Int /\ doc.password \in Int
         /\ snap.totp \in Int /\ snap.password \in Int /\ local.totp \in Int
         /\ local.password \in Int /\ local.submitted \in BOOLEAN
         /\ attempt.error \in Errors /\ counts.made \in Nat /\ attempt.n \in Nat
  BY DEF ScriptTyped, Sites, Docs, Locals, Secrets

(* What the assignments make of the records. *)

LEMMA DocSecret ==
  ASSUME NEW d \in Docs, NEW n \in Int
  PROVE  /\ [d EXCEPT !.totp = n] \in Docs /\ [d EXCEPT !.totp = n].totp = n
         /\ [d EXCEPT !.totp = n].password = d.password /\ [d EXCEPT !.totp = n].status = d.status
  BY DEF Docs, Secrets

LEMMA DocPassword ==
  ASSUME NEW d \in Docs, NEW n \in Int
  PROVE  /\ [d EXCEPT !.password = n] \in Docs /\ [d EXCEPT !.password = n].password = n
         /\ [d EXCEPT !.password = n].totp = d.totp /\ [d EXCEPT !.password = n].status = d.status
  BY DEF Docs, Secrets

LEMMA SiteSays ==
  ASSUME NEW a \in Sites, NEW n \in Int
  PROVE  /\ [a EXCEPT !.totp = n] \in Sites /\ [a EXCEPT !.totp = n].totp = n
         /\ [a EXCEPT !.totp = n].password = a.password
         /\ [a EXCEPT !.password = n] \in Sites /\ [a EXCEPT !.password = n].password = n
         /\ [a EXCEPT !.password = n].totp = a.totp
  BY DEF Sites, Secrets

LEMMA LocalTotp ==
  ASSUME NEW l \in Locals, NEW n \in Int
  PROVE  /\ [l EXCEPT !.totp = n] \in Locals
         /\ [l EXCEPT !.totp = n].totp = n
         /\ [l EXCEPT !.totp = n].password = l.password
         /\ [l EXCEPT !.totp = n].mine = l.mine
         /\ [l EXCEPT !.totp = n].submitted = l.submitted
  BY DEF Locals, Secrets

LEMMA LocalMine ==
  ASSUME NEW l \in Locals, NEW m \in SUBSET {"lock", "workspace", "proxy"}
  PROVE  /\ [l EXCEPT !.mine = m] \in Locals
         /\ [l EXCEPT !.mine = m].totp = l.totp
         /\ [l EXCEPT !.mine = m].password = l.password
         /\ [l EXCEPT !.mine = m].mine = m
         /\ [l EXCEPT !.mine = m].submitted = l.submitted
  BY DEF Locals, Secrets

LEMMA LocalUsed ==
  ASSUME NEW l \in Locals, NEW u \in SUBSET {"totp", "code"}
  PROVE  /\ [l EXCEPT !.used = u] \in Locals
         /\ [l EXCEPT !.used = u].totp = l.totp
         /\ [l EXCEPT !.used = u].password = l.password
         /\ [l EXCEPT !.used = u].mine = l.mine
         /\ [l EXCEPT !.used = u].submitted = l.submitted
  BY DEF Locals, Secrets

LEMMA LocalPassword ==
  ASSUME NEW l \in Locals, NEW n \in Int
  PROVE  /\ [l EXCEPT !.password = n, !.submitted = TRUE] \in Locals
         /\ [l EXCEPT !.password = n, !.submitted = TRUE].totp = l.totp
         /\ [l EXCEPT !.password = n, !.submitted = TRUE].password = n
         /\ [l EXCEPT !.password = n, !.submitted = TRUE].mine = l.mine
         /\ [l EXCEPT !.password = n, !.submitted = TRUE].submitted = TRUE
  BY DEF Locals, Secrets

LEMMA AttemptSays ==
  ASSUME NEW a \in [n : Nat, error : Errors], NEW e \in Errors
  PROVE  /\ [a EXCEPT !.error = e] \in [n : Nat, error : Errors]
         /\ [a EXCEPT !.error = e].error = e
         /\ \A n \in Nat : /\ Backfill!NewAttempt(n) \in [n : Nat, error : Errors]
                           /\ Backfill!NewAttempt(n).error = "none"
  BY DEF Backfill!NewAttempt, Errors

LEMMA NewLocalSays ==
  ASSUME NEW s \in [totp : Secrets, password : Secrets]
  PROVE  /\ Backfill!NewLocal(s) \in Locals /\ Backfill!NewLocal(s).totp = s.totp
         /\ Backfill!NewLocal(s).password = s.password /\ ~Backfill!NewLocal(s).submitted
  BY DEF Backfill!NewLocal, Locals, Secrets

LEMMA FailingSays ==
  ASSUME ScriptTyped, Backfill!FailsSomehow \/ \E e \in Errors \ {"none"} : Backfill!Fails(e)
  PROVE  /\ at' = "finally" /\ attempt' \in [n : Nat, error : Errors]
         /\ attempt'.error \in Errors \ {"none"}
<1>1. PICK e \in Errors \ {"none"} : Backfill!Fails(e) BY DEF Backfill!FailsSomehow, Errors
<1>2. attempt' = [attempt EXCEPT !.error = e] /\ at' = "finally"
  BY <1>1 DEF Backfill!Fails, Backfill!Go
<1> QED BY <1>2, AttemptSays DEF ScriptTyped

(* The steps that ask or answer: they change nothing that lasts.           *)
Asking ==
  \/ Backfill!FindsRoxy \/ Backfill!OpensWindow \/ Backfill!EntersEmail
  \/ Backfill!AnswersPassword \/ Backfill!AsksForCode \/ Backfill!AnswersCode
  \/ Backfill!AnswersTotp \/ Backfill!ReachesHome \/ Backfill!BeginsTotp
  \/ Backfill!Reauthenticates \/ Backfill!AnswersFactor \/ Backfill!PasswordTimesOut
LocalSame ==
  /\ local' \in Locals /\ local'.totp = local.totp /\ local'.password = local.password
  /\ local'.mine = local.mine /\ local'.submitted = local.submitted

LEMMA AskingLocal == ASSUME ScriptTyped, Asking PROVE LocalSame
<1>1. local \in Locals BY DEF ScriptTyped
<1>2. CASE local' = local BY <1>1, <1>2 DEF LocalSame
<1>3. ASSUME NEW u \in SUBSET {"totp", "code"}, local' = [local EXCEPT !.used = u]
      PROVE  LocalSame
  BY <1>1, <1>3, LocalUsed DEF LocalSame
<1>4. local.used \in SUBSET {"totp", "code"} BY <1>1 DEF Locals
<1>5. CASE Backfill!Reauthenticates BY <1>2, <1>3, <1>5 DEF Backfill!Reauthenticates
<1>6. CASE Backfill!AnswersFactor
  <2>1. page \in {"totp", "code"} BY <1>6 DEF Backfill!AnswersFactor
  <2>2. local.used \cup {page} \in SUBSET {"totp", "code"} BY <1>4, <2>1
  <2>3. local' = local \/ local' = [local EXCEPT !.used = local.used \cup {page}]
    BY <1>6 DEF Backfill!AnswersFactor
  <2> QED BY <1>2, <1>3, <2>2, <2>3
<1> QED BY <1>2, <1>5, <1>6
        DEF Asking, Backfill!FindsRoxy, Backfill!OpensWindow, Backfill!EntersEmail,
            Backfill!AnswersPassword, Backfill!AsksForCode, Backfill!AnswersCode,
            Backfill!AnswersTotp, Backfill!ReachesHome, Backfill!BeginsTotp,
            Backfill!PasswordTimesOut

Advances ==
  \/ at \in Signing /\ at' \in Signing
  \/ at = "login" /\ at' = "enroll" /\ local.totp = None
  \/ at = "login" /\ at' = "reauth" /\ local.totp # None /\ local.password = None
  \/ at = "login" /\ at' = "finally" /\ local.totp # None /\ local.password # None
  \/ at = "enroll" /\ at' = "activate" /\ site.totp = None
  \/ at \in Securing /\ at' = "password"
FailsAsking ==
  /\ at \in Signing \cup {"enroll"} \cup Securing /\ at' = "finally"
  /\ attempt' \in [n : Nat, error : Errors] /\ attempt'.error \in Errors \ {"none"}

LEMMA AskingShape ==
  ASSUME ScriptTyped, Asking
  PROVE  /\ UNCHANGED <<site, doc, snap, held, spoiled, counts>>
         /\ (attempt' = attempt /\ Advances) \/ FailsAsking
<1> DEFINE F == Backfill!FailsSomehow \/ \E e \in Errors \ {"none"} : Backfill!Fails(e)
<1>1. ASSUME F, at \in Signing \cup {"enroll"} \cup Securing PROVE FailsAsking
  BY <1>1, FailingSays DEF FailsAsking
<1>2. Backfill!Fails("fatal") => F BY DEF Errors
<1>3. Backfill!Fails("account_deactivated") => F BY DEF Errors
<1>4. Backfill!FailsSomehow => F OBVIOUS
<1> HIDE DEF F
<1>5. CASE Backfill!FindsRoxy \/ Backfill!OpensWindow \/ Backfill!EntersEmail
  BY <1>1, <1>4, <1>5
     DEF Backfill!FindsRoxy, Backfill!OpensWindow, Backfill!EntersEmail, Backfill!Go, Advances,
         Signing
<1>6. CASE Backfill!AnswersPassword \/ Backfill!AsksForCode \/ Backfill!AnswersCode \/ Backfill!AnswersTotp
  BY <1>1, <1>2, <1>3, <1>4, <1>6
     DEF Backfill!AnswersPassword, Backfill!AsksForCode, Backfill!AnswersCode,
         Backfill!AnswersTotp, Advances, Signing
<1>7. CASE Backfill!ReachesHome
  BY <1>7 DEF Backfill!ReachesHome, Backfill!Go, Backfill!Knows, Advances, None
<1>8. CASE Backfill!BeginsTotp
  BY <1>1, <1>2, <1>4, <1>8 DEF Backfill!BeginsTotp, Backfill!Go, Advances, None
<1>9. CASE Backfill!Reauthenticates \/ Backfill!AnswersFactor \/ Backfill!PasswordTimesOut
  BY <1>1, <1>2, <1>4, <1>9
     DEF Backfill!Reauthenticates, Backfill!AnswersFactor, Backfill!PasswordTimesOut,
         Backfill!Go, Advances, Securing
<1> QED BY <1>5, <1>6, <1>7, <1>8, <1>9 DEF Asking

LEMMA AskingNext == ASSUME ScriptInv, Asking PROVE ScriptInv'
<1>1. /\ ScriptTyped /\ SecretKept /\ PasswordKept /\ SuccessKept /\ LeasesKept /\ Untouched
      /\ attempt \in [n : Nat, error : Errors]
  BY DEF ScriptInv, ScriptTyped
<1>2. /\ UNCHANGED <<site, doc, snap, held, spoiled, counts>>
      /\ (attempt' = attempt /\ Advances) \/ FailsAsking
  BY <1>1, AskingShape
<1>3. LocalSame BY <1>1, AskingLocal
<1>4. ScriptTyped' BY <1>1, <1>2, <1>3 DEF ScriptTyped, LocalSame, FailsAsking
<1>5. SecretKept'
  <2>1. CASE FailsAsking
    BY <1>1, <1>2, <2>1 DEF SecretKept, FailsAsking, Signing, Securing
  <2>2. CASE Advances
    BY <1>1, <1>2, <1>3, <2>2 DEF SecretKept, LocalSame, Advances, Signing, Securing
  <2> QED BY <1>2, <2>1, <2>2
<1>6. PasswordKept'
  <2>1. CASE FailsAsking
    BY <1>1, <1>2, <2>1 DEF PasswordKept, FailsAsking, Signing, Securing, Enrolling
  <2>2. CASE Advances /\ attempt' = attempt
    BY <1>1, <1>2, <1>3, <2>2 DEF PasswordKept, LocalSame, Advances, Signing, Securing, Enrolling
  <2> QED BY <1>2, <2>1, <2>2
<1>7. SuccessKept'
  <2>1. CASE FailsAsking BY <1>1, <1>2, <2>1 DEF SuccessKept, FailsAsking
  <2>2. CASE Advances /\ attempt' = attempt
    <3>1. at \notin {"finally", "result"} /\ at' # "result"
      BY <2>2 DEF Advances, Signing, Securing
    <3>2. at' = "finally" => doc.totp # None /\ doc.password # None
      <4> SUFFICES ASSUME at' = "finally" PROVE doc.totp # None /\ doc.password # None
        OBVIOUS
      <4>1. at = "login" /\ local.totp # None /\ local.password # None
        BY <2>2 DEF Advances, Signing, Securing
      <4> QED BY <1>1, <4>1 DEF SecretKept, PasswordKept, Signing
    <3> QED BY <1>1, <1>2, <2>2, <3>1, <3>2 DEF SuccessKept
  <2> QED BY <1>2, <2>1, <2>2
<1>8. LeasesKept'
  <2>1. at' \notin {"idle", "mark", "result"}
    BY <1>2 DEF FailsAsking, Advances, Signing, Securing
  <2> QED BY <1>1, <1>2, <1>3, <2>1 DEF LeasesKept, LocalSame
<1>9. Untouched'
  <2>1. at' # "off" BY <1>2 DEF FailsAsking, Advances, Signing, Securing
  <2> QED BY <2>1 DEF Untouched
<1> QED BY <1>4, <1>5, <1>6, <1>7, <1>8, <1>9 DEF ScriptInv

(* The steps that take, keep and give back.                                *)

LEMMA TakingNext ==
  ASSUME ScriptInv, NEW l \in {"lock", "workspace", "proxy"}, NEW here \in Signing,
         NEW next \in Signing, Backfill!Leases(here, l, next)
  PROVE  ScriptInv'
<1> DEFINE more == [local EXCEPT !.mine = local.mine \cup {l}]
<1>1. /\ ScriptTyped /\ SecretKept /\ PasswordKept /\ SuccessKept /\ LeasesKept /\ Untouched
      /\ attempt \in [n : Nat, error : Errors] /\ local \in Locals
  BY DEF ScriptInv, ScriptTyped
<1>2. /\ more \in Locals /\ more.totp = local.totp /\ more.password = local.password
      /\ more.mine = local.mine \cup {l} /\ more.submitted = local.submitted
  <2>1. local.mine \cup {l} \in SUBSET {"lock", "workspace", "proxy"} BY <1>1 DEF Locals
  <2> QED BY <1>1, <2>1, LocalMine
<1> HIDE DEF more
<1>3. Backfill!Fails("fatal") => FailsAsking
  <2>1. "fatal" \in Errors \ {"none"} BY DEF Errors
  <2>2. at \in Signing BY DEF Backfill!Leases
  <2> QED BY <1>1, <2>1, <2>2, FailingSays DEF FailsAsking
<1>4. /\ UNCHANGED <<site, doc, snap, counts>> /\ at \in Signing
      /\ \/ /\ at' = next /\ held' = held \cup {l} /\ local' = more /\ attempt' = attempt
            /\ spoiled' = spoiled
         \/ /\ FailsAsking /\ local' = local
            /\ \/ held' = held /\ spoiled' = spoiled
               \/ held' = held \cup {l} /\ spoiled' = spoiled \cup {"leases"}
  BY <1>3 DEF Backfill!Leases, Backfill!Go, more
<1>5. ScriptTyped' BY <1>1, <1>2, <1>4 DEF ScriptTyped, FailsAsking
<1>6. local'.totp = local.totp /\ local'.password = local.password
      /\ local'.submitted = local.submitted /\ spoiled \subseteq spoiled'
      /\ at' \in Signing \cup {"finally"}
  BY <1>2, <1>4 DEF FailsAsking
<1>7. SecretKept' BY <1>1, <1>4, <1>6 DEF SecretKept, Signing, Securing
<1>8. PasswordKept' BY <1>1, <1>4, <1>6 DEF PasswordKept, Signing, Securing, Enrolling
<1>9. SuccessKept'
  <2>1. at' = "finally" => attempt'.error # "none" BY <1>4 DEF FailsAsking, Signing
  <2>2. at' # "finally" => attempt' = attempt BY <1>4 DEF FailsAsking
  <2>3. at' # "result" /\ at \notin {"finally", "result"} BY <1>4, <1>6 DEF Signing
  <2> QED BY <1>1, <1>4, <2>1, <2>2, <2>3 DEF SuccessKept
<1>10. LeasesKept'
  <2>1. at' \notin {"idle", "mark", "result"} BY <1>6 DEF Signing
  <2>2. held' \ local'.mine # {} => "leases" \in spoiled'
    BY <1>1, <1>2, <1>4 DEF LeasesKept
  <2> QED BY <2>1, <2>2 DEF LeasesKept
<1>11. Untouched' BY <1>6 DEF Untouched, Signing
<1> QED BY <1>5, <1>7, <1>8, <1>9, <1>10, <1>11 DEF ScriptInv

(* What the leases are does not matter to the rest.                        *)
LEMMA LeasesNext ==
  ASSUME ScriptInv, Backfill!LeasesLapse \/ Backfill!Releases
  PROVE  ScriptInv'
<1>1. /\ ScriptTyped /\ SecretKept /\ PasswordKept /\ SuccessKept /\ LeasesKept /\ Untouched
  BY DEF ScriptInv
<1>2. /\ UNCHANGED <<site, doc, snap, local, attempt, counts>> /\ spoiled \subseteq spoiled'
      /\ \/ at' = at /\ at \in {"idle", "mark"} /\ held' = {}
         \/ /\ at = "finally" /\ at' = "result"
            /\ (held' = held \ local.mine) \/ "leases" \in spoiled'
  BY DEF Backfill!LeasesLapse, Backfill!Releases, Backfill!Go
<1>3. ScriptTyped' BY <1>1, <1>2 DEF ScriptTyped
<1>4. SecretKept' BY <1>1, <1>2 DEF SecretKept, Signing, Securing
<1>5. PasswordKept' BY <1>1, <1>2 DEF PasswordKept, Signing, Securing, Enrolling
<1>6. SuccessKept' BY <1>1, <1>2 DEF SuccessKept
<1>7. LeasesKept' BY <1>1, <1>2 DEF LeasesKept
<1>8. Untouched' BY <1>1, <1>2 DEF Untouched
<1> QED BY <1>3, <1>4, <1>5, <1>6, <1>7, <1>8 DEF ScriptInv

(* The script around an attempt *)

LEMMA StartingNext ==
  ASSUME ScriptInv, Backfill!StartsRun
  PROVE  ScriptInv'
<1>1. /\ ScriptTyped /\ SecretKept /\ PasswordKept /\ SuccessKept /\ LeasesKept
  BY DEF ScriptInv
<1>2. /\ at = "idle" /\ at' = "mark" /\ snap' = [totp |-> doc.totp, password |-> doc.password]
      /\ counts' = [counts EXCEPT !.runs = counts.runs + 1]
      /\ attempt' = Backfill!NewAttempt(1)
      /\ UNCHANGED <<site, doc, local, held, spoiled>>
  BY DEF Backfill!StartsRun, Backfill!Go
<1>3. attempt' \in [n : Nat, error : Errors] /\ attempt'.error = "none"
  BY <1>2 DEF Backfill!NewAttempt, Errors
<1>4. snap' \in [totp : Secrets, password : Secrets] /\ snap'.totp = doc.totp
      /\ snap'.password = doc.password
  BY <1>1, <1>2, ScriptParts DEF Secrets
<1>5. counts' \in [runs : Nat, made : Nat] BY <1>1, <1>2 DEF ScriptTyped
<1>6. ScriptTyped' BY <1>1, <1>2, <1>3, <1>4, <1>5 DEF ScriptTyped
<1>7. SecretKept' BY <1>1, <1>2, <1>4 DEF SecretKept, Signing, Securing
<1>8. PasswordKept' BY <1>1, <1>2, <1>4 DEF PasswordKept, Signing, Securing, Enrolling
<1>9. SuccessKept' BY <1>1, <1>2, <1>3 DEF SuccessKept
<1>10. LeasesKept' BY <1>1, <1>2 DEF LeasesKept
<1>11. Untouched' BY <1>2 DEF Untouched
<1> QED BY <1>6, <1>7, <1>8, <1>9, <1>10, <1>11 DEF ScriptInv

LEMMA IdlingSays ==
  ASSUME ScriptTyped, Backfill!Idles
  PROVE  /\ at' = "idle" /\ attempt' \in [n : Nat, error : Errors] /\ attempt'.error = "none"
         /\ local' \in Locals
  BY NewLocalSays DEF Backfill!Idles, Backfill!Go, Backfill!NewAttempt, Errors, ScriptTyped

(* A document of which only the status and the error are written, and      *)
(* "success" with both secrets in it.                                      *)
DocMarked ==
  /\ doc' \in Docs /\ doc'.totp = doc.totp /\ doc'.password = doc.password
  /\ doc'.status = "success" => doc'.totp # None /\ doc'.password # None

(* What a step that ends in idle needs.                                    *)
LEMMA IdleNext ==
  ASSUME ScriptInv, Backfill!Idles, DocMarked, UNCHANGED <<site, snap, held, counts>>,
         spoiled \subseteq spoiled', held # {} => "leases" \in spoiled',
         at = "storeTotp" => "totp" \in spoiled'
  PROVE  ScriptInv'
<1>1. /\ ScriptTyped /\ SecretKept /\ PasswordKept /\ SuccessKept /\ LeasesKept
  BY DEF ScriptInv
<1>2. /\ at' = "idle" /\ attempt' \in [n : Nat, error : Errors] /\ attempt'.error = "none"
      /\ local' \in Locals
  BY <1>1, IdlingSays
<1>3. ScriptTyped' BY <1>1, <1>2 DEF ScriptTyped, DocMarked
<1>4. SecretKept' BY <1>1, <1>2 DEF SecretKept, DocMarked, Signing, Securing
<1>5. PasswordKept' BY <1>1, <1>2 DEF PasswordKept, DocMarked, Signing, Securing, Enrolling
<1>6. SuccessKept' BY <1>1, <1>2 DEF SuccessKept, DocMarked
<1>7. LeasesKept' BY <1>1, <1>2 DEF LeasesKept
<1>8. Untouched' BY <1>2 DEF Untouched
<1> QED BY <1>3, <1>4, <1>5, <1>6, <1>7, <1>8 DEF ScriptInv

LEMMA KilledNext == ASSUME ScriptInv, Backfill!Killed PROVE ScriptInv'
<1>1. /\ Backfill!Idles /\ UNCHANGED <<site, doc, snap, held, counts>> /\ spoiled \subseteq spoiled'
      /\ held # {} => "leases" \in spoiled'
      /\ at = "storeTotp" => "totp" \in spoiled'
  BY DEF Backfill!Killed
<1>2. DocMarked BY <1>1 DEF ScriptInv, ScriptTyped, SuccessKept, DocMarked
<1> QED BY <1>1, <1>2, IdleNext

LEMMA MarkingRunningNext == ASSUME ScriptInv, Backfill!MarksRunning PROVE ScriptInv'
<1> DEFINE marked == [doc EXCEPT !.status = "running", !.error = "none"]
<1>1. /\ ScriptTyped /\ SecretKept /\ PasswordKept /\ SuccessKept /\ LeasesKept /\ doc \in Docs
      /\ snap \in [totp : Secrets, password : Secrets]
  BY DEF ScriptInv, ScriptTyped
<1>2. /\ marked \in Docs /\ marked.totp = doc.totp /\ marked.password = doc.password
      /\ marked.status = "running"
  BY <1>1 DEF Docs, Errors
<1> HIDE DEF marked
<1>3. /\ at = "mark" /\ UNCHANGED <<site, snap, held, spoiled, counts>>
      /\ \/ /\ at' = "lock" /\ local' = Backfill!NewLocal(snap) /\ attempt' = attempt
            /\ doc' = marked
         \/ Backfill!Idles /\ doc' \in {doc, marked}
  BY DEF Backfill!MarksRunning, Backfill!Go, marked
<1>4. doc' \in {doc, marked} => DocMarked BY <1>1, <1>2 DEF DocMarked, SuccessKept
<1>5. CASE Backfill!Idles /\ doc' \in {doc, marked}
  <2>1. held # {} => "leases" \in spoiled' BY <1>1, <1>3 DEF LeasesKept
  <2> QED BY <1>3, <1>4, <1>5, <2>1, IdleNext
<1>6. CASE /\ at' = "lock" /\ local' = Backfill!NewLocal(snap) /\ attempt' = attempt
           /\ doc' = marked
  <2>1. /\ local' \in Locals /\ local'.totp = snap.totp /\ local'.password = snap.password
        /\ ~local'.submitted
    BY <1>1, <1>6, NewLocalSays
  <2>2. ScriptTyped' BY <1>1, <1>2, <1>3, <1>6, <2>1 DEF ScriptTyped
  <2>3. SecretKept' BY <1>1, <1>2, <1>3, <1>6, <2>1 DEF SecretKept, Signing, Securing
  <2>4. PasswordKept' BY <1>1, <1>2, <1>3, <1>6, <2>1 DEF PasswordKept, Signing, Securing, Enrolling
  <2>5. SuccessKept' BY <1>1, <1>2, <1>3, <1>6 DEF SuccessKept
  <2>6. LeasesKept' BY <1>1, <1>3, <1>6 DEF LeasesKept
  <2>7. Untouched' BY <1>6 DEF Untouched
  <2> QED BY <2>2, <2>3, <2>4, <2>5, <2>6, <2>7 DEF ScriptInv
<1> QED BY <1>3, <1>5, <1>6

LEMMA MarkingResultNext == ASSUME ScriptInv, Backfill!MarksResult PROVE ScriptInv'
<1> DEFINE status == IF attempt.error = "none" THEN "success" ELSE "failed"
           marked == [doc EXCEPT !.status = status, !.error = attempt.error]
<1>1. /\ ScriptTyped /\ SecretKept /\ PasswordKept /\ SuccessKept /\ LeasesKept /\ doc \in Docs
      /\ attempt \in [n : Nat, error : Errors] /\ attempt.n \in Nat /\ attempt.error \in Errors
  BY DEF ScriptInv, ScriptTyped
<1>2. /\ marked \in Docs /\ marked.totp = doc.totp /\ marked.password = doc.password
      /\ marked.status = status
  <2>1. status \in {"none", "running", "success", "failed"} OBVIOUS
  <2> HIDE DEF status
  <2> QED BY <1>1, <2>1 DEF Docs
<1>3. status = "success" => attempt.error = "none" OBVIOUS
<1> HIDE DEF marked, status
<1>4. /\ at = "result" /\ UNCHANGED <<site, snap, held, spoiled, counts>>
      /\ doc' \in {doc, marked}
      /\ \/ /\ attempt.error = "retryable" /\ at' = "mark" /\ local' = local
            /\ attempt' = Backfill!NewAttempt(attempt.n + 1)
         \/ Backfill!Idles
  BY DEF Backfill!MarksResult, Backfill!Retries, Backfill!Go, marked, status
<1>5. DocMarked BY <1>1, <1>2, <1>3, <1>4 DEF DocMarked, SuccessKept
<1>6. held # {} => "leases" \in spoiled' BY <1>1, <1>4 DEF LeasesKept
<1>7. CASE Backfill!Idles BY <1>4, <1>5, <1>6, <1>7, IdleNext
<1>8. CASE /\ attempt.error = "retryable" /\ at' = "mark" /\ local' = local
           /\ attempt' = Backfill!NewAttempt(attempt.n + 1)
  <2>1. attempt' \in [n : Nat, error : Errors] /\ attempt'.error = "none"
    BY <1>1, <1>8 DEF Backfill!NewAttempt, Errors
  <2>2. ScriptTyped' BY <1>1, <1>4, <1>5, <1>8, <2>1 DEF ScriptTyped, DocMarked
  <2>3. SecretKept' BY <1>1, <1>4, <1>5, <1>8 DEF SecretKept, DocMarked, Signing, Securing
  <2>4. PasswordKept'
    BY <1>1, <1>4, <1>5, <1>8 DEF PasswordKept, DocMarked, Signing, Securing, Enrolling
  <2>5. SuccessKept' BY <1>1, <1>4, <1>5, <1>8, <2>1 DEF SuccessKept, DocMarked
  <2>6. LeasesKept' BY <1>1, <1>4, <1>6, <1>8 DEF LeasesKept
  <2>7. Untouched' BY <1>8 DEF Untouched
  <2> QED BY <2>2, <2>3, <2>4, <2>5, <2>6, <2>7 DEF ScriptInv
<1> QED BY <1>4, <1>7, <1>8

(* The secret *)

LEMMA ActivatingNext == ASSUME ScriptInv, Backfill!ActivatesTotp PROVE ScriptInv'
<1> DEFINE n == counts.made + 1
           set == [site EXCEPT !.totp = n]
           known == [local EXCEPT !.totp = n]
           told == [counts EXCEPT !.made = n]
<1>1. /\ ScriptTyped /\ SecretKept /\ PasswordKept /\ SuccessKept /\ LeasesKept
      /\ local \in Locals /\ site \in Sites /\ n \in Int /\ n # None
      /\ told \in [runs : Nat, made : Nat]
  BY Numbers, ScriptParts DEF ScriptInv, ScriptTyped
<1>2. set \in Sites /\ set.totp = n /\ set.password = site.password
  <2> HIDE DEF n
  <2> QED BY <1>1, SiteSays
<1>3. /\ known \in Locals /\ known.totp = n /\ known.password = local.password
      /\ known.mine = local.mine /\ known.submitted = local.submitted
  <2> HIDE DEF n
  <2> QED BY <1>1, LocalTotp
<1>4. at = "activate" /\ UNCHANGED <<doc, snap, held>> BY DEF Backfill!ActivatesTotp
<1>5. ASSUME \E e \in Errors \ {"none"} : Backfill!Fails(e)
      PROVE  /\ at' = "finally" /\ attempt' \in [n : Nat, error : Errors]
             /\ attempt'.error \in Errors \ {"none"}
  BY <1>1, <1>5, FailingSays
<1>6. Backfill!FailsSomehow => \E e \in Errors \ {"none"} : Backfill!Fails(e)
  BY DEF Backfill!FailsSomehow, Errors
<1>7. Backfill!Fails("fatal") => \E e \in Errors \ {"none"} : Backfill!Fails(e) BY DEF Errors
<1> DEFINE F == /\ at' = "finally" /\ attempt' \in [n : Nat, error : Errors]
                /\ attempt'.error \in Errors \ {"none"}
<1>8. \/ /\ site' = set /\ local' = known /\ counts' = told /\ at' = "storeTotp"
         /\ attempt' = attempt /\ spoiled' = spoiled
      \/ F /\ UNCHANGED <<site, local, spoiled, counts>>
      \/ /\ F /\ site' = set /\ local' = known /\ counts' = told
         /\ spoiled' = spoiled \cup {"totp"}
  <2> HIDE DEF F
  <2>1. Backfill!FailsSomehow => F BY <1>5, <1>6 DEF F
  <2>2. Backfill!Fails("fatal") => F BY <1>5, <1>7 DEF F
  <2> QED BY <2>1, <2>2 DEF Backfill!ActivatesTotp, Backfill!Makes, Backfill!Go
<1> HIDE DEF set, known, told, n, F
<1>9. /\ local'.password = local.password /\ local'.mine = local.mine
      /\ site'.password = site.password /\ spoiled \subseteq spoiled'
      /\ at' \in {"storeTotp", "finally"}
      /\ at' = "storeTotp" => attempt' = attempt
      /\ at' = "finally" => attempt'.error # "none"
      /\ local'.submitted = local.submitted
  BY <1>2, <1>3, <1>8 DEF F
<1>10. ScriptTyped' BY <1>1, <1>2, <1>3, <1>4, <1>8 DEF ScriptTyped, F
<1>11. SecretKept'
  <2>1. site.totp = None /\ doc.totp = None BY <1>1, <1>4 DEF SecretKept
  <2> QED BY <1>1, <1>2, <1>3, <1>4, <1>8, <2>1 DEF SecretKept, F, Signing, Securing
<1>12. PasswordKept' BY <1>1, <1>4, <1>9 DEF PasswordKept, Signing, Securing, Enrolling
<1>13. SuccessKept' BY <1>1, <1>4, <1>9 DEF SuccessKept
<1>14. LeasesKept' BY <1>1, <1>4, <1>9 DEF LeasesKept
<1>15. Untouched' BY <1>9 DEF Untouched
<1> QED BY <1>10, <1>11, <1>12, <1>13, <1>14, <1>15 DEF ScriptInv

LEMMA FatalSays ==
  ASSUME ScriptTyped, Backfill!Fails("fatal")
  PROVE  /\ at' = "finally" /\ attempt' \in [n : Nat, error : Errors] /\ attempt'.error = "fatal"
<1>1. attempt' = [attempt EXCEPT !.error = "fatal"] /\ at' = "finally"
  BY DEF Backfill!Fails, Backfill!Go
<1>2. "fatal" \in Errors BY DEF Errors
<1> QED BY <1>1, <1>2, AttemptSays DEF ScriptTyped

LEMMA StoringSecretNext == ASSUME ScriptInv, Backfill!StoresTotp PROVE ScriptInv'
<1> DEFINE stored == [doc EXCEPT !.totp = local.totp]
<1>1. /\ ScriptTyped /\ SecretKept /\ PasswordKept /\ SuccessKept /\ LeasesKept /\ doc \in Docs
      /\ local.totp \in Int
  BY ScriptParts DEF ScriptInv, ScriptTyped
<1>2. /\ stored \in Docs /\ stored.totp = local.totp /\ stored.password = doc.password
      /\ stored.status = doc.status
  BY <1>1, DocSecret
<1> HIDE DEF stored
<1>3. /\ at = "storeTotp" /\ UNCHANGED <<site, snap, local, held, counts>>
      /\ \/ /\ doc' = stored /\ attempt' = attempt /\ spoiled' = spoiled
            /\ \/ at' = "finally" /\ local.password # None
               \/ at' = "reauth" /\ local.password = None
         \/ /\ Backfill!Fails("fatal") /\ doc' \in {doc, stored} /\ spoiled \subseteq spoiled'
            /\ doc' = doc => "totp" \in spoiled'
  BY DEF Backfill!StoresTotp, Backfill!Go, Backfill!Knows, None, stored
<1>4. /\ doc' \in Docs /\ doc'.password = doc.password /\ doc'.status = doc.status
      /\ doc'.totp = local.totp \/ (doc'.totp = doc.totp /\ "totp" \in spoiled')
      /\ spoiled \subseteq spoiled' /\ at' \in {"finally", "reauth"}
      /\ attempt' \in [n : Nat, error : Errors]
      /\ attempt'.error = "none" => doc'.totp = local.totp
      /\ at' = "reauth" => attempt'.error = "none" /\ local.password = None
      /\ at' = "finally" /\ attempt'.error = "none" => local.password # None
      /\ attempt'.error \in {"none", "fatal"}
  BY <1>1, <1>2, <1>3, FatalSays DEF ScriptTyped, SuccessKept
<1>5. ScriptTyped' BY <1>1, <1>3, <1>4 DEF ScriptTyped
<1>6. SecretKept' BY <1>1, <1>3, <1>4 DEF SecretKept, Signing, Securing
<1>7. PasswordKept' BY <1>1, <1>3, <1>4 DEF PasswordKept, Signing, Securing, Enrolling
<1>8. SuccessKept' BY <1>1, <1>3, <1>4 DEF SuccessKept, SecretKept, PasswordKept, Enrolling
<1>9. LeasesKept' BY <1>1, <1>3, <1>4 DEF LeasesKept
<1>10. Untouched' BY <1>4 DEF Untouched
<1> QED BY <1>5, <1>6, <1>7, <1>8, <1>9, <1>10 DEF ScriptInv

(* The password *)

LEMMA SubmittingNext == ASSUME ScriptInv, Backfill!SubmitsPassword PROVE ScriptInv'
<1> DEFINE n == counts.made + 1
           set == [site EXCEPT !.password = n]
           known == [local EXCEPT !.password = n, !.submitted = TRUE]
           told == [counts EXCEPT !.made = n]
<1>1. /\ ScriptTyped /\ SecretKept /\ PasswordKept /\ SuccessKept /\ LeasesKept
      /\ local \in Locals /\ site \in Sites /\ n \in Int /\ n # None
      /\ told \in [runs : Nat, made : Nat]
  BY Numbers, ScriptParts DEF ScriptInv, ScriptTyped
<1>2. set \in Sites /\ set.password = n /\ set.totp = site.totp
  <2> HIDE DEF n
  <2> QED BY <1>1, SiteSays
<1>3. /\ known \in Locals /\ known.totp = local.totp /\ known.password = n
      /\ known.mine = local.mine /\ known.submitted
  <2> HIDE DEF n
  <2> QED BY <1>1, LocalPassword
<1>4. /\ at = "password" /\ UNCHANGED <<doc, snap, held, spoiled>> /\ local' = known
      /\ counts' = told /\ site' \in {site, set}
      /\ (at' = at /\ attempt' = attempt) \/ Backfill!Fails("fatal")
  BY DEF Backfill!SubmitsPassword, set, known, told, n
<1> HIDE DEF set, known, told, n
<1>5. /\ site' \in Sites /\ site'.totp = site.totp /\ attempt' \in [n : Nat, error : Errors]
      /\ (at' = at /\ attempt' = attempt) \/ (at' = "finally" /\ attempt'.error = "fatal")
  BY <1>1, <1>2, <1>4, FatalSays DEF ScriptTyped
<1>6. ScriptTyped' BY <1>1, <1>3, <1>4, <1>5 DEF ScriptTyped
<1>7. SecretKept' BY <1>1, <1>3, <1>4, <1>5 DEF SecretKept, Signing, Securing
<1>8. PasswordKept'
  <2>1. doc.password = None BY <1>1, <1>4 DEF PasswordKept, Securing
  <2> QED BY <1>1, <1>3, <1>4, <1>5, <2>1 DEF PasswordKept, Signing, Securing, Enrolling
<1>9. SuccessKept' BY <1>1, <1>4, <1>5 DEF SuccessKept
<1>10. LeasesKept' BY <1>1, <1>3, <1>4, <1>5 DEF LeasesKept
<1>11. Untouched' BY <1>4, <1>5 DEF Untouched
<1> QED BY <1>6, <1>7, <1>8, <1>9, <1>10, <1>11 DEF ScriptInv

LEMMA ConfirmingNext == ASSUME ScriptInv, Backfill!ConfirmsPassword PROVE ScriptInv'
<1>1. /\ ScriptTyped /\ SecretKept /\ PasswordKept /\ SuccessKept /\ LeasesKept
  BY DEF ScriptInv
<1>2. /\ at = "password" /\ local.submitted /\ at' = "storePassword"
      /\ UNCHANGED <<site, doc, snap, local, held, attempt, counts>>
      /\ spoiled \subseteq spoiled'
      /\ local.password \in {None, site.password} \/ "password" \in spoiled'
  BY DEF Backfill!ConfirmsPassword, Backfill!Go, Backfill!Wrong, None
<1>3. ScriptTyped' BY <1>1, <1>2 DEF ScriptTyped
<1>4. SecretKept' BY <1>1, <1>2 DEF SecretKept, Signing, Securing
<1>5. PasswordKept' BY <1>1, <1>2 DEF PasswordKept, Signing, Securing, Enrolling
<1>6. SuccessKept' BY <1>1, <1>2 DEF SuccessKept
<1>7. LeasesKept' BY <1>1, <1>2 DEF LeasesKept
<1>8. Untouched' BY <1>2 DEF Untouched
<1> QED BY <1>3, <1>4, <1>5, <1>6, <1>7, <1>8 DEF ScriptInv

LEMMA StoringPasswordNext == ASSUME ScriptInv, Backfill!StoresPassword PROVE ScriptInv'
<1> DEFINE stored == [doc EXCEPT !.password = local.password]
<1>1. /\ ScriptTyped /\ SecretKept /\ PasswordKept /\ SuccessKept /\ LeasesKept /\ doc \in Docs
      /\ local.password \in Int
  BY ScriptParts DEF ScriptInv, ScriptTyped
<1>2. /\ stored \in Docs /\ stored.totp = doc.totp /\ stored.password = local.password
      /\ stored.status = doc.status
  BY <1>1, DocPassword
<1> HIDE DEF stored
<1>3. /\ at = "storePassword" /\ UNCHANGED <<site, snap, local, held, spoiled, counts>>
      /\ \/ doc' = stored /\ at' = "finally" /\ attempt' = attempt
         \/ Backfill!Fails("fatal") /\ doc' \in {doc, stored}
  BY DEF Backfill!StoresPassword, Backfill!Go, stored
<1>4. /\ doc' \in Docs /\ doc'.totp = doc.totp /\ doc'.status = doc.status
      /\ doc'.password \in {doc.password, local.password} /\ at' = "finally"
      /\ attempt' \in [n : Nat, error : Errors] /\ attempt'.error \in {"none", "fatal"}
      /\ attempt'.error = "none" => doc'.password = local.password
  BY <1>1, <1>2, <1>3, FatalSays DEF ScriptTyped, SuccessKept
<1>5. ScriptTyped' BY <1>1, <1>3, <1>4 DEF ScriptTyped
<1>6. SecretKept' BY <1>1, <1>3, <1>4 DEF SecretKept, Signing, Securing
<1>7. PasswordKept' BY <1>1, <1>3, <1>4 DEF PasswordKept, Signing, Securing, Enrolling
<1>8. SuccessKept' BY <1>1, <1>3, <1>4 DEF SuccessKept, SecretKept, PasswordKept, Enrolling
<1>9. LeasesKept' BY <1>1, <1>3, <1>4 DEF LeasesKept
<1>10. Untouched' BY <1>4 DEF Untouched
<1> QED BY <1>5, <1>6, <1>7, <1>8, <1>9, <1>10 DEF ScriptInv

(* The account is paid: what is stored is the site's, or a password that   *)
(* was.                                                                    *)
LEMMA PaidSays ==
  ASSUME NEW a \in Backfill!Paid
  PROVE  /\ a.site \in Sites /\ a.doc \in Docs /\ a.doc.status = "none"
         /\ a.doc.totp # None => a.doc.totp = a.site.totp
         /\ a.site.totp \in {a.doc.totp, Foreign}
<1>1. CASE \E s \in [totp : {None, Foreign}, password : {Foreign}, deactivated : BOOLEAN],
              t \in BOOLEAN, p \in {None, Foreign, Backfill!Changed} :
             a = [site |-> s, doc |-> [totp |-> IF t THEN s.totp ELSE None, password |-> p,
                                       status |-> "none", error |-> "none"]]
  <2>1. PICK s \in [totp : {None, Foreign}, password : {Foreign}, deactivated : BOOLEAN],
             t \in BOOLEAN, p \in {None, Foreign, Backfill!Changed} :
               a = [site |-> s, doc |-> [totp |-> IF t THEN s.totp ELSE None, password |-> p,
                                         status |-> "none", error |-> "none"]]
    BY <1>1
  <2>2. s \in Sites /\ s.totp \in {None, Foreign} BY Numbers DEF Sites, Secrets
  <2>3. a.site = s /\ a.doc = [totp |-> IF t THEN s.totp ELSE None, password |-> p,
                               status |-> "none", error |-> "none"]
    BY <2>1
  <2>4. a.doc \in Docs BY <2>2, <2>3, Numbers DEF Docs, Secrets, Errors
  <2>5. a.doc.totp = IF t THEN s.totp ELSE None BY <2>3
  <2>6. a.doc.status = "none" BY <2>3
  <2> QED BY <2>2, <2>3, <2>4, <2>5, <2>6
<1>2. CASE \E d \in BOOLEAN :
             a = [site |-> [totp |-> None, password |-> None, deactivated |-> d],
                  doc |-> [totp |-> None, password |-> None, status |-> "none",
                           error |-> "none"]]
  BY <1>2, Numbers DEF Sites, Docs, Secrets, Errors
<1> QED BY <1>1, <1>2 DEF Backfill!Paid, None, Foreign

LEMMA BecomingPaidNext == ASSUME ScriptInv, BecomesPaid PROVE ScriptInv'
<1>1. /\ ScriptTyped /\ SecretKept /\ PasswordKept /\ SuccessKept /\ LeasesKept /\ Untouched
  BY DEF ScriptInv
<1>2. PICK a \in Backfill!Paid : /\ site' = a.site /\ doc' = a.doc
                                 /\ spoiled' = Backfill!Wrong(a.doc, a.site)
  BY DEF BecomesPaid
<1>3. at = "off" /\ at' = "idle" /\ UNCHANGED <<snap, local, held, attempt, counts>>
  BY DEF BecomesPaid
<1>4. doc'.password \in {None, site'.password} \/ "password" \in spoiled'
  BY <1>2 DEF Backfill!Wrong, None
<1>5. /\ site' \in Sites /\ doc' \in Docs /\ doc'.status = "none"
      /\ doc'.totp # None => doc'.totp = site'.totp
      /\ site'.totp \in {doc'.totp, Foreign}
  BY <1>2, PaidSays
<1>6. ScriptTyped' BY <1>1, <1>3, <1>5 DEF ScriptTyped
<1>7. SecretKept' BY <1>1, <1>3, <1>5 DEF SecretKept, Untouched, Signing, Securing
<1>8. PasswordKept' BY <1>1, <1>3, <1>4 DEF PasswordKept, Untouched, Signing, Securing, Enrolling
<1>9. SuccessKept' BY <1>1, <1>3, <1>5 DEF SuccessKept
<1>10. LeasesKept' BY <1>1, <1>3 DEF LeasesKept, Untouched
<1>11. Untouched' BY <1>3 DEF Untouched
<1> QED BY <1>6, <1>7, <1>8, <1>9, <1>10, <1>11 DEF ScriptInv

LEMMA ScriptNext == ASSUME ScriptInv, Backfill!Steps PROVE ScriptInv'
<1>1. CASE Asking BY <1>1, AskingNext
<1>2. CASE Backfill!AcquiresLock \/ Backfill!AcquiresWorkspace \/ Backfill!AcquiresProxy
  <2>1. CASE Backfill!AcquiresLock
    <3>1. "lock" \in {"lock", "workspace", "proxy"} /\ "lock" \in Signing /\ "roxy" \in Signing
      BY DEF Signing
    <3> QED BY <2>1, <3>1, TakingNext DEF Backfill!AcquiresLock
  <2>2. CASE Backfill!AcquiresWorkspace
    <3>1. "workspace" \in {"lock", "workspace", "proxy"} /\ "workspace" \in Signing
          /\ "proxy" \in Signing
      BY DEF Signing
    <3> QED BY <2>2, <3>1, TakingNext DEF Backfill!AcquiresWorkspace
  <2>3. CASE Backfill!AcquiresProxy
    <3>1. "proxy" \in {"lock", "workspace", "proxy"} /\ "proxy" \in Signing
          /\ "window" \in Signing
      BY DEF Signing
    <3> QED BY <2>3, <3>1, TakingNext DEF Backfill!AcquiresProxy
  <2> QED BY <1>2, <2>1, <2>2, <2>3
<1> QED BY <1>1, <1>2, LeasesNext, StartingNext, KilledNext, MarkingRunningNext,
           MarkingResultNext, ActivatingNext, StoringSecretNext, SubmittingNext, ConfirmingNext,
           StoringPasswordNext
        DEF Backfill!Steps, Asking

LEMMA ScriptLives ==
  ASSUME ScriptInv, [LifeNext]_<<vars, backfillVars>>
  PROVE  ScriptInv'
<1>1. CASE UNCHANGED backfillVars
  <2>1. UNCHANGED <<at, site, doc, snap, local, held, attempt, spoiled, counts>>
    BY <1>1 DEF backfillVars
  <2>2. ScriptTyped' /\ LeasesKept' /\ Untouched'
    BY <2>1 DEF ScriptInv, ScriptTyped, LeasesKept, Untouched
  <2>3. SecretKept' BY <2>1 DEF ScriptInv, SecretKept
  <2>4. PasswordKept' BY <2>1 DEF ScriptInv, PasswordKept
  <2>5. SuccessKept' BY <2>1 DEF ScriptInv, SuccessKept
  <2> QED BY <2>2, <2>3, <2>4, <2>5 DEF ScriptInv
<1>2. CASE BecomesPaid BY <1>2, BecomingPaidNext
<1>3. CASE Completing BY <1>3, ScriptNext DEF Completing
<1> QED BY <1>1, <1>2, <1>3 DEF LifeNext, Working, Rests

LEMMA ScriptInit == ASSUME LifeInit PROVE ScriptInv
<1>1. /\ at = "off" /\ held = {} /\ spoiled = {}
      /\ site = [totp |-> None, password |-> None, deactivated |-> FALSE]
      /\ doc = [totp |-> None, password |-> None, status |-> "none", error |-> "none"]
      /\ snap = [totp |-> None, password |-> None] /\ local = Backfill!NewLocal(snap)
      /\ attempt = Backfill!NewAttempt(0) /\ counts = [runs |-> 0, made |-> 0]
  BY DEF LifeInit, Fresh, None
<1>2. site \in Sites /\ doc \in Docs /\ snap \in [totp : Secrets, password : Secrets]
      /\ counts \in [runs : Nat, made : Nat]
  BY <1>1, Numbers DEF Sites, Docs, Secrets, Errors
<1>3. attempt \in [n : Nat, error : Errors] /\ attempt.error = "none"
  BY <1>1 DEF Backfill!NewAttempt, Errors
<1>4. local \in Locals BY <1>1, <1>2, NewLocalSays
<1>5. /\ site.totp = None /\ doc.totp = None /\ doc.password = None /\ doc.status = "none"
      /\ snap.totp = None /\ snap.password = None
  BY <1>1
<1>6. SecretKept BY <1>1, <1>5 DEF SecretKept, Signing, Securing
<1>7. PasswordKept BY <1>1, <1>5 DEF PasswordKept, Signing, Securing, Enrolling
<1>8. SuccessKept BY <1>1, <1>3, <1>5 DEF SuccessKept
<1> QED BY <1>1, <1>2, <1>3, <1>4, <1>5, <1>6, <1>7, <1>8
        DEF ScriptInv, ScriptTyped, LeasesKept, Untouched

(* What is stored of an account that is being completed is what the site   *)
(* has of it, unless trouble is known to have come between; a success has  *)
(* both its secrets; and the script's leases are given back.               *)
THEOREM BackfillIsKept == LifeSpec => []BackfillKept
<1>1. LifeInit => ScriptInv BY ScriptInit
<1>2. ScriptInv /\ [LifeNext]_<<vars, backfillVars>> => ScriptInv' BY ScriptLives
<1>3. ScriptInv => BackfillKept
  BY DEF ScriptInv, SecretKept, PasswordKept, SuccessKept, LeasesKept, BackfillKept,
     Backfill!BackfillKept, None, Foreign
<1> QED BY <1>1, <1>2, <1>3, PTL DEF LifeSpec
==============================================================================
