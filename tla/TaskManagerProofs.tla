-------------------------- MODULE TaskManagerProofs --------------------------
(***************************************************************************)
(* Proofs about TaskManager, for any number of tasks, threads and          *)
(* connections: exact slots, that no task is lost or run twice, that every *)
(* step is a step of the life cycle, and that a connection that keeps up   *)
(* is told how each task finished.                                         *)
(***************************************************************************)
EXTENDS TaskManager, FiniteSetTheorems, SequenceTheorems, WellFoundedInduction, TLAPS

Records == [status : Statuses, cancel : BOOLEAN, nonzero : BOOLEAN, old : BOOLEAN,
            retryOf : Tasks \cup {None}]

Underway == {"slot", "wait", "start"}   \* a thread here has not begun its task
Busy == {"running", "cancel_requested"}

(* The types of the state the streams do not touch.                        *)
Typed ==
  /\ record \in [Tasks -> Records]
  /\ pending \in Seq(Tasks)
  /\ thread \in [Threads -> [pc : {"idle"} \cup Underway \cup {"extract", "release"},
                             task : Tasks \cup {None}]]
  /\ activeSlots \in Nat /\ concurrency \in 1 .. Capacity
  /\ closing \in {"no", "cancelling", "closed"} /\ toCancel \in SUBSET Tasks

(* Every future waits once, for a task no thread has.                      *)
FuturesApart ==
  /\ \A i, j \in DOMAIN pending : pending[i] = pending[j] => i = j
  /\ \A i \in DOMAIN pending, h \in Threads : thread[h].task # pending[i]

(* No two threads have one task, and only an idle thread has none.         *)
ThreadsApart ==
  /\ \A h \in Threads : thread[h].pc = "idle" <=> thread[h].task = None
  /\ \A g, h \in Threads : thread[g].task = thread[h].task =>
                             g = h \/ thread[g].task = None

(* What the records R say of each task by itself ...                       *)
Sound(R) ==
  \A t \in Tasks :
    /\ R[t].status = "none" => R[t] = NoRecord
    /\ R[t].old => R[t].status \in Terminal \cup {"gone"}
    /\ R[t].cancel => R[t].status \notin {"none", "queued", "running"}

(* ... and how it fits where the task's future or thread is.               *)
Located(R) ==
  /\ \A i \in DOMAIN pending : R[pending[i]].status = "queued"
  /\ \A h \in Threads :
       /\ thread[h].pc \in Underway =>
            R[thread[h].task].status \in {"queued", "cancelled", "gone"}
       /\ thread[h].pc = "extract" => R[thread[h].task].status \in Busy
       /\ thread[h].pc = "release" =>
            R[thread[h].task].status \in Terminal \cup {"gone"}
  /\ \A t \in Tasks :
       /\ R[t].status \in Busy =>
            \E h \in Threads : thread[h].pc = "extract" /\ thread[h].task = t
       /\ R[t].status = "queued" =>
            \/ \E i \in DOMAIN pending : pending[i] = t
            \/ \E h \in Threads : thread[h].task = t /\ thread[h].pc \in Underway

(* A close() still has to cancel what is queued.                           *)
ToBeCancelled(R) ==
  /\ closing # "no" => \A t \in Tasks : R[t].status = "queued" => t \in toCancel
  /\ closing = "closed" => toCancel = {}
  /\ \A t \in toCancel : R[t].status # "none"

Fits(R) == Sound(R) /\ Located(R) /\ ToBeCancelled(R)

Shape == FuturesApart /\ ThreadsApart /\ Fits(record)

IInv == Typed /\ Shape /\ SlotsExact

-----------------------------------------------------------------------------
LEMMA Initially == Init => Typed /\ Shape
<1> SUFFICES ASSUME Init PROVE Typed /\ Shape OBVIOUS
<1> USE TaskManagerAssumption DEF Init, NoRecord, NoThread, Statuses, Terminal, Underway, Busy
<1>1. NoRecord \in Records BY DEF Records
<1>2. Typed BY <1>1 DEF Typed
<1>3. Shape
  BY <1>2 DEF Shape, FuturesApart, ThreadsApart, Fits, Sound, Located, ToBeCancelled
<1> QED BY <1>2, <1>3

(* Removing the terminal records that are too old keeps the rest in place. *)
LEMMA Cleaning ==
  ASSUME Typed, Shape
  PROVE  Cleaned \in [Tasks -> Records] /\ Fits(Cleaned)
<1> USE DEF Typed, Shape, Cleaned, Records, Statuses, Terminal
<1>1. Cleaned \in [Tasks -> Records] OBVIOUS
<1>2. Sound(Cleaned) BY DEF Fits, Sound, NoRecord
<1>3. \A t \in Tasks : Cleaned[t].status # record[t].status =>
         Cleaned[t].status = "gone" /\ record[t].status \in Terminal \cup {"gone"}
  BY DEF Fits, Sound
<1>4. Located(Cleaned)
  <2> HIDE DEF Cleaned
  <2> QED BY <1>1, <1>3 DEF Fits, Located, Underway, Busy, FuturesApart, ThreadsApart
<1>5. ToBeCancelled(Cleaned) BY <1>3 DEF Fits, ToBeCancelled
<1> QED BY <1>1, <1>2, <1>4, <1>5 DEF Fits

(* An action that leaves records, threads and futures alone.               *)
LEMMA NothingMoves ==
  ASSUME Typed, Shape, UNCHANGED <<record, pending, thread, toCancel, closing>>
  PROVE  Shape'
BY DEF Shape, FuturesApart, ThreadsApart, Fits, Sound, Located, ToBeCancelled

(* Only the records move, to records that fit.                             *)
LEMMA RecordsMove ==
  ASSUME Shape, UNCHANGED <<pending, thread, toCancel, closing>>, Fits(record')
  PROVE  Shape'
BY DEF Shape, FuturesApart, ThreadsApart, Fits, Sound, Located, ToBeCancelled

(* A task that enters: its record is new, its future the last.             *)
LEMMA Entering ==
  ASSUME Typed, Shape, NEW R \in [Tasks -> Records], Fits(R), closing = "no",
         NEW t \in Tasks, R[t].status = "none", NEW origin \in Tasks \cup {None},
         record' = [R EXCEPT ![t] = NewRecord(origin)],
         pending' = Append(pending, t), UNCHANGED <<thread, toCancel, closing>>
  PROVE  Shape' /\ record' \in [Tasks -> Records] /\ pending' \in Seq(Tasks)
<1> USE DEF Typed, Shape
<1>1. NewRecord(origin) \in Records /\ NewRecord(origin).status = "queued"
        /\ ~NewRecord(origin).old /\ ~NewRecord(origin).cancel
  BY DEF NewRecord, NoRecord, Records, Statuses
<1>2. record' \in [Tasks -> Records] /\ record'[t] = NewRecord(origin)
        /\ \A u \in Tasks : u # t => record'[u] = R[u]
  BY <1>1
<1>3. /\ pending' \in Seq(Tasks) /\ Len(pending') = Len(pending) + 1
      /\ \A i \in DOMAIN pending : pending'[i] = pending[i] /\ pending[i] # t
      /\ pending'[Len(pending) + 1] = t
  BY DEF Fits, Located
<1>4. \A h \in Threads : thread[h].task # t
  <2> SUFFICES ASSUME NEW h \in Threads, thread[h].task = t PROVE FALSE OBVIOUS
  <2>1. thread[h].pc # "idle" BY TaskManagerAssumption DEF ThreadsApart
  <2>2. thread[h].pc \in Underway \cup {"extract", "release"} BY <2>1
  <2>3. R[t].status \in {"queued", "cancelled", "gone"} \cup Busy \cup Terminal
    BY <2>2 DEF Fits, Located
  <2> QED BY <2>3 DEF Busy, Terminal
<1>5. FuturesApart'
  BY <1>3, <1>4 DEF FuturesApart
<1>6. ThreadsApart' BY DEF ThreadsApart
<1>7. Sound(record') BY <1>1, <1>2 DEF Fits, Sound
<1>8. Located(record)'
  <2>1. \A i \in DOMAIN pending' : record'[pending'[i]].status = "queued"
    BY <1>1, <1>2, <1>3 DEF Fits, Located
  <2>2. \A h \in Threads : thread[h].task \in Tasks =>
            record'[thread[h].task] = R[thread[h].task]
    BY <1>2, <1>4
  <2>3. \A h \in Threads : thread[h].pc # "idle" => thread[h].task \in Tasks
    BY DEF ThreadsApart
  <2>4. DOMAIN pending \subseteq DOMAIN pending' /\ Len(pending) + 1 \in DOMAIN pending'
    BY <1>3
  <2>5. \A u \in Tasks : record'[u].status = "queued" =>
           \/ \E i \in DOMAIN pending' : pending'[i] = u
           \/ \E h \in Threads : thread[h].task = u /\ thread[h].pc \in Underway
    BY <1>2, <1>3, <2>4 DEF Fits, Located
  <2>6. \A u \in Tasks : record'[u].status \in Busy =>
            \E h \in Threads : thread[h].pc = "extract" /\ thread[h].task = u
    BY <1>1, <1>2 DEF Fits, Located, Busy
  <2> QED BY <2>1, <2>2, <2>3, <2>5, <2>6 DEF Fits, Located, Underway
<1>9. ToBeCancelled(record)' BY <1>2, <1>1 DEF Fits, ToBeCancelled
<1> QED BY <1>2, <1>3, <1>5, <1>6, <1>7, <1>8, <1>9 DEF Fits

(* A future that is withdrawn: the others stay.                            *)
LEMMA Withdrawing ==
  ASSUME Typed, FuturesApart, NEW t \in Tasks, Withdraws(t)
  PROVE  /\ pending' \in Seq(Tasks)
         /\ \A i \in DOMAIN pending' : \E j \in DOMAIN pending :
               pending[j] = pending'[i] /\ pending[j] # t
         /\ \A j \in DOMAIN pending :
               pending[j] = t \/ \E i \in DOMAIN pending' : pending'[i] = pending[j]
         /\ \A i, j \in DOMAIN pending' : pending'[i] = pending'[j] => i = j
<1> USE DEF Typed, FuturesApart
<1>1. CASE ~\E i \in DOMAIN pending : pending[i] = t
  BY <1>1 DEF Withdraws
<1>2. CASE \E i \in DOMAIN pending : pending[i] = t
  <2> DEFINE i == CHOOSE i \in DOMAIN pending : pending[i] = t
  <2>1. /\ i \in 1 .. Len(pending) /\ pending[i] = t
        /\ Len(pending) \in Nat /\ Len(pending) >= 1
    BY <1>2
  <2>2. pending' = [j \in 1 .. Len(pending) - 1 |-> pending[IF j < i THEN j ELSE j + 1]]
    BY <1>2 DEF Withdraws
  <2> HIDE DEF i
  <2>3. \A j \in 1 .. Len(pending) - 1 :
           /\ (IF j < i THEN j ELSE j + 1) \in 1 .. Len(pending)
           /\ (IF j < i THEN j ELSE j + 1) # i
    BY <2>1
  <2>4. pending' \in Seq(Tasks) /\ DOMAIN pending' = 1 .. Len(pending) - 1
    <3>1. pending' \in [1 .. Len(pending) - 1 -> Tasks] BY <2>2, <2>3
    <3> QED BY <2>1, <3>1, IsASeq
  <2>5. \A k \in DOMAIN pending' : \E j \in DOMAIN pending :
               pending[j] = pending'[k] /\ pending[j] # t
    BY <2>1, <2>2, <2>3, <2>4
  <2>6. \A j \in DOMAIN pending :
               pending[j] = t \/ \E k \in DOMAIN pending' : pending'[k] = pending[j]
    <3> SUFFICES ASSUME NEW j \in DOMAIN pending, j # i
                 PROVE  \E k \in DOMAIN pending' : pending'[k] = pending[j]
      BY <2>1
    <3>1. CASE j < i BY <2>1, <2>2, <2>4, <3>1
    <3>2. CASE j > i
      <4>1. j - 1 \in DOMAIN pending' /\ pending'[j - 1] = pending[j]
        BY <2>1, <2>2, <2>4, <3>2
      <4> QED BY <4>1
    <3> QED BY <2>1, <3>1, <3>2
  <2>7. \A k, j \in DOMAIN pending' : pending'[k] = pending'[j] => k = j
    BY <2>1, <2>2, <2>3, <2>4
  <2> QED BY <2>4, <2>5, <2>6, <2>7
<1> QED BY <1>1, <1>2

(* A cancellation of t in records that fit: they fit, and t is not queued. *)
LEMMA Cancelling ==
  ASSUME Typed, Shape, NEW R \in [Tasks -> Records], Fits(R),
         NEW t \in Tasks, R[t].status \in Busy \cup {"queued"}, CancelEffect(t, R),
         UNCHANGED <<thread, closing>>, toCancel' \in {toCancel, toCancel \ {t}}
  PROVE  Shape' /\ record' \in [Tasks -> Records] /\ pending' \in Seq(Tasks)
<1> USE DEF Typed, Shape
<1>1. /\ record' = [R EXCEPT ![t] = CancelRecord(@)]
      /\ IF R[t].status = "queued" THEN Withdraws(t) ELSE UNCHANGED pending
  BY DEF CancelEffect
<1>2. /\ CancelRecord(R[t]) \in Records
      /\ CancelRecord(R[t]).status =
            IF R[t].status = "queued" THEN "cancelled" ELSE "cancel_requested"
      /\ CancelRecord(R[t]).old = R[t].old
  BY DEF CancelRecord, Records, Statuses, Busy, Terminal
<1>3. record' \in [Tasks -> Records] /\ record'[t] = CancelRecord(R[t])
        /\ \A u \in Tasks : u # t => record'[u] = R[u]
  BY <1>1, <1>2
<1>4. /\ pending' \in Seq(Tasks)
      /\ \A i \in DOMAIN pending' : \E j \in DOMAIN pending :
            pending[j] = pending'[i] /\ pending[j] # t
      /\ \A j \in DOMAIN pending :
            pending[j] = t \/ \E i \in DOMAIN pending' : pending'[i] = pending[j]
      /\ \A i, j \in DOMAIN pending' : pending'[i] = pending'[j] => i = j
  <2>1. CASE R[t].status = "queued" BY <1>1, <2>1, Withdrawing
  <2>2. CASE R[t].status # "queued"
    BY <1>1, <2>2 DEF Fits, Located, FuturesApart
  <2> QED BY <2>1, <2>2
<1>5. FuturesApart' BY <1>4 DEF FuturesApart
<1>6. ThreadsApart' BY DEF ThreadsApart
<1>7. Sound(record')
  BY <1>2, <1>3 DEF Fits, Sound, Busy, Terminal
<1>8. Located(record)'
  <2>1. \A i \in DOMAIN pending' : record'[pending'[i]].status = "queued"
    BY <1>3, <1>4 DEF Fits, Located
  <2>2. \A h \in Threads : thread[h].pc # "idle" => thread[h].task \in Tasks
    BY DEF ThreadsApart
  <2>3. \A h \in Threads :
           /\ thread[h].pc \in Underway =>
                record'[thread[h].task].status \in {"queued", "cancelled", "gone"}
           /\ thread[h].pc = "extract" => record'[thread[h].task].status \in Busy
           /\ thread[h].pc = "release" =>
                record'[thread[h].task].status \in Terminal \cup {"gone"}
    BY <1>2, <1>3, <2>2 DEF Fits, Located, Underway, Busy, Terminal
  <2>4. \A u \in Tasks : record'[u].status \in Busy =>
            \E h \in Threads : thread[h].pc = "extract" /\ thread[h].task = u
    BY <1>2, <1>3 DEF Fits, Located, Busy
  <2>5. \A u \in Tasks : record'[u].status = "queued" =>
           \/ \E i \in DOMAIN pending' : pending'[i] = u
           \/ \E h \in Threads : thread[h].task = u /\ thread[h].pc \in Underway
    BY <1>2, <1>3, <1>4 DEF Fits, Located
  <2> QED BY <2>1, <2>3, <2>4, <2>5 DEF Located
<1>9. ToBeCancelled(record)'
  BY <1>2, <1>3 DEF Fits, ToBeCancelled
<1> QED BY <1>3, <1>4, <1>5, <1>6, <1>7, <1>8, <1>9 DEF Fits

-----------------------------------------------------------------------------
(* The steps, one by one.                                                  *)

LEMMA Requested ==
  ASSUME Typed, Shape, Requests PROVE Typed' /\ Shape'
<1> USE DEF OnlyRecords
<1>0. Cleaned \in [Tasks -> Records] /\ Fits(Cleaned) BY Cleaning
<1>1. CASE List BY <1>0, <1>1, RecordsMove DEF List, Typed
<1>2. CASE ResolveEnds BY <1>2, NothingMoves DEF ResolveEnds, Typed
<1>3. ASSUME NEW t \in Tasks, Create(t) PROVE Typed' /\ Shape'
  <2>1. Cleaned[t].status = "none"
    BY <1>0, <1>3 DEF Create, Cleaned, Typed, Shape, Fits, Sound, NoRecord
  <2>2. record' = [Cleaned EXCEPT ![t] = NewRecord(None)]
    BY <1>3 DEF Create
  <2> QED BY <1>0, <1>3, <2>1, <2>2, Entering DEF Create, Serving, Typed
<1>4. ASSUME NEW t \in Tasks, Cancel(t) PROVE Typed' /\ Shape'
  <2>1. CancelEffect(t, Cleaned) /\ Cleaned[t].status \in Busy \cup {"queued"}
    BY <1>4 DEF Cancel, Busy
  <2>2. UNCHANGED <<thread, activeSlots, concurrency, closing, toCancel>>
    BY <1>4 DEF Cancel
  <2> QED BY <1>0, <2>1, <2>2, Cancelling DEF Typed
<1>5. ASSUME NEW D \in SUBSET Tasks, Delete(D),
             \A t \in D : Cleaned[t].status \in Terminal
      PROVE  Typed' /\ Shape'
  <2>1. record' \in [Tasks -> Records]
    BY <1>0, <1>5 DEF Delete, Records, Statuses
  <2>2. \A t \in Tasks :
          /\ record'[t].old = Cleaned[t].old /\ record'[t].cancel = Cleaned[t].cancel
          /\ t \in D => Cleaned[t].status \in Terminal /\ record'[t].status = "gone"
          /\ t \notin D => record'[t] = Cleaned[t]
    BY <1>0, <1>5 DEF Delete, Records
  <2>3. UNCHANGED <<pending, thread, activeSlots, concurrency, closing, toCancel>>
    BY <1>5 DEF Delete
  <2>4. Sound(record') BY <1>0, <2>2 DEF Fits, Sound
  <2>5. Located(record')
    BY <1>0, <2>2 DEF Fits, Located, Shape, ThreadsApart, Typed, Underway, Busy, Terminal
  <2>6. ToBeCancelled(record') BY <1>0, <2>2 DEF Fits, ToBeCancelled, Typed, Terminal
  <2> QED BY <2>1, <2>3, <2>4, <2>5, <2>6, RecordsMove DEF Typed, Fits
<1>6. ASSUME NEW t \in Tasks, DeleteOne(t) PROVE Typed' /\ Shape'
  BY <1>5, <1>6 DEF DeleteOne
<1>7. ASSUME NEW S \in SUBSET Terminal, BulkDelete(S) PROVE Typed' /\ Shape'
  BY <1>5, <1>7 DEF BulkDelete
<1>8. ASSUME NEW t \in Tasks, NEW u \in Tasks, Retry(t, u) PROVE Typed' /\ Shape'
  <2> DEFINE R == [Cleaned EXCEPT ![t].status = "gone"]
  <2>1. Cleaned[t].status \in Terminal /\ record[u].status = "none"
    BY <1>8 DEF Retry, Terminal
  <2>2. R \in [Tasks -> Records] /\ t # u /\ R[u].status = "none"
          /\ \A v \in Tasks : /\ R[v].old = Cleaned[v].old /\ R[v].cancel = Cleaned[v].cancel
                              /\ R[v].status = IF v = t THEN "gone" ELSE Cleaned[v].status
                              /\ v # t => R[v] = Cleaned[v]
    BY <1>0, <2>1 DEF Records, Statuses, Cleaned, Typed, Shape, Fits, Sound, NoRecord, Terminal
  <2>3. record' = [R EXCEPT ![u] = NewRecord(t)]
    BY <1>8, <2>2 DEF Retry
  <2> HIDE DEF R
  <2>4. Fits(R)
    <3>1. Sound(R) BY <1>0, <2>1, <2>2 DEF Fits, Sound
    <3>2. Located(R)
      <4>1. Located(Cleaned) BY <1>0 DEF Fits
      <4>2. \A v \in Tasks : R[v].status \in Busy \cup {"queued"} =>
                                R[v].status = Cleaned[v].status
        BY <2>2 DEF Busy
      <4>3. \A v \in Tasks : Cleaned[v].status \in Busy \cup {"queued"} =>
                                R[v].status = Cleaned[v].status
        BY <2>1, <2>2 DEF Busy, Terminal
      <4>4. \A i \in DOMAIN pending : R[pending[i]].status = "queued"
        BY <4>1, <4>3 DEF Located, Typed
      <4>5. \A v \in Tasks :
              /\ R[v].status \in Busy =>
                   \E h \in Threads : thread[h].pc = "extract" /\ thread[h].task = v
              /\ R[v].status = "queued" =>
                   \/ \E i \in DOMAIN pending : pending[i] = v
                   \/ \E h \in Threads : thread[h].task = v /\ thread[h].pc \in Underway
        BY <4>1, <4>2 DEF Located
      <4>6. ASSUME NEW h \in Threads
            PROVE  /\ thread[h].pc \in Underway =>
                        R[thread[h].task].status \in {"queued", "cancelled", "gone"}
                   /\ thread[h].pc = "extract" => R[thread[h].task].status \in Busy
                   /\ thread[h].pc = "release" =>
                        R[thread[h].task].status \in Terminal \cup {"gone"}
        <5>1. CASE thread[h].pc = "idle" BY <5>1 DEF Underway
        <5>2. CASE thread[h].pc # "idle"
          <6>1. thread[h].task \in Tasks BY <5>2 DEF Shape, ThreadsApart, Typed
          <6>2. \/ R[thread[h].task].status = Cleaned[thread[h].task].status
                \/ R[thread[h].task].status = "gone" /\ thread[h].task = t
            BY <2>2, <6>1
          <6>3. CASE R[thread[h].task].status = Cleaned[thread[h].task].status
            BY <4>1, <6>3 DEF Located
          <6>4. CASE R[thread[h].task].status = "gone" /\ thread[h].task = t
            BY <2>1, <4>1, <6>4 DEF Located, Busy, Terminal
          <6> QED BY <6>2, <6>3, <6>4
        <5> QED BY <5>1, <5>2
      <4> QED BY <4>4, <4>5, <4>6 DEF Located
    <3>3. ToBeCancelled(R) BY <1>0, <2>2 DEF Fits, ToBeCancelled, Typed
    <3> QED BY <3>1, <3>2, <3>3 DEF Fits
  <2> QED BY <1>8, <2>2, <2>3, <2>4, Entering DEF Retry, Serving, Typed
<1>9. ASSUME NEW t \in Tasks, Age(t) PROVE Typed' /\ Shape'
  <2>1. /\ record' \in [Tasks -> Records]
        /\ \A v \in Tasks : /\ record'[v].status = record[v].status
                            /\ record'[v].cancel = record[v].cancel
                            /\ v # t => record'[v] = record[v]
    BY <1>9 DEF Age, Typed, Records
  <2>2. record[t].status \in Terminal BY <1>9 DEF Age
  <2>3. Sound(record') BY <2>1, <2>2 DEF Shape, Fits, Sound, Terminal
  <2>4. Located(record')
    BY <2>1 DEF Shape, Fits, Located, Typed, ThreadsApart, Underway
  <2>5. ToBeCancelled(record') BY <2>1 DEF Shape, Fits, ToBeCancelled, Typed
  <2> QED BY <1>9, <2>1, <2>3, <2>4, <2>5, RecordsMove DEF Age, Typed, Fits
<1>10. ASSUME NEW t \in Tasks, ResolveBegins(t) PROVE Typed' /\ Shape'
  BY <1>10, NothingMoves DEF ResolveBegins, Typed
<1>11. ASSUME NEW n \in 1 .. Capacity, SetConcurrency(n) PROVE Typed' /\ Shape'
  BY <1>11, NothingMoves DEF SetConcurrency, Typed
<1>12. ASSUME NEW c \in Connections, Subscribe(c) PROVE Typed' /\ Shape'
  BY <1>0, <1>12, RecordsMove DEF Subscribe, Typed
<1>13. ASSUME NEW c \in Connections, Unsubscribe(c) PROVE Typed' /\ Shape'
  BY <1>13, NothingMoves DEF Unsubscribe, tasks, Typed
<1> QED BY <1>1, <1>2, <1>3, <1>4, <1>6, <1>7, <1>8, <1>9, <1>10, <1>11, <1>12,
           <1>13 DEF Requests, Terminal

(* A thread that only goes to another place with its task.                 *)
LEMMA ThreadGoes ==
  ASSUME Typed, Shape, NEW h \in Threads, NEW pc \in {"slot", "wait", "start", "extract", "release"},
         thread[h].pc # "idle", Goto(h, pc)
  PROVE  /\ thread' \in [Threads -> [pc : {"idle"} \cup Underway \cup {"extract", "release"},
                                     task : Tasks \cup {None}]]
         /\ thread'[h].pc = pc
         /\ \A g \in Threads : /\ thread'[g].task = thread[g].task
                               /\ g # h => thread'[g] = thread[g]
         /\ ThreadsApart'
         /\ UNCHANGED pending => FuturesApart'
BY DEF Typed, Shape, Goto, Underway, ThreadsApart, FuturesApart

(* A thread that leaves its task.                                          *)
LEMMA ThreadLeaves ==
  ASSUME Typed, Shape, NEW h \in Threads, Leaves(h), UNCHANGED pending
  PROVE  /\ thread' \in [Threads -> [pc : {"idle"} \cup Underway \cup {"extract", "release"},
                                     task : Tasks \cup {None}]]
         /\ thread'[h] = NoThread
         /\ \A g \in Threads : g # h => thread'[g] = thread[g]
         /\ ThreadsApart' /\ FuturesApart'
BY TaskManagerAssumption DEF Typed, Shape, Leaves, NoThread, ThreadsApart, FuturesApart

(* A thread that takes a future has the task to itself.                    *)
LEMMA Taking ==
  ASSUME Typed, Shape, NEW h \in Threads, TakesFuture(h) PROVE Typed' /\ Shape'
<1> USE DEF Typed, Shape
<1> DEFINE t == pending[1]
<1>1. /\ thread[h].pc = "idle" /\ pending # <<>>
      /\ thread' = [thread EXCEPT ![h] = [pc |-> "slot", task |-> t]]
      /\ pending' = Tail(pending)
      /\ UNCHANGED <<record, activeSlots, concurrency, closing, toCancel>>
  BY DEF TakesFuture, OnlyThread
<1>2. /\ Len(pending) \in Nat /\ Len(pending) >= 1 /\ 1 \in DOMAIN pending
      /\ DOMAIN pending = 1 .. Len(pending)
      /\ pending' \in Seq(Tasks) /\ DOMAIN pending' = 1 .. Len(pending) - 1
      /\ \A i \in DOMAIN pending' : i + 1 \in DOMAIN pending /\ pending'[i] = pending[i + 1]
  BY <1>1
<1>3. t \in Tasks /\ \A i \in DOMAIN pending' : pending'[i] # t
  BY <1>2 DEF FuturesApart
<1> HIDE DEF t
<1>4. Typed' BY <1>1, <1>2, <1>3 DEF Underway
<1>5. /\ thread'[h] = [pc |-> "slot", task |-> t]
      /\ \A g \in Threads : g # h => thread'[g] = thread[g]
  BY <1>1
<1>6. FuturesApart'
  <2>1. \A i, j \in DOMAIN pending' : pending'[i] = pending'[j] => i = j
    BY <1>2 DEF FuturesApart
  <2>2. \A i \in DOMAIN pending', g \in Threads : thread'[g].task # pending'[i]
    BY <1>2, <1>3, <1>5 DEF FuturesApart
  <2> QED BY <2>1, <2>2 DEF FuturesApart
<1>7. ThreadsApart'
  <2>1. \A g \in Threads : thread[g].task # t BY <1>2 DEF FuturesApart, t
  <2> QED BY <1>3, <1>5, <2>1, TaskManagerAssumption DEF ThreadsApart
<1>8. Located(record)'
  <2>1. record[t].status = "queued" BY <1>2 DEF Fits, Located, t
  <2>2. \A i \in DOMAIN pending' : record[pending'[i]].status = "queued"
    BY <1>2 DEF Fits, Located
  <2>3. \A u \in Tasks : record[u].status = "queued" =>
          \/ \E i \in DOMAIN pending' : pending'[i] = u
          \/ \E g \in Threads : thread'[g].task = u /\ thread'[g].pc \in Underway
    <3> SUFFICES ASSUME NEW u \in Tasks, record[u].status = "queued", u # t
                 PROVE  \/ \E i \in DOMAIN pending' : pending'[i] = u
                        \/ \E g \in Threads : thread'[g].task = u /\ thread'[g].pc \in Underway
      BY <1>5 DEF Underway
    <3>1. CASE \E i \in DOMAIN pending : pending[i] = u
      <4>1. PICK i \in DOMAIN pending : pending[i] = u BY <3>1
      <4>2. i # 1 BY <4>1 DEF t
      <4>3. i - 1 \in DOMAIN pending' /\ pending'[i - 1] = u BY <1>2, <4>1, <4>2
      <4> QED BY <4>3
    <3>2. CASE \E g \in Threads : thread[g].task = u /\ thread[g].pc \in Underway
      BY <1>1, <1>5, <3>2 DEF Underway
    <3> QED BY <3>1, <3>2 DEF Fits, Located
  <2>4. \A u \in Tasks : record[u].status \in Busy =>
          \E g \in Threads : thread'[g].pc = "extract" /\ thread'[g].task = u
    BY <1>1, <1>5 DEF Fits, Located
  <2> QED BY <1>1, <1>5, <2>1, <2>2, <2>3, <2>4 DEF Fits, Located, Underway
<1>9. Sound(record)' /\ ToBeCancelled(record)'
  BY <1>1 DEF Fits, Sound, ToBeCancelled
<1> QED BY <1>4, <1>6, <1>7, <1>8, <1>9 DEF Fits

(* The status s that its thread gives to a task, with where it then is.    *)
LEMMA Showing ==
  ASSUME Typed, Shape, NEW h \in Threads, NEW s \in Busy \cup Terminal, NEW pc,
         \/ thread[h].pc = "start" /\ pc = "extract" /\ s = "running"
         \/ thread[h].pc = "extract" /\ pc = "release" /\ s \in Terminal,
         record[thread[h].task].status \notin {"gone", "cancelled"},
         Goto(h, pc), UNCHANGED <<pending, toCancel, closing>>,
         record' \in [Tasks -> Records],
         \A u \in Tasks : /\ record'[u].status = IF u = thread[h].task THEN s ELSE record[u].status
                          /\ record'[u].cancel = record[u].cancel
                          /\ record'[u].old = record[u].old
                          /\ u # thread[h].task => record'[u] = record[u]
  PROVE  Shape' /\ thread' \in [Threads -> [pc : {"idle"} \cup Underway \cup {"extract", "release"},
                                            task : Tasks \cup {None}]]
<1> USE DEF Typed, Shape
<1> DEFINE t == thread[h].task
<1>1. t \in Tasks /\ thread[h].pc # "idle" /\ pc \in {"extract", "release"}
  BY DEF ThreadsApart
<1>2. /\ thread' \in [Threads -> [pc : {"idle"} \cup Underway \cup {"extract", "release"},
                                  task : Tasks \cup {None}]]
      /\ thread'[h].pc = pc
      /\ \A g \in Threads : thread'[g].task = thread[g].task
                            /\ (g # h => thread'[g] = thread[g])
      /\ ThreadsApart' /\ FuturesApart'
  BY <1>1, ThreadGoes
<1>3. \A g \in Threads : g # h => thread[g].task # t
  BY <1>1, TaskManagerAssumption DEF ThreadsApart
<1>4. record[t].status \in Busy \cup {"queued"}
  BY DEF Fits, Located, Underway, Busy
<1>5. Sound(record')
  <2>1. s = "running" => record[t].status = "queued"
    BY DEF Fits, Located, Underway, Terminal
  <2>2. ~record[t].old BY <1>1, <1>4 DEF Fits, Sound, Busy, Terminal
  <2>3. record[t].cancel => s # "running" BY <1>1, <2>1 DEF Fits, Sound
  <2>4. \A u \in Tasks : u # t => record'[u] = record[u] OBVIOUS
  <2>5. record'[t].status = s /\ record'[t].cancel = record[t].cancel
          /\ record'[t].old = record[t].old
    BY <1>1
  <2> HIDE DEF t
  <2> QED BY <2>2, <2>3, <2>4, <2>5 DEF Fits, Sound, Busy, Terminal
<1> HIDE DEF t
<1>6. Located(record)'
  <2>1. \A i \in DOMAIN pending : pending[i] # t BY DEF FuturesApart, t
  <2>2. \A g \in Threads : thread[g].pc # "idle" => thread[g].task \in Tasks
    BY DEF ThreadsApart
  <2>3. \A g \in Threads :
          /\ thread'[g].pc \in Underway =>
               record'[thread'[g].task].status \in {"queued", "cancelled", "gone"}
          /\ thread'[g].pc = "extract" => record'[thread'[g].task].status \in Busy
          /\ thread'[g].pc = "release" =>
               record'[thread'[g].task].status \in Terminal \cup {"gone"}
    <3> TAKE g \in Threads
    <3>1. CASE g = h BY <1>1, <1>2, <3>1 DEF t, Busy, Terminal, Underway
    <3>2. CASE g # h
      BY <1>2, <1>3, <2>2, <3>2 DEF t, Fits, Located, Underway
    <3> QED BY <3>1, <3>2
  <2>4. \A i \in DOMAIN pending : record'[pending[i]].status = "queued"
    BY <2>1 DEF Fits, Located, t
  <2>5. \A u \in Tasks : record'[u].status \in Busy =>
          \E g \in Threads : thread'[g].pc = "extract" /\ thread'[g].task = u
    <3> SUFFICES ASSUME NEW u \in Tasks, record'[u].status \in Busy
                 PROVE  \E g \in Threads : thread'[g].pc = "extract" /\ thread'[g].task = u
      OBVIOUS
    <3>1. CASE u = t BY <1>1, <1>2, <3>1 DEF t, Busy, Terminal
    <3>2. CASE u # t
      <4>1. PICK g \in Threads : thread[g].pc = "extract" /\ thread[g].task = u
        BY <3>2 DEF Fits, Located, t
      <4> QED BY <1>2, <3>2, <4>1 DEF t
    <3> QED BY <3>1, <3>2
  <2>6. \A u \in Tasks : record'[u].status = "queued" =>
          \/ \E i \in DOMAIN pending : pending[i] = u
          \/ \E g \in Threads : thread'[g].task = u /\ thread'[g].pc \in Underway
    <3> SUFFICES ASSUME NEW u \in Tasks, record'[u].status = "queued"
                 PROVE  \/ \E i \in DOMAIN pending : pending[i] = u
                        \/ \E g \in Threads : thread'[g].task = u /\ thread'[g].pc \in Underway
      OBVIOUS
    <3>1. u # t /\ record[u].status = "queued" BY DEF t, Busy, Terminal
    <3>2. ASSUME NEW g \in Threads, thread[g].task = u, thread[g].pc \in Underway
          PROVE  thread'[g].task = u /\ thread'[g].pc \in Underway
      BY <1>2, <3>1, <3>2 DEF t
    <3> QED BY <3>1, <3>2 DEF Fits, Located
  <2> QED BY <2>3, <2>4, <2>5, <2>6 DEF Located
<1>7. ToBeCancelled(record)'
  BY DEF Fits, ToBeCancelled, Busy, Terminal, t
<1> QED BY <1>2, <1>5, <1>6, <1>7 DEF Fits

(* A thread that leaves a task it need not begin, or moves on before it.   *)
LEMMA Wandering ==
  ASSUME Typed, Shape, NEW h \in Threads, UNCHANGED <<record, pending, toCancel, closing>>,
         \/ /\ \E pc \in Underway : Goto(h, pc)
            /\ thread[h].pc \in Underway
         \/ /\ thread[h].pc = "start" /\ Goto(h, "release")
            /\ record[thread[h].task].status \in {"gone", "cancelled"}
         \/ /\ thread[h].pc \in Underway /\ Leaves(h)
            /\ record[thread[h].task].status # "queued"
         \/ thread[h].pc = "release" /\ Leaves(h)
  PROVE  Shape' /\ thread' \in [Threads -> [pc : {"idle"} \cup Underway \cup {"extract", "release"},
                                            task : Tasks \cup {None}]]
<1> USE DEF Typed, Shape
<1>1. thread[h].pc # "idle" /\ thread[h].pc # "extract" BY DEF Underway
<1>2. /\ thread' \in [Threads -> [pc : {"idle"} \cup Underway \cup {"extract", "release"},
                                  task : Tasks \cup {None}]]
      /\ \A g \in Threads : g # h => thread'[g] = thread[g]
      /\ ThreadsApart' /\ FuturesApart'
  BY <1>1, ThreadGoes, ThreadLeaves DEF Underway
<1>3. \/ thread'[h].pc \in Underway /\ thread[h].pc \in Underway
         /\ thread'[h].task = thread[h].task
      \/ /\ thread'[h].pc = "release" /\ thread'[h].task = thread[h].task
         /\ record[thread[h].task].status \in {"gone", "cancelled"}
      \/ /\ thread'[h].pc = "idle"
         /\ record[thread[h].task].status # "queued"
  BY <1>1, ThreadGoes, ThreadLeaves DEF Underway, NoThread, Terminal, Fits, Located
<1>4. Located(record)'
  <2>1. \A i \in DOMAIN pending : record[pending[i]].status = "queued"
    BY DEF Fits, Located
  <2>2. \A g \in Threads :
          /\ thread'[g].pc \in Underway =>
               record[thread'[g].task].status \in {"queued", "cancelled", "gone"}
          /\ thread'[g].pc = "extract" => record[thread'[g].task].status \in Busy
          /\ thread'[g].pc = "release" =>
               record[thread'[g].task].status \in Terminal \cup {"gone"}
    BY <1>2, <1>3 DEF Fits, Located, Underway, Terminal
  <2>3. \A u \in Tasks : record[u].status \in Busy =>
          \E g \in Threads : thread'[g].pc = "extract" /\ thread'[g].task = u
    BY <1>1, <1>2 DEF Fits, Located
  <2>4. \A u \in Tasks : record[u].status = "queued" =>
          \/ \E i \in DOMAIN pending : pending[i] = u
          \/ \E g \in Threads : thread'[g].task = u /\ thread'[g].pc \in Underway
    <3> TAKE u \in Tasks
    <3>1. ASSUME NEW g \in Threads, thread[g].task = u, thread[g].pc \in Underway,
                 record[u].status = "queued"
          PROVE  thread'[g].task = u /\ thread'[g].pc \in Underway
      BY <1>2, <1>3, <3>1
    <3> QED BY <3>1 DEF Fits, Located
  <2> QED BY <2>1, <2>2, <2>3, <2>4 DEF Located
<1>5. Sound(record)' /\ ToBeCancelled(record)' BY DEF Fits, Sound, ToBeCancelled
<1> QED BY <1>2, <1>4, <1>5 DEF Fits

(* The record of t gets the status s, and no other record changes.         *)
Marks(t, s) ==
  \/ record' = [record EXCEPT ![t].status = s]
  \/ \E n \in BOOLEAN : record' = [record EXCEPT ![t].status = s, ![t].nonzero = n]

LEMMA Marking ==
  ASSUME Typed, NEW t \in Tasks, NEW s \in Busy \cup Terminal, Marks(t, s)
  PROVE  /\ record' \in [Tasks -> Records]
         /\ \A u \in Tasks :
              /\ record'[u].status = IF u = t THEN s ELSE record[u].status
              /\ record'[u].cancel = record[u].cancel
              /\ record'[u].old = record[u].old
              /\ u # t => record'[u] = record[u]
<1>1. s \in Statuses BY DEF Statuses, Busy
<1>2. record[t] \in Records BY DEF Typed
<1>3. CASE record' = [record EXCEPT ![t].status = s]
  <2>1. record' = [record EXCEPT ![t] = [record[t] EXCEPT !.status = s]] BY <1>3 DEF Typed
  <2> QED BY <1>1, <1>2, <2>1 DEF Typed, Records
<1>4. ASSUME NEW n \in BOOLEAN, record' = [record EXCEPT ![t].status = s, ![t].nonzero = n]
      PROVE  record' \in [Tasks -> Records]
         /\ \A u \in Tasks :
              /\ record'[u].status = IF u = t THEN s ELSE record[u].status
              /\ record'[u].cancel = record[u].cancel
              /\ record'[u].old = record[u].old
              /\ u # t => record'[u] = record[u]
  <2>1. record' = [record EXCEPT ![t] = [record[t] EXCEPT !.status = s, !.nonzero = n]]
    BY <1>4 DEF Typed
  <2> QED BY <1>1, <1>2, <2>1 DEF Typed, Records
<1> QED BY <1>3, <1>4 DEF Marks

LEMMA Running ==
  ASSUME Typed, Shape, SlotsExact, NEW h \in Threads, Runs(h) PROVE Typed' /\ Shape'
<1> USE DEF OnlyThread
<1>1. thread[h].pc # "idle" => thread[h].task \in Tasks
  BY DEF Typed, Shape, ThreadsApart
<1>2. CASE TakesFuture(h) BY <1>2, Taking
<1>3. CASE AcquiresSlot(h)
  <2>1. thread[h].pc = "slot" /\ UNCHANGED <<record, pending, concurrency, closing, toCancel>>
    BY <1>3 DEF AcquiresSlot
  <2>2. activeSlots' \in Nat BY <1>3 DEF AcquiresSlot, Typed
  <2>3. \/ Leaves(h) /\ record[thread[h].task].status # "queued"
        \/ \E pc \in Underway : Goto(h, pc)
    BY <1>3 DEF AcquiresSlot, Underway
  <2> QED BY <2>1, <2>2, <2>3, Wandering DEF Typed, Underway
<1>4. CASE WaitsForSlot(h)
  <2>1. /\ thread[h].pc = "wait"
        /\ UNCHANGED <<record, pending, activeSlots, concurrency, closing, toCancel>>
    BY <1>4 DEF WaitsForSlot
  <2>2. \/ Leaves(h) /\ record[thread[h].task].status # "queued"
        \/ \E pc \in Underway : Goto(h, pc)
    BY <1>1, <1>4, <2>1 DEF WaitsForSlot, Underway, Shape, Fits, Sound
  <2> QED BY <2>1, <2>2, Wandering DEF Typed, Underway
<1>5. CASE Starts(h)
  <2>1. /\ thread[h].pc = "start"
        /\ UNCHANGED <<pending, activeSlots, concurrency, closing, toCancel>>
    BY <1>5 DEF Starts
  <2>2. CASE record[thread[h].task].status \in {"gone", "cancelled"}
    <3>1. Goto(h, "release") /\ UNCHANGED record BY <1>5, <2>2 DEF Starts
    <3> QED BY <2>1, <2>2, <3>1, Wandering DEF Typed
  <2>3. CASE record[thread[h].task].status \notin {"gone", "cancelled"}
    <3>1. Goto(h, "extract") /\ record' = [record EXCEPT ![thread[h].task].status = "running"]
      BY <1>5, <2>3 DEF Starts
    <3>2. /\ record' \in [Tasks -> Records]
          /\ \A u \in Tasks :
               /\ record'[u].status = IF u = thread[h].task THEN "running" ELSE record[u].status
               /\ record'[u].cancel = record[u].cancel /\ record'[u].old = record[u].old
               /\ u # thread[h].task => record'[u] = record[u]
      <4>1. thread[h].task \in Tasks /\ "running" \in Busy \cup Terminal
        BY <1>1, <2>1 DEF Busy
      <4> QED BY <3>1, <4>1, Marking DEF Marks
    <3>3. /\ Shape'
          /\ thread' \in [Threads -> [pc : {"idle"} \cup Underway \cup {"extract", "release"},
                                      task : Tasks \cup {None}]]
      BY <2>1, <2>3, <3>1, <3>2, Showing DEF Busy
    <3> QED BY <2>1, <3>2, <3>3 DEF Typed
  <2> QED BY <2>2, <2>3
<1>6. CASE Stage(h) BY <1>6, NothingMoves DEF Stage, tasks, Typed
<1>7. CASE Finish(h)
  <2>1. /\ thread[h].pc = "extract" /\ Goto(h, "release")
        /\ UNCHANGED <<pending, activeSlots, concurrency, closing, toCancel>>
    BY <1>7 DEF Finish, ReturnsResult, Raises
  <2>2. record[thread[h].task].status \in Busy BY <2>1 DEF Shape, Fits, Located
  <2>3. PICK s \in Terminal : Marks(thread[h].task, s)
    BY <1>7, <2>2 DEF Finish, ReturnsResult, Raises, Finishes, Busy, Terminal, Marks
  <2>4. /\ record' \in [Tasks -> Records]
        /\ \A u \in Tasks :
             /\ record'[u].status = IF u = thread[h].task THEN s ELSE record[u].status
             /\ record'[u].cancel = record[u].cancel /\ record'[u].old = record[u].old
             /\ u # thread[h].task => record'[u] = record[u]
    <3>1. thread[h].task \in Tasks /\ s \in Busy \cup Terminal BY <1>1, <2>1
    <3> QED BY <2>3, <3>1, Marking
  <2>5. record[thread[h].task].status \notin {"gone", "cancelled"} BY <2>2 DEF Busy
  <2>6. /\ Shape'
        /\ thread' \in [Threads -> [pc : {"idle"} \cup Underway \cup {"extract", "release"},
                                    task : Tasks \cup {None}]]
    BY <2>1, <2>4, <2>5, Showing
  <2> QED BY <2>1, <2>4, <2>6 DEF Typed
<1>8. CASE ReleasesSlot(h)
  <2>1. /\ thread[h].pc = "release" /\ Leaves(h)
        /\ UNCHANGED <<record, pending, concurrency, closing, toCancel>>
    BY <1>8 DEF ReleasesSlot
  <2>2. activeSlots' \in Nat BY <1>8 DEF ReleasesSlot, Typed
  <2> QED BY <2>1, <2>2, Wandering DEF Typed
<1> QED BY <1>2, <1>3, <1>4, <1>5, <1>6, <1>7, <1>8 DEF Runs

LEMMA Closing ==
  ASSUME Typed, Shape, Close PROVE Typed' /\ Shape'
<1>0. Cleaned \in [Tasks -> Records] /\ Fits(Cleaned) BY Cleaning
<1>1. CASE CloseBegins
  <2>1. /\ record' = Cleaned /\ closing' = "cancelling"
        /\ toCancel' = {t \in Present(record) : record[t].status \notin Terminal}
        /\ UNCHANGED <<pending, thread, activeSlots, concurrency>>
    BY <1>1 DEF CloseBegins
  <2>2. Typed' BY <1>0, <2>1 DEF Typed, Present
  <2>3. \A t \in Tasks : Cleaned[t].status = "queued" => record[t].status = "queued"
    BY DEF Cleaned, Typed, Records
  <2>4. ToBeCancelled(record)'
    <3>1. \A t \in Tasks : Cleaned[t].status = "none" => record[t].status = "none"
      BY DEF Cleaned, Typed, Records
    <3> QED BY <2>1, <2>3, <3>1 DEF ToBeCancelled, Present, Terminal
  <2>5. FuturesApart' /\ ThreadsApart' BY <2>1 DEF Shape, FuturesApart, ThreadsApart
  <2>6. Sound(record)' /\ Located(record)' BY <1>0, <2>1 DEF Fits, Sound, Located
  <2> QED BY <2>2, <2>4, <2>5, <2>6 DEF Shape, Fits
<1>2. CASE CloseEnds
  <2>1. /\ toCancel = {} /\ closing = "cancelling" /\ closing' = "closed" /\ pending' = <<>>
        /\ UNCHANGED <<record, thread, activeSlots, concurrency, toCancel>>
    BY <1>2 DEF CloseEnds
  <2>2. Typed' BY <2>1 DEF Typed
  <2>3. \A t \in Tasks : record[t].status # "queued"
    BY <2>1 DEF Shape, Fits, ToBeCancelled
  <2>4. FuturesApart' /\ ThreadsApart' BY <2>1 DEF Shape, FuturesApart, ThreadsApart
  <2>5. Sound(record)' /\ Located(record)' /\ ToBeCancelled(record)'
    BY <2>1, <2>3 DEF Shape, Fits, Sound, Located, ToBeCancelled
  <2> QED BY <2>2, <2>4, <2>5 DEF Shape, Fits
<1>3. ASSUME NEW t \in Tasks, CloseCancels(t) PROVE Typed' /\ Shape'
  <2>1. /\ closing = "cancelling" /\ toCancel' = toCancel \ {t}
        /\ UNCHANGED <<thread, activeSlots, concurrency, closing>>
    BY <1>3 DEF CloseCancels
  <2>2. CASE Cleaned[t].status \in Terminal \cup {"gone"}
    <3>1. record' = Cleaned /\ UNCHANGED pending BY <1>3, <2>2 DEF CloseCancels
    <3>2. Typed' BY <1>0, <2>1, <3>1 DEF Typed
    <3>3. FuturesApart' /\ ThreadsApart'
      BY <2>1, <3>1 DEF Shape, FuturesApart, ThreadsApart
    <3>4. Sound(record)' /\ Located(record)' BY <1>0, <2>1, <3>1 DEF Fits, Sound, Located
    <3>5. ToBeCancelled(record)'
      BY <1>0, <2>1, <2>2, <3>1 DEF Fits, ToBeCancelled, Terminal
    <3> QED BY <3>2, <3>3, <3>4, <3>5 DEF Shape, Fits
  <2>3. Cleaned[t].status # "none"
    BY <1>0, <1>3 DEF CloseCancels, Fits, ToBeCancelled
  <2>4. CASE Cleaned[t].status \in Busy \cup {"queued"}
    <3>1. CancelEffect(t, Cleaned) BY <1>3, <2>4 DEF CloseCancels, Busy, Terminal
    <3> QED BY <1>0, <2>1, <2>4, <3>1, Cancelling DEF Typed
  <2> QED BY <1>0, <2>2, <2>3, <2>4 DEF Records, Statuses, Busy
<1> QED BY <1>1, <1>2, <1>3 DEF Close

-----------------------------------------------------------------------------
(* Slots: a step moves at most one thread into those that hold one or out  *)
(* of them, and counts it.                                                 *)
Holders == {h \in Threads : thread[h].pc \in Held}

LEMMA HoldersCounted ==
  /\ IsFiniteSet(Holders) /\ Cardinality(Holders) \in Nat
  /\ SlotsExact <=> activeSlots = Cardinality(Holders)
  /\ SlotsExact' <=> activeSlots' = Cardinality(Holders')
BY TaskManagerAssumption, FS_Subset, FS_CardinalityType DEF Holders, SlotsExact

LEMMA SlotsKept ==
  ASSUME SlotsExact, UNCHANGED activeSlots, Holders' = Holders PROVE SlotsExact'
BY HoldersCounted

LEMMA Counting ==
  ASSUME Typed, Shape, SlotsExact, NEW h \in Threads, Runs(h) PROVE SlotsExact'
<1> USE DEF Typed, Holders, Held
<1>1. CASE TakesFuture(h)
  <2>1. Holders' = Holders BY <1>1 DEF TakesFuture
  <2> QED BY <1>1, <2>1, SlotsKept DEF TakesFuture
<1>2. CASE AcquiresSlot(h)
  <2>1. CASE Leaves(h) /\ UNCHANGED activeSlots
    <3>1. Holders' = Holders BY <1>2, <2>1 DEF Leaves, NoThread, AcquiresSlot
    <3> QED BY <2>1, <3>1, SlotsKept
  <2>2. CASE Goto(h, "wait") /\ UNCHANGED activeSlots
    <3>1. Holders' = Holders BY <1>2, <2>2 DEF Goto, AcquiresSlot
    <3> QED BY <2>2, <3>1, SlotsKept
  <2>3. CASE Goto(h, "start") /\ activeSlots' = activeSlots + 1
    <3>1. Holders' = Holders \cup {h} /\ h \notin Holders
      BY <1>2, <2>3 DEF Goto, AcquiresSlot
    <3>2. Cardinality(Holders') = Cardinality(Holders) + 1
      BY <3>1, HoldersCounted, FS_AddElement
    <3> QED BY <2>3, <3>2, HoldersCounted
  <2> QED BY <1>2, <2>1, <2>2, <2>3 DEF AcquiresSlot
<1>3. CASE WaitsForSlot(h)
  <2>1. Holders' = Holders BY <1>3 DEF WaitsForSlot, Leaves, NoThread, Goto
  <2> QED BY <1>3, <2>1, SlotsKept DEF WaitsForSlot
<1>4. CASE Starts(h)
  <2>1. Holders' = Holders BY <1>4 DEF Starts, Goto
  <2> QED BY <1>4, <2>1, SlotsKept DEF Starts
<1>5. CASE Stage(h)
  <2>1. Holders' = Holders /\ UNCHANGED activeSlots BY <1>5 DEF Stage, tasks
  <2> QED BY <2>1, SlotsKept
<1>6. CASE Finish(h)
  <2>1. thread[h].pc = "extract" /\ Goto(h, "release") /\ UNCHANGED activeSlots
    BY <1>6 DEF Finish, ReturnsResult, Raises
  <2>2. Holders' = Holders BY <2>1 DEF Goto
  <2> QED BY <2>1, <2>2, SlotsKept
<1>7. CASE ReleasesSlot(h)
  <2>1. Holders' = Holders \ {h} /\ h \in Holders
    BY <1>7 DEF ReleasesSlot, Leaves, NoThread
  <2> HIDE DEF Holders
  <2>2. Cardinality(Holders') = Cardinality(Holders) - 1
    BY <2>1, HoldersCounted, FS_RemoveElement
  <2>3. activeSlots # 0 BY <2>1, HoldersCounted, FS_EmptySet
  <2> QED BY <1>7, <2>2, <2>3, HoldersCounted DEF ReleasesSlot
<1> QED BY <1>1, <1>2, <1>3, <1>4, <1>5, <1>6, <1>7 DEF Runs

-----------------------------------------------------------------------------
LEMMA SlotsAtInit == Init => SlotsExact
<1> SUFFICES ASSUME Init PROVE SlotsExact OBVIOUS
<1>1. Holders = {} BY DEF Init, Holders, Held, NoThread
<1> QED BY <1>1, HoldersCounted, FS_EmptySet DEF Init

LEMMA Inductive == IInv /\ [Next]_vars => IInv'
<1> SUFFICES ASSUME IInv, [Next]_vars PROVE IInv' OBVIOUS
<1> USE DEF IInv
<1>1. ASSUME UNCHANGED <<thread, activeSlots>> PROVE SlotsExact'
  BY <1>1 DEF SlotsExact
<1>2. CASE Requests
  <2>1. UNCHANGED <<thread, activeSlots>>
    BY <1>2 DEF Requests, List, ResolveEnds, Create, Cancel, DeleteOne, ResolveBegins, Age,
                Retry, BulkDelete, Delete, SetConcurrency, Subscribe, Unsubscribe,
                OnlyRecords, tasks
  <2> QED BY <1>1, <1>2, <2>1, Requested
<1>3. ASSUME NEW h \in Threads, Runs(h) PROVE IInv'
  BY <1>3, Running, Counting
<1>4. CASE Close
  <2>1. UNCHANGED <<thread, activeSlots>>
    BY <1>4 DEF Close, CloseBegins, CloseCancels, CloseEnds
  <2> QED BY <1>1, <1>4, <2>1, Closing
<1>5. CASE UNCHANGED tasks
  <2>1. Typed' BY <1>5 DEF tasks, Typed
  <2>2. Shape' BY <1>5, NothingMoves DEF tasks
  <2> QED BY <1>1, <1>5, <2>1, <2>2 DEF tasks
<1>6. ASSUME NEW c \in Connections, Deliver(c) \/ Displace(c) \/ Receive(c) PROVE IInv'
  <2>1. UNCHANGED tasks BY <1>6 DEF Deliver, Displace, Receive, tasks
  <2> QED BY <1>5, <2>1
<1> QED BY <1>2, <1>3, <1>4, <1>5, <1>6 DEF Next, vars

LEMMA Invariant == Spec => []IInv
<1>1. Init => IInv BY Initially, SlotsAtInit DEF IInv
<1> QED BY <1>1, Inductive, PTL DEF Spec

(* activeSlots (self._active_slots) is the number of threads between       *)
(* _acquire_slot and _release_slot.                                        *)
THEOREM SlotsAreExact == Spec => []SlotsExact
<1>1. IInv => SlotsExact BY DEF IInv
<1> QED BY <1>1, Invariant, PTL

(* A task shown as running is run, by one thread; one shown as queued has  *)
(* its future in the pool or a thread on the way.                          *)
THEOREM TasksAreWorkedOn == Spec => []WorkedOn
<1>1. IInv => WorkedOn
  <2> USE DEF IInv, Typed, Shape
  <2> SUFFICES ASSUME IInv, NEW t \in Tasks
               PROVE  /\ record[t].status \in {"running", "cancel_requested"} <=>
                           Cardinality({h \in Threads : thread[h].pc = "extract"
                                                        /\ thread[h].task = t}) = 1
                      /\ record[t].status = "queued" =>
                           \/ \E i \in 1 .. Len(pending) : pending[i] = t
                           \/ \E h \in Threads : /\ thread[h].task = t
                                                 /\ thread[h].pc \in {"slot", "wait", "start"}
    BY DEF WorkedOn
  <2> DEFINE on == {h \in Threads : thread[h].pc = "extract" /\ thread[h].task = t}
  <2>1. ASSUME record[t].status \in Busy PROVE Cardinality(on) = 1
    <3>1. PICK h \in Threads : thread[h].pc = "extract" /\ thread[h].task = t
      BY <2>1 DEF Fits, Located
    <3>2. on = {h} BY <3>1, TaskManagerAssumption DEF ThreadsApart
    <3> HIDE DEF on
    <3> QED BY <3>2, FS_Singleton
  <2>2. ASSUME Cardinality(on) = 1 PROVE record[t].status \in Busy
    <3>1. Cardinality({}) # 1
      <4>1. Cardinality({}) = 0 BY FS_EmptySet
      <4> QED BY <4>1
    <3>2. on # {} BY <2>2, <3>1
    <3>3. PICK h \in Threads : thread[h].pc = "extract" /\ thread[h].task = t BY <3>2
    <3> QED BY <3>3 DEF Fits, Located
  <2>3. record[t].status = "queued" =>
         \/ \E i \in 1 .. Len(pending) : pending[i] = t
         \/ \E h \in Threads : thread[h].task = t /\ thread[h].pc \in {"slot", "wait", "start"}
    BY DEF Fits, Located, Underway
  <2> QED BY <2>1, <2>2, <2>3 DEF Busy
<1> QED BY <1>1, Invariant, PTL

-----------------------------------------------------------------------------
(* The life cycle: what a step does to each record.                        *)

Moves(s, u) == s = u \/ <<s, u>> \in Lifecycle!Moves

Follows ==
  /\ \A t \in Tasks : Moves(record[t].status, record'[t].status)
  /\ \A t \in Tasks : record'[t].retryOf # record[t].retryOf =>
       /\ record[t].status = "none" /\ record'[t].status = "queued"
       /\ record'[t].retryOf \in Tasks
       /\ record[record'[t].retryOf].status \in Terminal
       /\ record'[record'[t].retryOf].status = "gone"

LEMMA CleanedFollows ==
  ASSUME Typed, Shape, NEW t \in Tasks
  PROVE  /\ Cleaned[t].retryOf = record[t].retryOf
         /\ \/ Cleaned[t] = record[t]
            \/ /\ record[t].status \in Terminal \cup {"gone"}
               /\ Cleaned[t].status = "gone"
BY DEF Typed, Shape, Fits, Sound, Cleaned, Records

(* Only the records that R moved have moved, and only along the cycle.     *)
LEMMA AlongTheCycle ==
  ASSUME Typed, Shape, NEW t \in Tasks, record' \in [Tasks -> Records],
         \A u \in Tasks : record'[u].retryOf = Cleaned[u].retryOf,
         \A u \in Tasks : u # t => record'[u].status = Cleaned[u].status,
         \/ Moves(record[t].status, record'[t].status)
         \/ Moves(Cleaned[t].status, record'[t].status) /\ Cleaned[t].status # "gone"
         \/ record'[t].status = Cleaned[t].status
  PROVE  Follows
<1>1. \A u \in Tasks : Moves(record[u].status, Cleaned[u].status)
  BY CleanedFollows DEF Moves, Lifecycle!Moves, Lifecycle!Terminal, Terminal
<1>2. Cleaned[t].status # "gone" => Cleaned[t] = record[t] BY CleanedFollows
<1> QED BY <1>1, <1>2, CleanedFollows DEF Follows

LEMMA Unmoved ==
  ASSUME Typed, UNCHANGED record PROVE Follows
BY DEF Follows, Moves, Typed

LEMMA CleaningFollows ==
  ASSUME Typed, Shape, record' = Cleaned PROVE Follows
BY CleanedFollows DEF Follows, Moves, Lifecycle!Moves, Lifecycle!Terminal, Terminal

LEMMA CancelFollows ==
  ASSUME Typed, Shape, NEW t \in Tasks, Cleaned[t].status \in Busy \cup {"queued"},
         record' = [Cleaned EXCEPT ![t] = CancelRecord(@)], record' \in [Tasks -> Records]
  PROVE  Follows
<1>1. Cleaned \in [Tasks -> Records] BY Cleaning
<1>2. CancelRecord(Cleaned[t]).retryOf = Cleaned[t].retryOf
        /\ CancelRecord(Cleaned[t]).status =
             IF Cleaned[t].status = "queued" THEN "cancelled" ELSE "cancel_requested"
  BY <1>1 DEF CancelRecord, Records, Busy
<1>3. record'[t] = CancelRecord(Cleaned[t]) /\ \A u \in Tasks : u # t => record'[u] = Cleaned[u]
  BY <1>1
<1>4. Moves(Cleaned[t].status, record'[t].status)
  BY <1>2, <1>3 DEF Moves, Lifecycle!Moves, Busy
<1>5. Cleaned[t].status # "gone" BY DEF Busy
<1> QED BY <1>2, <1>3, <1>4, <1>5, AlongTheCycle

LEMMA RequestFollows ==
  ASSUME IInv, Requests PROVE Follows
<1> USE DEF IInv
<1>0. Cleaned \in [Tasks -> Records] BY Cleaning
<1>1. CASE List BY <1>1, CleaningFollows DEF List
<1>2. CASE ResolveEnds BY <1>2, Unmoved DEF ResolveEnds
<1>3. ASSUME NEW t \in Tasks, Create(t) PROVE Follows
  <2>1. record' = [Cleaned EXCEPT ![t] = NewRecord(None)] /\ record[t].status = "none"
    BY <1>3 DEF Create
  <2>2. Cleaned[t] = record[t] /\ record[t].retryOf = None
    <3>1. record[t].status \notin Terminal \cup {"gone"} BY <2>1 DEF Terminal
    <3>2. record[t] = NoRecord BY <2>1 DEF Shape, Fits, Sound
    <3> QED BY <3>1, <3>2, CleanedFollows DEF NoRecord
  <2>3. NewRecord(None).retryOf = None /\ NewRecord(None).status = "queued"
    BY DEF NewRecord, NoRecord
  <2>4. record' \in [Tasks -> Records] BY <1>3, Requested DEF Requests, Typed
  <2>5. record'[t] = NewRecord(None) /\ \A u \in Tasks : u # t => record'[u] = Cleaned[u]
    BY <1>0, <2>1
  <2>6. Moves(record[t].status, record'[t].status)
    BY <2>1, <2>3, <2>5 DEF Moves, Lifecycle!Moves
  <2> QED BY <2>2, <2>3, <2>4, <2>5, <2>6, AlongTheCycle
<1>4. ASSUME NEW t \in Tasks, Cancel(t) PROVE Follows
  <2>1. record' = [Cleaned EXCEPT ![t] = CancelRecord(@)]
          /\ Cleaned[t].status \in Busy \cup {"queued"}
    BY <1>4 DEF Cancel, CancelEffect, Busy
  <2>2. record' \in [Tasks -> Records] BY <1>4, Requested DEF Requests, Typed
  <2> QED BY <2>1, <2>2, CancelFollows
<1>5. ASSUME NEW D \in SUBSET Tasks, Delete(D),
             \A t \in D : Cleaned[t].status \in Terminal
      PROVE  Follows
  <2>1. \A t \in Tasks :
          /\ record'[t].retryOf = Cleaned[t].retryOf
          /\ t \in D => Cleaned[t].status \in Terminal /\ record'[t].status = "gone"
          /\ t \notin D => record'[t] = Cleaned[t]
    BY <1>0, <1>5 DEF Delete, Records
  <2> QED
    BY <2>1, CleanedFollows
    DEF Follows, Moves, Lifecycle!Moves, Lifecycle!Terminal, Terminal
<1>6. ASSUME NEW t \in Tasks, DeleteOne(t) PROVE Follows
  BY <1>5, <1>6 DEF DeleteOne
<1>7. ASSUME NEW S \in SUBSET Terminal, BulkDelete(S) PROVE Follows
  BY <1>5, <1>7 DEF BulkDelete
<1>8. ASSUME NEW t \in Tasks, NEW u \in Tasks, Retry(t, u) PROVE Follows
  <2>1. /\ Cleaned[t].status \in Terminal /\ record[u].status = "none"
        /\ record' = [Cleaned EXCEPT ![t].status = "gone", ![u] = NewRecord(t)]
    BY <1>8 DEF Retry, Terminal
  <2>2. /\ Cleaned[t] = record[t] /\ t # u /\ Cleaned[u] = record[u]
    BY <2>1, CleanedFollows DEF Terminal
  <2>3. NewRecord(t).retryOf = t /\ NewRecord(t).status = "queued"
    BY DEF NewRecord, NoRecord
  <2>4. /\ record'[t].status = "gone" /\ record'[t].retryOf = record[t].retryOf
        /\ record'[u] = NewRecord(t)
        /\ \A v \in Tasks \ {t, u} : record'[v] = Cleaned[v]
    BY <1>0, <2>1, <2>2 DEF Records
  <2>5. Moves(record[t].status, "gone") /\ Moves(record[u].status, "queued")
    BY <2>1, <2>2 DEF Moves, Lifecycle!Moves, Lifecycle!Terminal, Terminal
  <2>6. \A v \in Tasks \ {t, u} : /\ Moves(record[v].status, record'[v].status)
                                  /\ record'[v].retryOf = record[v].retryOf
    BY <2>4, CleanedFollows DEF Moves, Lifecycle!Moves, Lifecycle!Terminal, Terminal
  <2>7. \A v \in Tasks : Moves(record[v].status, record'[v].status)
    BY <2>3, <2>4, <2>5, <2>6
  <2>8. \A v \in Tasks : record'[v].retryOf # record[v].retryOf => v = u
    BY <2>4, <2>6
  <2>9. /\ record[t].status \in Terminal /\ record'[u].retryOf = t
        /\ record'[u].status = "queued"
    BY <2>1, <2>2, <2>3, <2>4
  <2> QED BY <2>1, <2>4, <2>7, <2>8, <2>9 DEF Follows
<1>9. ASSUME NEW t \in Tasks, Age(t) PROVE Follows
  BY <1>9 DEF Age, Follows, Moves, Typed, Records
<1>10. ASSUME NEW t \in Tasks, ResolveBegins(t) PROVE Follows
  BY <1>10, Unmoved DEF ResolveBegins
<1>11. ASSUME NEW n \in 1 .. Capacity, SetConcurrency(n) PROVE Follows
  BY <1>11, Unmoved DEF SetConcurrency
<1>12. ASSUME NEW c \in Connections, Subscribe(c) PROVE Follows
  BY <1>12, CleaningFollows DEF Subscribe
<1>13. ASSUME NEW c \in Connections, Unsubscribe(c) PROVE Follows
  BY <1>13, Unmoved DEF Unsubscribe, tasks
<1> QED BY <1>1, <1>2, <1>3, <1>4, <1>6, <1>7, <1>8, <1>9, <1>10, <1>11, <1>12,
           <1>13 DEF Requests, Terminal

LEMMA RunFollows ==
  ASSUME IInv, NEW h \in Threads, Runs(h) PROVE Follows
<1> USE DEF IInv
<1> DEFINE t == thread[h].task
<1>1. CASE UNCHANGED record BY <1>1, Unmoved
<1>2. ASSUME NEW s \in Busy \cup Terminal, Marks(t, s), t \in Tasks,
             Moves(record[t].status, s)
      PROVE  Follows
  <2> HIDE DEF t
  <2>1. \A u \in Tasks : record'[u].status = IF u = t THEN s ELSE record[u].status
    BY <1>2, Marking
  <2>2. \A u \in Tasks : record'[u].retryOf = record[u].retryOf
    BY <1>2 DEF Marks, Typed, Records
  <2> QED BY <1>2, <2>1, <2>2 DEF Follows, Moves
<1>3. thread[h].pc # "idle" => t \in Tasks BY DEF Typed, Shape, ThreadsApart
<1>4. CASE Starts(h)
  <2>1. CASE record[t].status \in {"gone", "cancelled"}
    BY <1>1, <1>4, <2>1 DEF Starts
  <2>2. CASE record[t].status \notin {"gone", "cancelled"}
    <3>1. thread[h].pc = "start" /\ record[t].status = "queued"
      BY <1>4, <2>2 DEF Starts, Shape, Fits, Located, Underway
    <3>2. Marks(t, "running") BY <1>4, <2>2 DEF Starts, Marks
    <3>3. Moves(record[t].status, "running") /\ "running" \in Busy \cup Terminal
      BY <3>1 DEF Moves, Lifecycle!Moves, Busy
    <3> QED BY <1>2, <1>3, <3>1, <3>2, <3>3
  <2> QED BY <2>1, <2>2
<1>5. CASE Finish(h)
  <2>1. thread[h].pc = "extract" BY <1>5 DEF Finish, ReturnsResult, Raises
  <2>2. record[t].status \in Busy /\ (record[t].cancel => record[t].status = "cancel_requested")
    BY <1>3, <2>1 DEF Shape, Fits, Located, Sound, Busy
  <2>3. PICK s \in Terminal : Marks(t, s) /\ Moves(record[t].status, s)
    <3>1. CASE Raises(h)
      <4>1. (record[t].cancel /\ Finishes(h, "cancelled")) \/ Finishes(h, "failed")
        BY <2>2, <3>1 DEF Raises, Busy
      <4> QED BY <2>2, <4>1 DEF Finishes, Marks, Moves, Lifecycle!Moves, Busy, Terminal
    <3>2. CASE ReturnsResult(h)
      <4>1. CASE record[t].cancel \/ record[t].status = "cancel_requested"
        <5>1. Finishes(h, "cancelled") BY <2>2, <3>2, <4>1 DEF ReturnsResult, Busy
        <5> QED BY <2>2, <4>1, <5>1 DEF Finishes, Marks, Moves, Lifecycle!Moves, Terminal
      <4>2. CASE ~record[t].cancel /\ record[t].status # "cancel_requested"
        <5>1. Marks(t, "succeeded") BY <2>2, <3>2, <4>2 DEF ReturnsResult, Busy, Marks
        <5> QED BY <2>2, <4>2, <5>1 DEF Moves, Lifecycle!Moves, Busy, Terminal
      <4> QED BY <4>1, <4>2
    <3> QED BY <1>5, <3>1, <3>2 DEF Finish
  <2> QED BY <1>2, <1>3, <2>1, <2>3
<1> QED BY <1>1, <1>4, <1>5 DEF Runs, TakesFuture, AcquiresSlot, WaitsForSlot, Stage, tasks,
                                ReleasesSlot

LEMMA CloseFollows ==
  ASSUME IInv, Close PROVE Follows
<1> USE DEF IInv
<1>1. CASE CloseBegins BY <1>1, CleaningFollows DEF CloseBegins
<1>2. CASE CloseEnds BY <1>2, Unmoved DEF CloseEnds
<1>3. ASSUME NEW t \in Tasks, CloseCancels(t) PROVE Follows
  <2>1. CASE Cleaned[t].status \in Terminal \cup {"gone"}
    BY <1>3, <2>1, CleaningFollows DEF CloseCancels
  <2>2. CASE Cleaned[t].status \notin Terminal \cup {"gone"}
    <3>1. Cleaned[t].status \in Busy \cup {"queued"}
      BY <1>3, <2>2, Cleaning
      DEF CloseCancels, Fits, ToBeCancelled, Records, Statuses, Busy
    <3>2. record' = [Cleaned EXCEPT ![t] = CancelRecord(@)]
      BY <1>3, <2>2 DEF CloseCancels, CancelEffect
    <3>3. record' \in [Tasks -> Records] BY <1>3, Closing DEF Close, Typed
    <3> QED BY <3>1, <3>2, <3>3, CancelFollows
  <2> QED BY <2>1, <2>2
<1> QED BY <1>1, <1>2, <1>3 DEF Close

LEMMA NextFollows ==
  ASSUME IInv, [Next]_vars PROVE Follows
<1>1. ASSUME NEW c \in Connections, Deliver(c) \/ Displace(c) \/ Receive(c) PROVE Follows
  BY <1>1, Unmoved DEF Deliver, Displace, Receive, tasks, IInv
<1>2. CASE UNCHANGED vars BY <1>2, Unmoved DEF vars, tasks, IInv
<1> QED BY <1>1, <1>2, RequestFollows, RunFollows, CloseFollows DEF Next

(* Every step of the task manager is a step of TaskLifecycle or a stutter. *)
THEOREM TasksFollowTheirLifecycle == Spec => LifecycleSpec
<1>1. Init => Lifecycle!Init BY DEF Init, NoRecord, Lifecycle!Init
<1>2. ASSUME IInv, IInv', Follows
      PROVE  [Lifecycle!Next]_<<[t \in Tasks |-> record[t].status],
                                [t \in Tasks |-> record[t].retryOf]>>
  BY <1>2 DEF Follows, Moves, Lifecycle!Next, Lifecycle!Terminal, Terminal, IInv, Typed,
              Records, Statuses
<1>3. IInv /\ IInv' /\ [Next]_vars =>
        [Lifecycle!Next]_<<[t \in Tasks |-> record[t].status],
                           [t \in Tasks |-> record[t].retryOf]>>
  BY <1>2, NextFollows
<1> QED BY <1>1, <1>3, Invariant, PTL DEF Spec, LifecycleSpec, Lifecycle!Spec

-----------------------------------------------------------------------------
(* The stream: what a connection is told.                                  *)

Page == [Tasks -> Statuses]

StreamTyped ==
  /\ history \in Seq(Events) /\ subscribed \subseteq Connections
  /\ queue \in [Connections -> Seq(Events)] /\ unserved \in [Connections -> Seq(Events)]
  /\ displacing \in [Connections -> BOOLEAN] /\ told \in [Connections -> Page]

(* A resolve_paypal under way began on a task that had succeeded.          *)
ResolvesSuccess ==
  resolving # None => /\ resolving \in Tasks
                      /\ record[resolving].status \in {"succeeded", "gone"}

(* An event that says how a task finished is right for good.               *)
Right(e, R) == IsTerminal(e) => e.status = e.type /\ R[e.task].status \in {e.status, "gone"}

HistoryRight == \A i \in DOMAIN history : Right(history[i], record)

(* Who has not subscribed is told nothing.                                 *)
StrangersUntold ==
  \A c \in Connections \ subscribed :
    queue[c] = <<>> /\ unserved[c] = <<>> /\ told[c] = [t \in Tasks |-> "none"]

(* A place is made in a queue only for one that has been full.             *)
DisplacesFull ==
  \A c \in Connections : displacing[c] => c \in overflowed /\ unserved[c] # <<>>

StreamInv ==
  /\ StreamTyped /\ ResolvesSuccess /\ HistoryRight /\ StrangersUntold /\ DisplacesFull
  /\ FinishedIsTold

-----------------------------------------------------------------------------
(* The places in evs that tell of a status of t, and the last of them.     *)
Telling(evs, I, t) == {i \in I : evs[i].task = t /\ evs[i].status # "none"}
Latest(J) == CHOOSE i \in J : \A j \in J : j <= i

LEMMA LatestIsThere ==
  ASSUME NEW n \in Nat, NEW J \in SUBSET (1 .. n), J # {}
  PROVE  Latest(J) \in J /\ \A j \in J : j <= Latest(J)
<1> DEFINE T == {m \in Nat : \A j \in J : j <= m}
<1>1. n \in T BY DEF T
<1>2. PICK m \in T : \A k \in T : ~(<<k, m>> \in OpToRel(<, Nat))
  <2>1. T \subseteq Nat /\ T # {} BY <1>1
  <2> HIDE DEF T
  <2> QED BY <2>1, NatLessThanWellFounded, WFMin
<1>3. m \in T /\ \A k \in T : ~(k < m) BY <1>2 DEF OpToRel
<1>4. m \in Nat /\ \A j \in J : j \in Nat /\ j <= m
  <2>1. \A j \in J : j \in 1 .. n OBVIOUS
  <2> QED BY <1>3, <2>1
<1>5. m \in J
  <2> SUFFICES ASSUME m \notin J PROVE FALSE OBVIOUS
  <2>1. \A j \in J : j \in Nat /\ j >= 1 /\ j <= m /\ j # m
    <3>1. \A j \in J : j \in 1 .. n OBVIOUS
    <3> QED BY <1>4, <3>1
  <2>2. PICK j \in J : TRUE OBVIOUS
  <2>3. m - 1 \in Nat /\ \A k \in J : k <= m - 1 BY <1>4, <2>1, <2>2
  <2>4. m - 1 \in T BY <2>3
  <2> QED BY <1>3, <1>4, <2>4
<1>6. \E i \in J : \A j \in J : j <= i BY <1>4, <1>5
<1> QED BY <1>6 DEF Latest

(* The latest place is the only one that is not before another.            *)
LEMMA LatestIs ==
  ASSUME NEW n \in Nat, NEW J \in SUBSET (1 .. n), NEW i \in J, \A j \in J : j <= i
  PROVE  Latest(J) = i
<1> DEFINE k == Latest(J)
<1>1. k \in J /\ \A j \in J : j <= k BY LatestIsThere
<1> HIDE DEF k
<1>2. k \in 1 .. n /\ i \in 1 .. n BY <1>1
<1>3. i <= k /\ k <= i BY <1>1
<1>4. k = i BY <1>2, <1>3
<1> QED BY <1>4 DEF k

-----------------------------------------------------------------------------
(* What a replay says of one task.                                         *)
LEMMA ReplayedAt ==
  ASSUME NEW shown, NEW evs, NEW I, NEW t \in Tasks
  PROVE  Replayed(shown, evs, I)[t] =
           IF Telling(evs, I, t) # {} THEN evs[Latest(Telling(evs, I, t))].status
           ELSE IF shown[t] = "none" /\ \E i \in I : evs[i].task = t THEN "queued"
           ELSE shown[t]
BY DEF Replayed, Telling, Latest

LEMMA ReplayIsPage ==
  ASSUME NEW shown \in Page, NEW evs \in Seq(Events), NEW I \in SUBSET DOMAIN evs
  PROVE  Replayed(shown, evs, I) \in Page
<1>1. Replayed(shown, evs, I) = [t \in Tasks |-> Replayed(shown, evs, I)[t]]
  BY DEF Replayed
<1>2. ASSUME NEW t \in Tasks PROVE Replayed(shown, evs, I)[t] \in Statuses
  <2> DEFINE J == Telling(evs, I, t)
  <2>1. Len(evs) \in Nat /\ J \in SUBSET (1 .. Len(evs)) BY DEF Telling
  <2>2. J # {} => evs[Latest(J)].status \in Statuses
    <3>1. J # {} => Latest(J) \in 1 .. Len(evs)
      <4> HIDE DEF J
      <4> QED BY <2>1, LatestIsThere
    <3>2. \A i \in 1 .. Len(evs) : evs[i].status \in Statuses
      <4>1. \A i \in 1 .. Len(evs) : evs[i] \in Events OBVIOUS
      <4> QED BY <4>1 DEF Events
    <3> HIDE DEF J
    <3> QED BY <3>1, <3>2
  <2>3. shown[t] \in Statuses /\ "queued" \in Statuses BY DEF Page, Statuses
  <2> QED BY <2>2, <2>3, ReplayedAt
<1> QED BY <1>1, <1>2 DEF Page

LEMMA Joined ==
  ASSUME NEW s \in Seq(Events), NEW u \in Seq(Events)
  PROVE  /\ Len(s) \in Nat /\ Len(u) \in Nat
         /\ DOMAIN s = 1 .. Len(s) /\ DOMAIN u = 1 .. Len(u)
         /\ s \o u \in Seq(Events) /\ DOMAIN (s \o u) = 1 .. Len(s) + Len(u)
         /\ \A i \in DOMAIN s : i \in DOMAIN (s \o u) /\ (s \o u)[i] = s[i]
         /\ \A i \in DOMAIN (s \o u) \ DOMAIN s :
              i - Len(s) \in DOMAIN u /\ (s \o u)[i] = u[i - Len(s)]
         /\ \A i \in DOMAIN u : u[i] \in Events
OBVIOUS

(* Events about other tasks leave what is told of t as it was.             *)
LEMMA OthersLeaveIt ==
  ASSUME NEW shown, NEW s \in Seq(Events), NEW u \in Seq(Events), NEW t \in Tasks,
         \A i \in DOMAIN u : u[i].task # t
  PROVE  Replayed(shown, s \o u, DOMAIN (s \o u))[t] = Replayed(shown, s, DOMAIN s)[t]
<1> DEFINE w == s \o u
<1>1. /\ Len(s) \in Nat /\ Len(u) \in Nat /\ DOMAIN s = 1 .. Len(s) /\ DOMAIN u = 1 .. Len(u)
      /\ w \in Seq(Events) /\ DOMAIN w = 1 .. Len(s) + Len(u)
      /\ \A i \in DOMAIN s : i \in DOMAIN w /\ w[i] = s[i]
      /\ \A i \in DOMAIN w \ DOMAIN s : i - Len(s) \in DOMAIN u /\ w[i] = u[i - Len(s)]
  BY Joined
<1> HIDE DEF w
<1>2. \A i \in DOMAIN w : w[i].task = t => i \in DOMAIN s
  BY <1>1
<1>3. Telling(w, DOMAIN w, t) = Telling(s, DOMAIN s, t)
  BY <1>1, <1>2 DEF Telling
<1>4. (\E i \in DOMAIN w : w[i].task = t) <=> \E i \in DOMAIN s : s[i].task = t
  BY <1>1, <1>2
<1>5. Telling(s, DOMAIN s, t) # {} =>
         w[Latest(Telling(s, DOMAIN s, t))] = s[Latest(Telling(s, DOMAIN s, t))]
  <2>1. Telling(s, DOMAIN s, t) \in SUBSET (1 .. Len(s)) BY <1>1 DEF Telling
  <2> QED BY <1>1, <2>1, LatestIsThere
<1>6. Replayed(shown, w, DOMAIN w)[t] = Replayed(shown, s, DOMAIN s)[t]
  BY <1>3, <1>4, <1>5, ReplayedAt
<1> QED BY <1>6 DEF w

LEMMA OneMore ==
  ASSUME NEW s \in Seq(Events), NEW u \in Seq(Events), Len(u) = 1
  PROVE  /\ Len(s) \in Nat /\ DOMAIN (s \o u) = 1 .. Len(s) + 1
         /\ (s \o u)[Len(s) + 1] = u[1] /\ u[1] \in Events /\ s \o u \in Seq(Events)
<1> DEFINE w == s \o u
<1>1. /\ Len(s) \in Nat /\ w \in Seq(Events) /\ DOMAIN w = 1 .. Len(s) + Len(u)
      /\ DOMAIN u = 1 .. Len(u) /\ DOMAIN s = 1 .. Len(s)
      /\ \A i \in DOMAIN w \ DOMAIN s : i - Len(s) \in DOMAIN u /\ w[i] = u[i - Len(s)]
      /\ \A i \in DOMAIN u : u[i] \in Events
  BY Joined
<1> HIDE DEF w
<1>2. /\ Len(s) + 1 \in 1 .. Len(s) + Len(u) /\ Len(s) + 1 \notin 1 .. Len(s)
      /\ (Len(s) + 1) - Len(s) = 1
  BY <1>1
<1>3. w[Len(s) + 1] = u[1] BY <1>1, <1>2
<1>4. 1 \in DOMAIN u BY <1>1
<1> QED BY <1>1, <1>3, <1>4 DEF w

(* A last event with a status is what is told of its task.                 *)
LEMMA LastIsTold ==
  ASSUME NEW shown, NEW s \in Seq(Events), NEW u \in Seq(Events), Len(u) = 1,
         u[1].status # "none"
  PROVE  Replayed(shown, s \o u, DOMAIN (s \o u))[u[1].task] = u[1].status
<1> DEFINE w == s \o u  t == u[1].task
<1>1. /\ Len(s) \in Nat /\ w \in Seq(Events) /\ DOMAIN w = 1 .. Len(s) + 1
      /\ w[Len(s) + 1] = u[1] /\ u[1] \in Events
  BY OneMore
<1>2. t \in Tasks BY <1>1 DEF Events
<1> HIDE DEF w
<1> DEFINE J == Telling(w, DOMAIN w, t)
<1>3. /\ Len(s) + 1 \in Nat /\ J \in SUBSET (1 .. Len(s) + 1) /\ Len(s) + 1 \in J
      /\ \A j \in J : j <= Len(s) + 1
  BY <1>1 DEF Telling
<1>4. Latest(J) = Len(s) + 1
  <2> HIDE DEF J
  <2> QED BY <1>3, LatestIs
<1>5. Replayed(shown, w, DOMAIN w)[t] = u[1].status BY <1>1, <1>2, <1>3, <1>4, ReplayedAt
<1> QED BY <1>5 DEF w

(* Receiving an event changes nothing of what will be told in the end.     *)
LEMMA ReceivingTellsTheSame ==
  ASSUME NEW shown \in Page, NEW s \in Seq(Events), s # <<>>, NEW t \in Tasks
  PROVE  Replayed(Reduced(shown, Head(s)), Tail(s), DOMAIN Tail(s))[t]
           = Replayed(shown, s, DOMAIN s)[t]
<1> DEFINE e == s[1] r == Tail(s) page == Reduced(shown, e)
           J == Telling(s, DOMAIN s, t) K == Telling(r, DOMAIN r, t)
<1>1. /\ Len(s) \in Nat /\ Len(s) >= 1 /\ DOMAIN s = 1 .. Len(s) /\ 1 \in DOMAIN s
      /\ r \in Seq(Events) /\ Len(r) = Len(s) - 1 /\ Len(r) \in Nat /\ DOMAIN r = 1 .. Len(s) - 1
      /\ \A i \in DOMAIN r : i + 1 \in DOMAIN s /\ r[i] = s[i + 1]
      /\ \A i \in DOMAIN s : i # 1 => i - 1 \in DOMAIN r /\ s[i] = r[i - 1]
      /\ e \in Events /\ Head(s) = e
  OBVIOUS
<1>2. /\ e.task \in Tasks
      /\ page[t] = IF e.task # t THEN shown[t] ELSE IF e.status # "none" THEN e.status
                   ELSE IF shown[t] = "none" THEN "queued" ELSE shown[t]
  BY <1>1 DEF Reduced, Page, Events
<1> HIDE DEF e, r, page
<1>3. /\ J \in SUBSET (1 .. Len(s)) /\ K \in SUBSET (1 .. Len(r))
      /\ \A k \in K : k + 1 \in J
      /\ \A j \in J : j # 1 => j - 1 \in K
      /\ 1 \in J <=> e.task = t /\ e.status # "none"
  BY <1>1 DEF Telling, e
<1>4. /\ Replayed(shown, s, DOMAIN s)[t] =
           IF J # {} THEN s[Latest(J)].status
           ELSE IF shown[t] = "none" /\ \E i \in DOMAIN s : s[i].task = t THEN "queued"
           ELSE shown[t]
      /\ Replayed(page, r, DOMAIN r)[t] =
           IF K # {} THEN r[Latest(K)].status
           ELSE IF page[t] = "none" /\ \E i \in DOMAIN r : r[i].task = t THEN "queued"
           ELSE page[t]
  BY ReplayedAt
<1>5. (\E i \in DOMAIN s : s[i].task = t) <=> e.task = t \/ \E i \in DOMAIN r : r[i].task = t
  BY <1>1 DEF e
<1> HIDE DEF J, K
<1>6. CASE K # {}
  <2>1. Latest(K) \in K /\ \A k \in K : k <= Latest(K) BY <1>1, <1>3, <1>6, LatestIsThere
  <2>2. Latest(K) + 1 \in J /\ \A j \in J : j <= Latest(K) + 1
    <3>1. Latest(K) \in 1 .. Len(r) BY <1>3, <2>1
    <3>2. ASSUME NEW j \in J PROVE j <= Latest(K) + 1
      <4>1. j \in 1 .. Len(s) /\ (j # 1 => j - 1 \in K) BY <1>3
      <4>2. j # 1 => j - 1 <= Latest(K) BY <2>1, <4>1
      <4> QED BY <1>1, <3>1, <4>1, <4>2
    <3> QED BY <1>3, <2>1, <3>2
  <2>3. Latest(J) = Latest(K) + 1 BY <1>1, <1>3, <2>2, LatestIs
  <2>4. r[Latest(K)] = s[Latest(J)] BY <1>1, <1>3, <2>1, <2>3
  <2> QED BY <1>4, <1>6, <2>2, <2>4, <1>1 DEF e, r, page
<1>7. CASE K = {} /\ 1 \in J
  <2>1. \A j \in J : j <= 1 BY <1>1, <1>3, <1>7
  <2>2. Latest(J) = 1 BY <1>1, <1>3, <1>7, <2>1, LatestIs
  <2>3. s[Latest(J)] = e BY <2>2 DEF e
  <2> QED BY <1>1, <1>2, <1>3, <1>4, <1>7, <2>3 DEF e, r, page
<1>8. CASE K = {} /\ 1 \notin J
  <2>1. J = {} BY <1>3, <1>8
  <2>2. Replayed(page, r, DOMAIN r)[t] = Replayed(shown, s, DOMAIN s)[t]
    BY <1>2, <1>3, <1>4, <1>5, <1>8, <2>1
  <2> QED BY <1>1, <2>2 DEF e, r, page
<1> QED BY <1>6, <1>7, <1>8

(* A replay of which each event of t says how it finished says no more.    *)
LEMMA ReplayTellsOutcome ==
  ASSUME NEW evs \in Seq(Events), NEW I \in SUBSET DOMAIN evs, NEW t \in Tasks,
         NEW shown, shown[t] = "none", NEW s, s # "none",
         \A i \in I : evs[i].task = t => evs[i].status = s
  PROVE  Replayed(shown, evs, I)[t] \in {"none", s}
<1> DEFINE J == Telling(evs, I, t)
<1>1. Len(evs) \in Nat /\ J \in SUBSET (1 .. Len(evs)) BY DEF Telling
<1>2. J = {} => ~\E i \in I : evs[i].task = t BY DEF Telling
<1>3. J # {} => Latest(J) \in J
  <2> HIDE DEF J
  <2> QED BY <1>1, LatestIsThere
<1>4. \A j \in J : evs[j].status = s BY DEF Telling
<1> QED BY <1>2, <1>3, <1>4, ReplayedAt

-----------------------------------------------------------------------------
LEMMA StreamInitially == Init => StreamInv
<1> SUFFICES ASSUME Init PROVE StreamInv OBVIOUS
<1> USE DEF Init
<1>1. <<>> \in Seq(Events) OBVIOUS
<1>2. [t \in Tasks |-> "none"] \in Page BY DEF Page, Statuses
<1>3. StreamTyped BY <1>1, <1>2 DEF StreamTyped
<1>4. HistoryRight /\ StrangersUntold /\ DisplacesFull /\ ResolvesSuccess
  BY DEF HistoryRight, StrangersUntold, DisplacesFull, ResolvesSuccess
<1>5. FinishedIsTold BY DEF FinishedIsTold
<1> QED BY <1>3, <1>4, <1>5 DEF StreamInv

(* Records that move along their cycle leave what the history says right.  *)
LEMMA StaysRight ==
  ASSUME Typed, Follows, NEW e \in Events, Right(e, record) PROVE Right(e, record')
<1>1. e.task \in Tasks BY DEF Events
<1>2. Moves(record[e.task].status, record'[e.task].status) BY <1>1 DEF Follows
<1>3. e.type \in Terminal => e.status \in Terminal BY DEF Right, IsTerminal
<1> QED BY <1>2, <1>3 DEF Right, IsTerminal, Moves, Lifecycle!Moves, Lifecycle!Terminal, Terminal

LEMMA ResolvingGoesOn ==
  ASSUME Typed, Follows, ResolvesSuccess, resolving' \in {resolving, None}
  PROVE  ResolvesSuccess'
<1> SUFFICES ASSUME resolving # None, resolving' = resolving PROVE ResolvesSuccess'
  BY DEF ResolvesSuccess
<1>1. resolving \in Tasks /\ record[resolving].status \in {"succeeded", "gone"}
  BY DEF ResolvesSuccess
<1>2. Moves(record[resolving].status, record'[resolving].status) BY <1>1 DEF Follows
<1>3. record'[resolving].status \in {"succeeded", "gone"}
  BY <1>1, <1>2 DEF Moves, Lifecycle!Moves, Lifecycle!Terminal
<1> QED BY <1>1, <1>3 DEF ResolvesSuccess

(* A step that says nothing finishes no task.                              *)
LEMMA SayingNothing ==
  ASSUME Typed, Follows, StreamInv, UNCHANGED stream,
         resolving' \in {resolving, None} \/ ResolvesSuccess',
         \A t \in Tasks : record'[t].status \in Terminal => record[t].status = record'[t].status
  PROVE  StreamInv'
<1> USE DEF StreamInv
<1>1. StreamTyped' BY DEF StreamTyped, stream
<1>2. HistoryRight'
  <2>1. \A i \in DOMAIN history : history[i] \in Events BY DEF StreamTyped
  <2> QED BY <2>1, StaysRight DEF HistoryRight, stream
<1>3. StrangersUntold' /\ DisplacesFull' BY DEF StrangersUntold, DisplacesFull, stream
<1>4. FinishedIsTold'
  <2>1. \A c \in Connections : WillShow(c)' = WillShow(c) BY DEF WillShow, stream
  <2>2. subscribed' = subscribed /\ overflowed' = overflowed /\ subscribed \subseteq Connections
    BY DEF stream, StreamTyped
  <2> HIDE DEF StreamInv
  <2> QED BY <2>1, <2>2 DEF FinishedIsTold, TellsOutcome, StreamInv
<1> QED BY <1>1, <1>2, <1>3, <1>4, ResolvingGoesOn

LEMMA NothingMore ==
  ASSUME NEW c, NEW t \in Tasks, NEW evs \in Seq(Events), queue[c] \in Seq(Events),
         \A i \in DOMAIN evs : evs[i].task # t,
         told'[c] = told[c], queue'[c] = queue[c], unserved[c] = <<>>, unserved'[c] = evs
  PROVE  WillShow(c)'[t] = WillShow(c)[t]
<1> DEFINE q == queue[c] shown == told[c]
<1>1. queue[c] \o <<>> = queue[c] OBVIOUS
<1>2. /\ WillShow(c)[t] = Replayed(shown, q, DOMAIN q)[t]
      /\ WillShow(c)'[t] = Replayed(shown, q \o evs, DOMAIN (q \o evs))[t]
  BY <1>1 DEF WillShow
<1>3. q \in Seq(Events) OBVIOUS
<1> HIDE DEF q, shown
<1>4. Replayed(shown, q \o evs, DOMAIN (q \o evs))[t] = Replayed(shown, q, DOMAIN q)[t]
  BY <1>3, OthersLeaveIt
<1> QED BY <1>2, <1>4

(* A step that publishes: an event for each task that it finishes, and     *)
(* none about one that has finished before.                                *)
LEMMA Publishing ==
  ASSUME Typed, Follows, StreamInv, Unlocked, resolving' \in {resolving, None},
         NEW evs \in Seq(Events), Publish(evs),
         \A i \in DOMAIN evs : Right(evs[i], record'),
         \A t \in Tasks : record'[t].status \in Terminal =>
           \/ record[t].status = record'[t].status /\ \A i \in DOMAIN evs : evs[i].task # t
           \/ /\ Len(evs) = 1 /\ evs[1].task = t /\ evs[1].status = record'[t].status
  PROVE  StreamInv'
<1> USE DEF StreamInv
<1>1. /\ history' = LastOf(history \o evs, HistorySize)
      /\ unserved' = [c \in Connections |-> IF c \in subscribed THEN evs ELSE <<>>]
      /\ UNCHANGED <<subscribed, queue, displacing, told, overflowed>>
  BY DEF Publish
<1>2. history' \in Seq(Events) /\ \A i \in DOMAIN history' : Right(history'[i], record')
  <2> DEFINE h == history \o evs
  <2>1. h \in Seq(Events) /\ Len(h) \in Nat /\ \A i \in DOMAIN h :
          \/ \E j \in DOMAIN history : h[i] = history[j]
          \/ \E j \in DOMAIN evs : h[i] = evs[j]
    <3>1. history \in Seq(Events) BY DEF StreamTyped
    <3>2. /\ h \in Seq(Events) /\ Len(history) \in Nat /\ Len(evs) \in Nat
          /\ DOMAIN h = 1 .. Len(history) + Len(evs)
          /\ DOMAIN history = 1 .. Len(history) /\ DOMAIN evs = 1 .. Len(evs)
          /\ \A i \in DOMAIN history : h[i] = history[i]
          /\ \A i \in DOMAIN h \ DOMAIN history :
               i - Len(history) \in DOMAIN evs /\ h[i] = evs[i - Len(history)]
      BY <3>1
    <3> QED BY <3>2
  <2>2. \A i \in DOMAIN h : Right(h[i], record')
    <3>1. \A j \in DOMAIN history : history[j] \in Events BY DEF StreamTyped
    <3> HIDE DEF h
    <3> QED BY <2>1, <3>1, StaysRight DEF HistoryRight
  <2> HIDE DEF h
  <2>3. history' = LastOf(h, HistorySize) BY <1>1 DEF h
  <2>4. HistorySize \in Nat BY TaskManagerAssumption
  <2>5. history' \in Seq(Events) /\ \A i \in DOMAIN history' :
           \E j \in DOMAIN h : history'[i] = h[j]
    <3>1. CASE Len(h) <= HistorySize BY <2>1, <2>3, <3>1 DEF LastOf
    <3>2. CASE ~(Len(h) <= HistorySize)
      <4>1. history' = SubSeq(h, Len(h) - HistorySize + 1, Len(h)) BY <2>3, <3>2 DEF LastOf
      <4>2. /\ Len(h) - HistorySize + 1 \in 1 .. Len(h) + 1 /\ Len(h) \in Nat
        BY <2>1, <2>4, <3>2
      <4>3. /\ history' \in Seq(Events)
            /\ DOMAIN history' = 1 .. HistorySize
            /\ \A i \in 1 .. HistorySize : history'[i] = h[Len(h) - HistorySize + i]
        BY <2>1, <2>4, <3>2, <4>1, <4>2
      <4>4. \A i \in 1 .. HistorySize : Len(h) - HistorySize + i \in DOMAIN h
        BY <2>1, <2>4, <3>2
      <4> QED BY <4>3, <4>4
    <3> QED BY <3>1, <3>2
  <2> QED BY <2>2, <2>5
<1>3. \A c \in Connections : unserved[c] = <<>> BY DEF Unlocked
<1>4. StreamTyped'
  <2>1. unserved' \in [Connections -> Seq(Events)] BY <1>1
  <2> QED BY <1>1, <1>2, <2>1 DEF StreamTyped
<1>5. StrangersUntold' BY <1>1 DEF StrangersUntold
<1>6. DisplacesFull' BY <1>1, <1>3 DEF DisplacesFull
<1>7. FinishedIsTold'
  <2> SUFFICES ASSUME NEW c \in subscribed \ overflowed, NEW t \in Tasks,
                      record'[t].status \in Terminal
               PROVE  WillShow(c)'[t] \in {"none", record'[t].status}
    BY <1>1 DEF FinishedIsTold, TellsOutcome
  <2>1. c \in Connections /\ queue[c] \in Seq(Events) /\ queue[c] \o <<>> = queue[c]
    BY DEF StreamTyped
  <2>2. /\ WillShow(c) = Replayed(told[c], queue[c], DOMAIN queue[c])
        /\ WillShow(c)' = Replayed(told[c], queue[c] \o evs, DOMAIN (queue[c] \o evs))
    BY <1>1, <1>3, <2>1 DEF WillShow
  <2>3. CASE record[t].status = record'[t].status /\ \A i \in DOMAIN evs : evs[i].task # t
    <3>1. FinishedIsTold OBVIOUS
    <3>4. record[t].status \in Terminal BY <2>3
    <3>2. WillShow(c)[t] \in {"none", record[t].status}
      BY <3>1, <3>4 DEF FinishedIsTold, TellsOutcome
    <3>5. WillShow(c)'[t] = WillShow(c)[t] BY <1>1, <1>3, <2>1, <2>3, NothingMore
    <3> QED BY <2>3, <3>2, <3>5
  <2>4. CASE Len(evs) = 1 /\ evs[1].task = t /\ evs[1].status = record'[t].status
    <3>1. evs[1].status # "none" BY <2>4 DEF Terminal
    <3>2. Replayed(told[c], queue[c] \o evs, DOMAIN (queue[c] \o evs))[evs[1].task] = evs[1].status
      BY <2>1, <2>4, <3>1, LastIsTold
    <3> QED BY <2>2, <2>4, <3>2
  <2> QED BY <2>3, <2>4
<1> QED BY <1>1, <1>2, <1>4, <1>5, <1>6, <1>7, ResolvingGoesOn DEF HistoryRight

-----------------------------------------------------------------------------
(* One connection's queue: the rest of the stream stays.                   *)

LEMMA AppendedHead ==
  ASSUME NEW s \in Seq(Events), NEW u \in Seq(Events), u # <<>>
  PROVE  Append(s, Head(u)) \o Tail(u) = s \o u
<1>1. Head(u) \in Events /\ Tail(u) \in Seq(Events) BY HeadTailProperties
<1>2. Append(s, Head(u)) = s \o <<Head(u)>> BY <1>1, AppendIsConcat
<1>3. <<Head(u)>> \in Seq(Events) BY <1>1
<1>4. <<Head(u)>> \o Tail(u) = u BY <1>1
<1>5. (s \o <<Head(u)>>) \o Tail(u) = s \o (<<Head(u)>> \o Tail(u))
  BY <1>1, <1>3, ConcatAssociative
<1> QED BY <1>2, <1>4, <1>5

LEMMA TailOfJoined ==
  ASSUME NEW s \in Seq(Events), NEW u \in Seq(Events), s # <<>>
  PROVE  /\ s \o u \in Seq(Events) /\ s \o u # <<>>
         /\ Head(s \o u) = Head(s) /\ Tail(s \o u) = Tail(s) \o u
<1> DEFINE w == s \o u
<1>1. /\ w \in Seq(Events) /\ Len(w) = Len(s) + Len(u) /\ Len(s) \in Nat /\ Len(u) \in Nat
      /\ Len(s) >= 1 /\ w[1] = s[1] /\ w # <<>>
  OBVIOUS
<1>2. Head(w) = Head(s) BY <1>1
<1>3. /\ Tail(s) \in Seq(Events) /\ Len(Tail(s)) = Len(s) - 1
      /\ \A i \in 1 .. Len(s) - 1 : Tail(s)[i] = s[i + 1]
  BY HeadTailProperties
<1>4. /\ Tail(w) \in Seq(Events) /\ Len(Tail(w)) = Len(s) + Len(u) - 1
      /\ \A i \in 1 .. Len(s) + Len(u) - 1 : Tail(w)[i] = w[i + 1]
  <2> HIDE DEF w
  <2> QED BY <1>1, HeadTailProperties
<1>5. /\ Tail(s) \o u \in Seq(Events) /\ Len(Tail(s) \o u) = Len(s) - 1 + Len(u)
      /\ \A i \in 1 .. Len(s) - 1 + Len(u) : (Tail(s) \o u)[i] =
           IF i <= Len(s) - 1 THEN Tail(s)[i] ELSE u[i - (Len(s) - 1)]
  BY <1>3, ConcatProperties
<1>6. \A i \in 1 .. Len(s) + Len(u) : w[i] = IF i <= Len(s) THEN s[i] ELSE u[i - Len(s)]
  BY ConcatProperties
<1> HIDE DEF w
<1>7. ASSUME NEW i \in 1 .. Len(Tail(w)) PROVE Tail(w)[i] = (Tail(s) \o u)[i]
  <2>1. i \in 1 .. Len(s) + Len(u) - 1 /\ i + 1 \in 1 .. Len(s) + Len(u) BY <1>1, <1>4
  <2>2. Tail(w)[i] = IF i + 1 <= Len(s) THEN s[i + 1] ELSE u[i + 1 - Len(s)]
    BY <1>4, <1>6, <2>1
  <2>3. (Tail(s) \o u)[i] = IF i <= Len(s) - 1 THEN Tail(s)[i] ELSE u[i - (Len(s) - 1)]
    BY <1>1, <1>5, <2>1
  <2>4. i + 1 - Len(s) = i - (Len(s) - 1) /\ (i + 1 <= Len(s) <=> i <= Len(s) - 1)
    BY <1>1, <2>1
  <2>5. i <= Len(s) - 1 => Tail(s)[i] = s[i + 1] BY <1>1, <1>3, <2>1
  <2> QED BY <2>2, <2>3, <2>4, <2>5
<1>8. Len(Tail(w)) = Len(Tail(s) \o u) BY <1>1, <1>4, <1>5
<1>9. Tail(w) = Tail(s) \o u BY <1>4, <1>5, <1>7, <1>8, SeqEqual
<1> QED BY <1>1, <1>2, <1>9 DEF w

(* A step of c's queue that changes nothing of what c will have been told, *)
(* or that leaves c among those that have been full.                       *)
LEMMA QueueMoves ==
  ASSUME StreamInv, NEW c \in subscribed, UNCHANGED <<tasks, history, subscribed>>,
         \A d \in Connections \ {c} :
            /\ queue'[d] = queue[d] /\ unserved'[d] = unserved[d]
            /\ told'[d] = told[d] /\ displacing'[d] = displacing[d],
         StreamTyped',
         overflowed' \in {overflowed, overflowed \cup {c}},
         displacing'[c] => c \in overflowed' /\ unserved'[c] # <<>>,
         c \in overflowed' \/ \A t \in Tasks : WillShow(c)'[t] = WillShow(c)[t]
  PROVE  StreamInv'
<1> USE DEF StreamInv
<1>1. ResolvesSuccess' /\ HistoryRight' BY DEF ResolvesSuccess, HistoryRight, tasks
<1>2. StrangersUntold' BY DEF StrangersUntold
<1>3. DisplacesFull' BY DEF DisplacesFull
<1>4. FinishedIsTold'
  <2> SUFFICES ASSUME NEW d \in subscribed \ overflowed', NEW t \in Tasks,
                      record[t].status \in Terminal
               PROVE  WillShow(d)'[t] \in {"none", record[t].status}
    BY DEF FinishedIsTold, TellsOutcome, tasks
  <2>1. d \in subscribed \ overflowed /\ d \in Connections BY DEF StreamTyped
  <2>2. WillShow(d)[t] \in {"none", record[t].status}
    BY <2>1 DEF FinishedIsTold, TellsOutcome
  <2>3. d # c => WillShow(d)' = WillShow(d) BY <2>1 DEF WillShow
  <2> QED BY <2>2, <2>3
<1> QED BY <1>1, <1>2, <1>3, <1>4

LEMMA DeliveringTells ==
  ASSUME StreamInv, NEW c \in Connections, Deliver(c) PROVE StreamInv'
<1> USE DEF StreamInv
<1>0. StreamTyped OBVIOUS
<1>1. c \in subscribed BY DEF StrangersUntold, Deliver
<1>2. /\ queue[c] \in Seq(Events) /\ unserved[c] \in Seq(Events) /\ unserved[c] # <<>>
      /\ queue \in [Connections -> Seq(Events)] /\ unserved \in [Connections -> Seq(Events)]
      /\ displacing \in [Connections -> BOOLEAN] /\ ~displacing[c]
  BY DEF StreamTyped, Deliver
<1>3. Head(unserved[c]) \in Events /\ Tail(unserved[c]) \in Seq(Events)
  BY <1>2, HeadTailProperties
<1>4. /\ UNCHANGED <<tasks, history, subscribed, told>>
      /\ overflowed' = IF Len(queue[c]) = QueueSize THEN overflowed \cup {c} ELSE overflowed
  BY DEF Deliver
<1>5. CASE /\ Len(queue[c]) < QueueSize
           /\ queue' = [queue EXCEPT ![c] = Append(@, Head(unserved[c]))]
           /\ Served(c) /\ UNCHANGED displacing
  <2>1. /\ queue'[c] = Append(queue[c], Head(unserved[c]))
        /\ unserved'[c] = Tail(unserved[c])
        /\ \A d \in Connections \ {c} : queue'[d] = queue[d] /\ unserved'[d] = unserved[d]
    BY <1>2, <1>5 DEF Served
  <2>2. Append(queue[c], Head(unserved[c])) \in Seq(Events) BY <1>2, <1>3, AppendProperties
  <2>3. queue' \in [Connections -> Seq(Events)] /\ unserved' \in [Connections -> Seq(Events)]
    BY <1>2, <1>3, <1>5, <2>2 DEF Served
  <2>4. StreamTyped' BY <1>0, <1>4, <1>5, <2>3 DEF StreamTyped
  <2>5. WillShow(c)' = WillShow(c)
    <3>1. queue'[c] \o unserved'[c] = queue[c] \o unserved[c]
      BY <1>2, <2>1, AppendedHead
    <3> QED BY <1>4, <3>1 DEF WillShow
  <2> QED BY <1>1, <1>2, <1>4, <1>5, <2>1, <2>4, <2>5, QueueMoves
<1>6. CASE /\ Len(queue[c]) = QueueSize /\ Served(c) /\ UNCHANGED <<queue, displacing>>
  <2>1. /\ unserved' \in [Connections -> Seq(Events)]
        /\ \A d \in Connections \ {c} : unserved'[d] = unserved[d]
    BY <1>2, <1>3, <1>6 DEF Served
  <2>2. StreamTyped' BY <1>0, <1>4, <1>6, <2>1 DEF StreamTyped
  <2>3. c \in overflowed' /\ overflowed' = overflowed \cup {c} /\ ~displacing'[c]
    BY <1>2, <1>4, <1>6
  <2> QED BY <1>1, <1>4, <1>6, <2>1, <2>2, <2>3, QueueMoves
<1>7. CASE /\ Len(queue[c]) = QueueSize
           /\ displacing' = [displacing EXCEPT ![c] = TRUE]
           /\ UNCHANGED <<queue, unserved>>
  <2>1. /\ displacing' \in [Connections -> BOOLEAN]
        /\ \A d \in Connections \ {c} : displacing'[d] = displacing[d]
    BY <1>2, <1>7
  <2>2. StreamTyped' BY <1>0, <1>4, <1>7, <2>1 DEF StreamTyped
  <2>3. c \in overflowed' /\ overflowed' = overflowed \cup {c} BY <1>4, <1>7
  <2>4. unserved'[c] # <<>> BY <1>2, <1>7
  <2> QED BY <1>1, <1>4, <1>7, <2>1, <2>2, <2>3, <2>4, QueueMoves
<1> QED BY <1>5, <1>6, <1>7 DEF Deliver

LEMMA DisplacingTells ==
  ASSUME StreamInv, NEW c \in Connections, Displace(c) PROVE StreamInv'
<1> USE DEF StreamInv
<1>0. StreamTyped OBVIOUS
<1>1. c \in overflowed /\ unserved[c] # <<>> /\ c \in subscribed
  BY DEF DisplacesFull, StrangersUntold, Displace
<1>2. /\ queue[c] \in Seq(Events) /\ unserved[c] \in Seq(Events)
      /\ queue \in [Connections -> Seq(Events)] /\ unserved \in [Connections -> Seq(Events)]
      /\ displacing \in [Connections -> BOOLEAN]
  BY DEF StreamTyped
<1>3. Head(unserved[c]) \in Events /\ Tail(unserved[c]) \in Seq(Events)
  BY <1>1, <1>2, HeadTailProperties
<1>4. queue[c] # <<>> => Append(Tail(queue[c]), Head(unserved[c])) \in Seq(Events)
  <2>1. queue[c] # <<>> => Tail(queue[c]) \in Seq(Events) BY <1>2, HeadTailProperties
  <2> QED BY <1>3, <2>1, AppendProperties
<1>5. /\ UNCHANGED <<tasks, history, subscribed, told, overflowed>>
      /\ displacing' = [displacing EXCEPT ![c] = FALSE]
      /\ unserved' = [unserved EXCEPT ![c] = Tail(@)]
      /\ queue' = IF queue[c] = <<>> THEN queue
                  ELSE [queue EXCEPT ![c] = Append(Tail(@), Head(unserved[c]))]
  BY DEF Displace, Served
<1>6. /\ queue' \in [Connections -> Seq(Events)] /\ unserved' \in [Connections -> Seq(Events)]
      /\ displacing' \in [Connections -> BOOLEAN] /\ ~displacing'[c]
      /\ \A d \in Connections \ {c} : /\ queue'[d] = queue[d] /\ unserved'[d] = unserved[d]
                                      /\ displacing'[d] = displacing[d]
  BY <1>2, <1>3, <1>4, <1>5
<1>7. StreamTyped' BY <1>0, <1>5, <1>6 DEF StreamTyped
<1> QED BY <1>1, <1>5, <1>6, <1>7, QueueMoves

LEMMA ReceivingTells ==
  ASSUME StreamInv, NEW c \in Connections, Receive(c) PROVE StreamInv'
<1> USE DEF StreamInv
<1>0. StreamTyped OBVIOUS
<1>1. c \in subscribed BY DEF StrangersUntold, Receive
<1>2. /\ queue[c] \in Seq(Events) /\ unserved[c] \in Seq(Events) /\ queue[c] # <<>>
      /\ queue \in [Connections -> Seq(Events)] /\ told \in [Connections -> Page]
      /\ told[c] \in Page
  BY DEF StreamTyped, Receive
<1>3. Head(queue[c]) \in Events /\ Tail(queue[c]) \in Seq(Events)
  BY <1>2, HeadTailProperties
<1>4. Reduced(told[c], Head(queue[c])) \in Page
  BY <1>2, <1>3 DEF Reduced, Page, Events, Statuses
<1>5. /\ UNCHANGED <<tasks, history, subscribed, unserved, displacing, overflowed>>
      /\ told' = [told EXCEPT ![c] = Reduced(@, Head(queue[c]))]
      /\ queue' = [queue EXCEPT ![c] = Tail(@)]
  BY DEF Receive
<1>6. /\ queue' \in [Connections -> Seq(Events)] /\ told' \in [Connections -> Page]
      /\ \A d \in Connections \ {c} : queue'[d] = queue[d] /\ told'[d] = told[d]
      /\ told'[c] = Reduced(told[c], Head(queue[c])) /\ queue'[c] = Tail(queue[c])
  BY <1>2, <1>3, <1>4, <1>5
<1>7. StreamTyped' BY <1>0, <1>5, <1>6 DEF StreamTyped
<1>8. ASSUME NEW t \in Tasks PROVE WillShow(c)'[t] = WillShow(c)[t]
  <2> DEFINE s == queue[c] \o unserved[c]
  <2>1. /\ s \in Seq(Events) /\ s # <<>> /\ Head(s) = Head(queue[c])
        /\ Tail(s) = Tail(queue[c]) \o unserved[c]
    BY <1>2, TailOfJoined
  <2>2. /\ WillShow(c) = Replayed(told[c], s, DOMAIN s)
        /\ WillShow(c)' = Replayed(Reduced(told[c], Head(s)), Tail(s), DOMAIN Tail(s))
    BY <1>5, <1>6, <2>1 DEF WillShow
  <2> HIDE DEF s
  <2>3. Replayed(Reduced(told[c], Head(s)), Tail(s), DOMAIN Tail(s))[t]
          = Replayed(told[c], s, DOMAIN s)[t]
    BY <1>2, <2>1, ReceivingTellsTheSame
  <2> QED BY <2>2, <2>3
<1>9. displacing'[c] => c \in overflowed' /\ unserved'[c] # <<>>
  BY <1>5 DEF DisplacesFull
<1> QED BY <1>1, <1>5, <1>6, <1>7, <1>8, <1>9, QueueMoves

-----------------------------------------------------------------------------
(* The steps that publish.                                                 *)

LEMMA EventIs ==
  ASSUME NEW t \in Tasks, NEW s \in Statuses,
         NEW type \in Terminal \cup {"created", "started", "log", "stage",
                                     "checkout_detected", "cancel_requested", "deleted"}
  PROVE  /\ Event(t, type, s) \in Events /\ Event(t, type, s).task = t
         /\ Event(t, type, s).type = type /\ Event(t, type, s).status = s
BY DEF Event, Events

(* One event, about the only task that the step may finish.                *)
LEMMA PublishingOne ==
  ASSUME Typed, Follows, StreamInv, Unlocked, resolving' \in {resolving, None},
         NEW e \in Events, Publish(<<e>>), Right(e, record'),
         \A t \in Tasks : record'[t].status \in Terminal =>
           \/ record[t].status = record'[t].status /\ e.task # t
           \/ e.task = t /\ e.status = record'[t].status
  PROVE  StreamInv'
<1> DEFINE evs == <<e>>
<1>1. evs \in Seq(Events) /\ Len(evs) = 1 /\ DOMAIN evs = {1} /\ evs[1] = e OBVIOUS
<1>2. Publish(evs) OBVIOUS
<1> HIDE DEF evs
<1>3. \A i \in DOMAIN evs : Right(evs[i], record') BY <1>1
<1>4. \A t \in Tasks : record'[t].status \in Terminal =>
           \/ record[t].status = record'[t].status /\ \A i \in DOMAIN evs : evs[i].task # t
           \/ /\ Len(evs) = 1 /\ evs[1].task = t /\ evs[1].status = record'[t].status
  BY <1>1
<1> QED BY <1>1, <1>2, <1>3, <1>4, Publishing

LEMMA CleaningFinishesNone ==
  ASSUME Typed, Shape, NEW t \in Tasks, Cleaned[t].status \in Terminal
  PROVE  record[t].status = Cleaned[t].status
BY CleanedFollows DEF Terminal

LEMMA CleaningTells ==
  ASSUME IInv, StreamInv, Silent, record' = Cleaned, resolving' \in {resolving, None}
  PROVE  StreamInv'
<1>1. Typed /\ Shape BY DEF IInv
<1>2. Follows BY <1>1, CleaningFollows
<1>3. \A t \in Tasks : record'[t].status \in Terminal => record[t].status = record'[t].status
  BY <1>1, CleaningFinishesNone
<1> QED BY <1>1, <1>2, <1>3, SayingNothing DEF Silent

LEMMA CancellingTells ==
  ASSUME IInv, StreamInv, Unlocked, NEW t \in Tasks, record' \in [Tasks -> Records],
         Cleaned[t].status \in Busy \cup {"queued"}, CancelEffect(t, Cleaned),
         resolving' \in {resolving, None}
  PROVE  StreamInv'
<1>1. Typed /\ Shape /\ Cleaned \in [Tasks -> Records] BY Cleaning DEF IInv
<1>2. record' = [Cleaned EXCEPT ![t] = CancelRecord(@)] BY DEF CancelEffect
<1>3. Follows BY <1>1, <1>2, CancelFollows
<1>4. /\ record'[t].status =
             IF Cleaned[t].status = "queued" THEN "cancelled" ELSE "cancel_requested"
      /\ \A u \in Tasks : u # t => record'[u] = Cleaned[u]
  BY <1>1, <1>2 DEF CancelRecord, Records, Busy
<1>5. \A u \in Tasks : u # t /\ record'[u].status \in Terminal =>
         record[u].status = record'[u].status
  BY <1>1, <1>4, CleaningFinishesNone
<1>6. CASE Cleaned[t].status = "queued"
  <2> DEFINE e == Event(t, "cancelled", "cancelled")
  <2>1. Publish(<<e>>) BY <1>6 DEF CancelEffect
  <2>2. e \in Events /\ e.task = t /\ e.status = "cancelled" /\ e.type = "cancelled"
    BY EventIs DEF Statuses, Terminal
  <2> HIDE DEF e
  <2>3. Right(e, record') BY <1>4, <1>6, <2>2 DEF Right
  <2> QED BY <1>1, <1>3, <1>4, <1>5, <1>6, <2>1, <2>2, <2>3, PublishingOne
<1>7. CASE Cleaned[t].status = "running"
  <2> DEFINE e == Event(t, "cancel_requested", "cancel_requested")
  <2>1. Publish(<<e>>) BY <1>7 DEF CancelEffect
  <2>2. e \in Events /\ e.task = t /\ e.type = "cancel_requested"
    BY DEF Event, Events, Statuses
  <2>3. Right(e, record') /\ record'[t].status \notin Terminal
    BY <1>4, <1>7, <2>2 DEF Right, IsTerminal, Terminal
  <2> HIDE DEF e
  <2> QED BY <1>1, <1>3, <1>5, <2>1, <2>2, <2>3, PublishingOne
<1>8. CASE Cleaned[t].status = "cancel_requested"
  <2>1. Silent BY <1>8 DEF CancelEffect
  <2>2. record'[t].status \notin Terminal BY <1>4, <1>8 DEF Terminal
  <2> QED BY <1>1, <1>3, <1>5, <2>1, <2>2, SayingNothing DEF Silent
<1> QED BY <1>6, <1>7, <1>8 DEF Busy

(* A step that leaves the records alone and says nothing.                  *)
LEMMA QuietTells ==
  ASSUME IInv, StreamInv, UNCHANGED <<record, resolving>>, Silent PROVE StreamInv'
<1>1. Typed /\ Follows BY Unmoved DEF IInv
<1> QED BY <1>1, SayingNothing DEF Silent

LEMMA DeletingTells ==
  ASSUME IInv, StreamInv, NEW D \in SUBSET Tasks, Delete(D), Follows,
         NEW s \in Orders(D), Publish([i \in DOMAIN s |-> Event(s[i], "deleted", "gone")])
  PROVE  StreamInv'
<1> DEFINE evs == [i \in DOMAIN s |-> Event(s[i], "deleted", "gone")]
<1>1. Typed /\ Shape /\ Cleaned \in [Tasks -> Records] /\ Unlocked
  BY Cleaning DEF IInv, Delete, Serving
<1>2. IsFiniteSet(D) /\ Cardinality(D) \in Nat
  BY TaskManagerAssumption, FS_Subset, FS_CardinalityType
<1>3. /\ DOMAIN s = 1 .. Cardinality(D) /\ \A i \in DOMAIN s : s[i] \in D
  BY DEF Orders
<1>4. \A i \in DOMAIN s : /\ Event(s[i], "deleted", "gone") \in Events
                          /\ Event(s[i], "deleted", "gone").task \in D
                          /\ Event(s[i], "deleted", "gone").type = "deleted"
  <2>1. \A i \in DOMAIN s : s[i] \in Tasks BY <1>3
  <2> QED BY <1>3, <2>1 DEF Event, Events, Statuses
<1>5. evs \in Seq(Events)
  <2>1. evs \in [1 .. Cardinality(D) -> Events] BY <1>3, <1>4
  <2> HIDE DEF evs
  <2> QED BY <1>2, <2>1
<1>6. \A i \in DOMAIN evs : evs[i].task \in D /\ ~IsTerminal(evs[i])
  BY <1>4 DEF IsTerminal, Terminal
<1>7. Publish(evs) OBVIOUS
<1> HIDE DEF evs
<1>8. \A t \in Tasks : record'[t].status \in Terminal =>
         t \notin D /\ record'[t].status = Cleaned[t].status
  BY <1>1 DEF Delete, Records, Terminal
<1>9. \A t \in Tasks : record'[t].status \in Terminal =>
         record[t].status = record'[t].status /\ \A i \in DOMAIN evs : evs[i].task # t
  BY <1>1, <1>6, <1>8, CleaningFinishesNone
<1>10. \A i \in DOMAIN evs : Right(evs[i], record') BY <1>6 DEF Right
<1>11. resolving' = resolving BY DEF Delete, OnlyRecords
<1> QED BY <1>1, <1>5, <1>7, <1>9, <1>10, <1>11, Publishing

(* A replay, and then every event: what it says of the tasks that have     *)
(* finished is how they finished.                                          *)
LEMMA SubscribingTells ==
  ASSUME IInv, StreamInv, NEW c \in Connections, Subscribe(c) PROVE StreamInv'
<1> USE DEF StreamInv
<1> DEFINE I == Relevant(Cleaned)
<1>1. Typed /\ Shape /\ Follows /\ StreamTyped
  BY CleaningFollows DEF IInv, Subscribe
<1>2. /\ history \in Seq(Events) /\ I \in SUBSET DOMAIN history
      /\ told \in [Connections -> Page] /\ queue[c] = <<>> /\ unserved[c] = <<>>
      /\ told[c] = [t \in Tasks |-> "none"] /\ told[c] \in Page
  BY DEF StreamTyped, StrangersUntold, Subscribe, Relevant
<1>3. /\ record' = Cleaned /\ subscribed' = subscribed \cup {c} /\ resolving' = resolving
      /\ told' = [told EXCEPT ![c] = Replayed(@, history, I)]
      /\ UNCHANGED <<history, queue, unserved, displacing, overflowed>>
  BY DEF Subscribe, OnlyRecords
<1>4. Replayed(told[c], history, I) \in Page BY <1>2, ReplayIsPage
<1>5. /\ told' \in [Connections -> Page] /\ told'[c] = Replayed(told[c], history, I)
      /\ \A d \in Connections \ {c} : told'[d] = told[d]
  BY <1>2, <1>3, <1>4
<1>6. StreamTyped' BY <1>1, <1>3, <1>5 DEF StreamTyped
<1>7. HistoryRight'
  <2>1. \A i \in DOMAIN history : history[i] \in Events BY <1>2
  <2> QED BY <1>1, <1>3, <2>1, StaysRight DEF HistoryRight
<1>8. StrangersUntold' /\ DisplacesFull'
  BY <1>3, <1>5 DEF StrangersUntold, DisplacesFull
<1>9. FinishedIsTold'
  <2> SUFFICES ASSUME NEW d \in subscribed' \ overflowed, NEW t \in Tasks,
                      record'[t].status \in Terminal
               PROVE  WillShow(d)'[t] \in {"none", record'[t].status}
    BY <1>3 DEF FinishedIsTold, TellsOutcome
  <2>1. record[t].status = record'[t].status BY <1>1, <1>3, CleaningFinishesNone
  <2>2. CASE d # c
    <3>1. d \in subscribed \ overflowed /\ d \in Connections BY <1>3, <2>2 DEF StreamTyped
    <3>2. WillShow(d)[t] \in {"none", record[t].status}
      BY <2>1, <3>1 DEF FinishedIsTold, TellsOutcome
    <3>3. WillShow(d)' = WillShow(d) BY <1>3, <1>5, <2>2, <3>1 DEF WillShow
    <3> QED BY <2>1, <3>2, <3>3
  <2>3. CASE d = c
    <3>1. \A i \in I : history[i].task = t => history[i].status = record'[t].status
      <4> SUFFICES ASSUME NEW i \in I, history[i].task = t
                   PROVE  history[i].status = record'[t].status
        OBVIOUS
      <4>1. i \in DOMAIN history /\ IsTerminal(history[i]) BY <1>3 DEF Relevant
      <4>2. Right(history[i], record) BY <4>1 DEF HistoryRight
      <4> QED BY <2>1, <4>1, <4>2 DEF Right, Terminal
    <3>2. record'[t].status # "none" /\ told[c][t] = "none" BY <1>2 DEF Terminal
    <3>3. Replayed(told[c], history, I)[t] \in {"none", record'[t].status}
      <4> HIDE DEF I, StreamInv
      <4> QED BY <1>2, <3>1, <3>2, ReplayTellsOutcome
    <3>4. WillShow(c)' = Replayed(told'[c], <<>>, DOMAIN <<>>)
      <4>1. queue'[c] \o unserved'[c] = <<>> BY <1>2, <1>3
      <4> QED BY <4>1 DEF WillShow
    <3>5. Replayed(told'[c], <<>>, DOMAIN <<>>)[t] = told'[c][t]
      <4>1. \A i \in DOMAIN <<>> : FALSE OBVIOUS
      <4> QED BY <4>1 DEF Replayed
    <3> QED BY <1>5, <2>3, <3>3, <3>4, <3>5
  <2> QED BY <2>2, <2>3
<1>10. ResolvesSuccess' BY <1>1, <1>3, ResolvingGoesOn
<1> QED BY <1>6, <1>7, <1>8, <1>9, <1>10

LEMMA UnsubscribingTells ==
  ASSUME StreamInv, NEW c \in Connections, Unsubscribe(c) PROVE StreamInv'
<1> USE DEF StreamInv
<1>1. /\ queue \in [Connections -> Seq(Events)] /\ told \in [Connections -> Page]
      /\ \A d \in Connections : unserved[d] = <<>> /\ ~displacing[d]
  BY DEF StreamTyped, DisplacesFull, Unsubscribe, Unlocked
<1>2. /\ subscribed' = subscribed \ {c} /\ overflowed' = overflowed \ {c}
      /\ queue' = [queue EXCEPT ![c] = <<>>]
      /\ told' = [told EXCEPT ![c] = [t \in Tasks |-> "none"]]
      /\ UNCHANGED <<record, resolving, history, unserved, displacing>>
  BY DEF Unsubscribe, tasks
<1>3. /\ queue'[c] = <<>> /\ told'[c] = [t \in Tasks |-> "none"]
      /\ \A d \in Connections \ {c} : queue'[d] = queue[d] /\ told'[d] = told[d]
  BY <1>1, <1>2
<1>4. queue' \in [Connections -> Seq(Events)] /\ told' \in [Connections -> Page]
  <2>1. [t \in Tasks |-> "none"] \in Page /\ <<>> \in Seq(Events) BY DEF Page, Statuses
  <2> QED BY <1>1, <1>2, <2>1
<1>5. StreamTyped' BY <1>2, <1>4 DEF StreamTyped
<1>6. ResolvesSuccess' /\ HistoryRight' BY <1>2 DEF ResolvesSuccess, HistoryRight
<1>7. StrangersUntold' BY <1>1, <1>2, <1>3 DEF StrangersUntold
<1>8. DisplacesFull' BY <1>1, <1>2 DEF DisplacesFull
<1>9. FinishedIsTold'
  <2> SUFFICES ASSUME NEW d \in subscribed' \ overflowed', NEW t \in Tasks,
                      record[t].status \in Terminal
               PROVE  WillShow(d)'[t] \in {"none", record[t].status}
    BY <1>2 DEF FinishedIsTold, TellsOutcome
  <2>1. d \in subscribed \ overflowed /\ d \in Connections /\ d # c
    BY <1>2 DEF StreamTyped
  <2>2. WillShow(d)[t] \in {"none", record[t].status}
    BY <2>1 DEF FinishedIsTold, TellsOutcome
  <2>3. WillShow(d)' = WillShow(d) BY <1>2, <1>3, <2>1 DEF WillShow
  <2> QED BY <2>2, <2>3
<1> QED BY <1>5, <1>6, <1>7, <1>8, <1>9

LEMMA RequestTells ==
  ASSUME IInv, StreamInv, Requests PROVE StreamInv'
<1>1. Typed /\ Shape /\ Cleaned \in [Tasks -> Records] /\ Follows
  BY Cleaning, RequestFollows DEF IInv
<1>2. record' \in [Tasks -> Records] BY <1>1, Requested DEF Typed
<1>3. CASE List
  BY <1>3, CleaningTells DEF List, OnlyRecords
<1>4. CASE ResolveEnds
  <2>1. CASE Silent
    <3>1. resolving' = None /\ UNCHANGED record BY <1>4 DEF ResolveEnds
    <3> QED BY <1>1, <2>1, <3>1, SayingNothing DEF Silent
  <2>2. CASE resolving \in Present(record) /\ Publish(<<Event(resolving, "succeeded", "succeeded")>>)
    <3> DEFINE e == Event(resolving, "succeeded", "succeeded")
    <3>1. /\ resolving \in Tasks /\ record[resolving].status = "succeeded"
          /\ resolving' = None /\ UNCHANGED record /\ Unlocked
      BY <1>4, <2>2 DEF ResolveEnds, Present, StreamInv, ResolvesSuccess
    <3>2. e \in Events /\ e.task = resolving /\ e.status = "succeeded" /\ e.type = "succeeded"
      BY <3>1, EventIs DEF Statuses, Terminal
    <3>3. Publish(<<e>>) BY <2>2
    <3> HIDE DEF e
    <3>4. Right(e, record') BY <3>1, <3>2 DEF Right
    <3> QED BY <1>1, <3>1, <3>2, <3>3, <3>4, PublishingOne
  <2> QED BY <1>4, <2>1, <2>2 DEF ResolveEnds
<1>5. ASSUME NEW t \in Tasks, Create(t) PROVE StreamInv'
  <2> DEFINE e == Event(t, "created", "queued")
  <2>1. /\ record' = [Cleaned EXCEPT ![t] = NewRecord(None)] /\ Unlocked
        /\ resolving' = resolving /\ Publish(<<e>>)
    BY <1>5 DEF Create, Serving, OnlyRecords
  <2>2. e \in Events /\ e.task = t /\ e.type = "created" BY EventIs DEF Statuses
  <2> HIDE DEF e
  <2>3. /\ record'[t].status = "queued" /\ \A u \in Tasks : u # t => record'[u] = Cleaned[u]
    BY <1>1, <2>1 DEF NewRecord, NoRecord
  <2>4. \A u \in Tasks : record'[u].status \in Terminal =>
           record[u].status = record'[u].status /\ e.task # u
    BY <1>1, <2>2, <2>3, CleaningFinishesNone DEF Terminal
  <2>5. Right(e, record') BY <2>2 DEF Right, IsTerminal, Terminal
  <2> QED BY <1>1, <2>1, <2>2, <2>4, <2>5, PublishingOne
<1>6. ASSUME NEW t \in Tasks, Cancel(t) PROVE StreamInv'
  <2>1. /\ CancelEffect(t, Cleaned) /\ Unlocked /\ resolving' = resolving
        /\ Cleaned[t].status \in Busy \cup {"queued"}
    BY <1>6 DEF Cancel, Serving, OnlyRecords, Busy
  <2> QED BY <1>2, <2>1, CancellingTells
<1>7. ASSUME NEW t \in Tasks, DeleteOne(t) PROVE StreamInv'
  <2> DEFINE e == Event(t, "deleted", "gone")
  <2>1. Delete({t}) /\ Publish(<<e>>) BY <1>7 DEF DeleteOne
  <2>2. e \in Events /\ e.task = t /\ e.type = "deleted" BY DEF Event, Events, Statuses
  <2> HIDE DEF e
  <2>3. /\ record'[t].status = "gone" /\ \A u \in Tasks : u # t => record'[u] = Cleaned[u]
        /\ Unlocked /\ resolving' = resolving
    BY <1>1, <2>1 DEF Delete, Serving, OnlyRecords, Records
  <2>4. \A u \in Tasks : record'[u].status \in Terminal =>
           record[u].status = record'[u].status /\ e.task # u
    BY <1>1, <2>2, <2>3, CleaningFinishesNone DEF Terminal
  <2>5. Right(e, record') BY <2>2 DEF Right, IsTerminal, Terminal
  <2> QED BY <1>1, <2>1, <2>2, <2>3, <2>4, <2>5, PublishingOne
<1>8. ASSUME NEW S, BulkDelete(S) PROVE StreamInv'
  <2> DEFINE D == {t \in Tasks : Cleaned[t].status \in S}
  <2>1. D \in SUBSET Tasks /\ Delete(D) BY <1>8 DEF BulkDelete
  <2>2. PICK s \in Orders(D) : Publish([i \in DOMAIN s |-> Event(s[i], "deleted", "gone")])
    BY <1>8 DEF BulkDelete
  <2> HIDE DEF D
  <2> QED BY <1>1, <2>1, <2>2, DeletingTells
<1>9. ASSUME NEW t \in Tasks, ResolveBegins(t) PROVE StreamInv'
  <2>1. resolving' = t /\ record[t].status = "succeeded" /\ UNCHANGED record /\ Silent
    BY <1>9 DEF ResolveBegins
  <2>2. ResolvesSuccess' BY <2>1 DEF ResolvesSuccess
  <2> QED BY <1>1, <2>1, <2>2, SayingNothing DEF Silent
<1>10. ASSUME NEW t \in Tasks, Age(t) PROVE StreamInv'
  <2>1. /\ record' = [record EXCEPT ![t].old = TRUE] /\ resolving' = resolving /\ Silent
    BY <1>10 DEF Age
  <2>2. \A u \in Tasks : record'[u].status = record[u].status
    BY <1>1, <2>1 DEF Typed, Records
  <2> QED BY <1>1, <2>1, <2>2, SayingNothing DEF Silent
<1>11. ASSUME NEW t \in Tasks, NEW u \in Tasks, Retry(t, u) PROVE StreamInv'
  <2> DEFINE evs == <<Event(t, "deleted", "gone"), Event(u, "created", "queued")>>
  <2>1. /\ record' = [Cleaned EXCEPT ![t].status = "gone", ![u] = NewRecord(t)] /\ Unlocked
        /\ resolving' = resolving /\ Publish(evs) /\ record[u].status = "none"
        /\ Cleaned[t].status \in Terminal
    BY <1>11 DEF Retry, Serving, OnlyRecords, Terminal
  <2>2. /\ Event(t, "deleted", "gone") \in Events /\ Event(u, "created", "queued") \in Events
        /\ ~IsTerminal(Event(t, "deleted", "gone")) /\ ~IsTerminal(Event(u, "created", "queued"))
        /\ Event(t, "deleted", "gone").task = t /\ Event(u, "created", "queued").task = u
    BY DEF Event, Events, Statuses, IsTerminal, Terminal
  <2>3. /\ evs \in Seq(Events) /\ DOMAIN evs = 1 .. 2
        /\ evs[1] = Event(t, "deleted", "gone") /\ evs[2] = Event(u, "created", "queued")
    BY <2>2
  <2> HIDE DEF evs
  <2>4. \A i \in DOMAIN evs : ~IsTerminal(evs[i]) /\ evs[i].task \in {t, u}
    BY <2>2, <2>3
  <2>5. t # u BY <1>1, <2>1, CleaningFinishesNone DEF Terminal
  <2>6. /\ record'[t].status = "gone" /\ record'[u].status = "queued"
        /\ \A v \in Tasks \ {t, u} : record'[v] = Cleaned[v]
    BY <1>1, <2>1, <2>5 DEF Records, NewRecord, NoRecord
  <2>7. \A v \in Tasks : record'[v].status \in Terminal =>
           record[v].status = record'[v].status /\ \A i \in DOMAIN evs : evs[i].task # v
    BY <1>1, <2>4, <2>6, CleaningFinishesNone DEF Terminal
  <2>8. \A i \in DOMAIN evs : Right(evs[i], record') BY <2>4 DEF Right
  <2> QED BY <1>1, <2>1, <2>3, <2>7, <2>8, Publishing
<1>12. ASSUME NEW n \in 1 .. Capacity, SetConcurrency(n) PROVE StreamInv'
  BY <1>12, QuietTells DEF SetConcurrency
<1>13. ASSUME NEW c \in Connections, Subscribe(c) \/ Unsubscribe(c) PROVE StreamInv'
  BY <1>13, SubscribingTells, UnsubscribingTells
<1> QED BY <1>3, <1>4, <1>5, <1>6, <1>7, <1>8, <1>9, <1>10, <1>11, <1>12, <1>13 DEF Requests

LEMMA RunTells ==
  ASSUME IInv, StreamInv, NEW h \in Threads, Runs(h) PROVE StreamInv'
<1> DEFINE t == thread[h].task
<1>1. /\ Typed /\ Shape /\ Follows /\ record \in [Tasks -> Records]
      /\ thread[h].pc # "idle" => t \in Tasks
  BY RunFollows DEF IInv, Typed, Shape, ThreadsApart
<1>2. resolving' = resolving
  BY DEF Runs, TakesFuture, AcquiresSlot, WaitsForSlot, Starts, Stage, Finish, ReturnsResult,
         Raises, ReleasesSlot, OnlyThread, tasks
<1>3. CASE UNCHANGED record /\ Silent BY <1>2, <1>3, QuietTells
<1>4. CASE Starts(h)
  <2> DEFINE evs == <<Event(t, "started", "running"), Event(t, "log", "none")>>
  <2>1. CASE record[t].status \in {"gone", "cancelled"} BY <1>3, <1>4, <2>1 DEF Starts
  <2>2. CASE record[t].status \notin {"gone", "cancelled"}
    <3>1. /\ t \in Tasks /\ Unlocked /\ Publish(evs)
          /\ record' = [record EXCEPT ![t].status = "running"]
      BY <1>1, <1>4, <2>2 DEF Starts
    <3> HIDE DEF t
    <3>2. /\ Event(t, "started", "running") \in Events /\ Event(t, "log", "none") \in Events
          /\ ~IsTerminal(Event(t, "started", "running")) /\ ~IsTerminal(Event(t, "log", "none"))
          /\ Event(t, "started", "running").task = t /\ Event(t, "log", "none").task = t
      BY <3>1 DEF Event, Events, Statuses, IsTerminal, Terminal
    <3>3. /\ evs \in Seq(Events) /\ DOMAIN evs = 1 .. 2
          /\ evs[1] = Event(t, "started", "running") /\ evs[2] = Event(t, "log", "none")
      BY <3>2
    <3> HIDE DEF evs
    <3>4. \A i \in DOMAIN evs : ~IsTerminal(evs[i]) /\ evs[i].task = t BY <3>2, <3>3
    <3>5. /\ record'[t].status = "running"
          /\ \A u \in Tasks : u # t => record'[u] = record[u]
      BY <1>1, <3>1 DEF Records
    <3>6. \A u \in Tasks : record'[u].status \in Terminal =>
             record[u].status = record'[u].status /\ \A i \in DOMAIN evs : evs[i].task # u
      BY <3>4, <3>5 DEF Terminal
    <3>7. \A i \in DOMAIN evs : Right(evs[i], record') BY <3>4 DEF Right
    <3> QED BY <1>1, <1>2, <3>1, <3>3, <3>6, <3>7, Publishing
  <2> QED BY <2>1, <2>2
<1>5. CASE Stage(h)
  <2>1. /\ t \in Tasks /\ Unlocked /\ UNCHANGED record /\ record[t].status \notin Terminal
        /\ record[t].status \in Statuses
    BY <1>1, <1>5 DEF Stage, tasks, Records
  <2>2. PICK e \in {Event(t, "stage", record[t].status), Event(t, "checkout_detected", "none")} :
          Publish(<<e>>)
    BY <1>5 DEF Stage
  <2> HIDE DEF t
  <2>3. e \in Events /\ e.task = t /\ ~IsTerminal(e)
    BY <2>1, <2>2 DEF Event, Events, Statuses, IsTerminal, Terminal
  <2>4. Right(e, record') BY <2>3 DEF Right
  <2> QED BY <1>1, <1>2, <2>1, <2>2, <2>3, <2>4, PublishingOne
<1>6. ASSUME NEW s \in Terminal, record'[t].status = s, t \in Tasks,
             \A u \in Tasks : u # t => record'[u] = record[u],
             Publish(<<Event(t, s, s)>>), Unlocked
      PROVE  StreamInv'
  <2> HIDE DEF t
  <2> DEFINE e == Event(t, s, s)
  <2>1. e \in Events /\ e.task = t /\ e.type = s /\ e.status = s
    BY <1>6, EventIs DEF Statuses
  <2>2. Publish(<<e>>) BY <1>6
  <2> HIDE DEF e
  <2>3. Right(e, record') BY <1>6, <2>1 DEF Right
  <2> QED BY <1>1, <1>2, <1>6, <2>1, <2>2, <2>3, PublishingOne
<1>7. CASE Finish(h)
  <2>1. thread[h].pc = "extract" /\ Unlocked /\ t \in Tasks
    BY <1>1, <1>7 DEF Finish, ReturnsResult, Raises
  <2>2. ASSUME NEW s \in Terminal, Finishes(h, s) PROVE StreamInv'
    <3>1. record' = [record EXCEPT ![t].status = s] /\ Publish(<<Event(t, s, s)>>)
      BY <2>2 DEF Finishes
    <3> HIDE DEF t
    <3>2. record'[t].status = s /\ \A u \in Tasks : u # t => record'[u] = record[u]
      BY <1>1, <2>1, <3>1 DEF Records
    <3> QED BY <1>6, <2>1, <3>1, <3>2
  <2>3. ASSUME NEW n \in BOOLEAN, Publish(<<Event(t, "succeeded", "succeeded")>>),
               record' = [record EXCEPT ![t].status = "succeeded", ![t].nonzero = n]
        PROVE  StreamInv'
    <3> HIDE DEF t
    <3>1. record'[t].status = "succeeded" /\ \A u \in Tasks : u # t => record'[u] = record[u]
      BY <1>1, <2>1, <2>3 DEF Records
    <3>2. "succeeded" \in Terminal BY DEF Terminal
    <3> QED BY <1>6, <2>1, <2>3, <3>1, <3>2
  <2>4. CASE record[t].status = "gone" BY <1>3, <1>7, <2>4 DEF Finish, ReturnsResult, Raises
  <2>5. CASE record[t].status # "gone"
    BY <1>7, <2>2, <2>3, <2>5 DEF Finish, ReturnsResult, Raises, Terminal
  <2> QED BY <2>4, <2>5
<1> QED BY <1>3, <1>4, <1>5, <1>7 DEF Runs, TakesFuture, AcquiresSlot, WaitsForSlot, ReleasesSlot

LEMMA CloseTells ==
  ASSUME IInv, StreamInv, Close PROVE StreamInv'
<1>1. CASE CloseBegins BY <1>1, CleaningTells DEF CloseBegins
<1>2. CASE CloseEnds BY <1>2, QuietTells DEF CloseEnds
<1>3. ASSUME NEW t \in Tasks, CloseCancels(t) PROVE StreamInv'
  <2>1. CASE Cleaned[t].status \in Terminal \cup {"gone"}
    BY <1>3, <2>1, CleaningTells DEF CloseCancels
  <2>2. CASE Cleaned[t].status \notin Terminal \cup {"gone"}
    <3>1. Cleaned[t].status \in Busy \cup {"queued"}
      BY <1>3, <2>2, Cleaning
      DEF IInv, CloseCancels, Fits, ToBeCancelled, Records, Statuses, Busy
    <3>2. CancelEffect(t, Cleaned) /\ Unlocked /\ resolving' = resolving
      BY <1>3, <2>2 DEF CloseCancels
    <3>3. record' \in [Tasks -> Records] BY <1>3, Closing DEF Close, Typed, IInv
    <3> QED BY <3>1, <3>2, <3>3, CancellingTells
  <2> QED BY <2>1, <2>2
<1> QED BY <1>1, <1>2, <1>3 DEF Close

LEMMA StreamInductive == IInv /\ StreamInv /\ [Next]_vars => StreamInv'
<1> SUFFICES ASSUME IInv, StreamInv, [Next]_vars PROVE StreamInv' OBVIOUS
<1>1. CASE UNCHANGED vars BY <1>1, QuietTells DEF vars, tasks, Silent
<1>2. ASSUME NEW c \in Connections, Deliver(c) \/ Displace(c) \/ Receive(c) PROVE StreamInv'
  BY <1>2, DeliveringTells, DisplacingTells, ReceivingTells
<1> QED BY <1>1, <1>2, RequestTells, RunTells, CloseTells DEF Next

(* A connection whose queue has never been full will have been told, of    *)
(* every task that has finished, how it finished, or nothing at all, once  *)
(* its queue is read.                                                      *)
THEOREM FinishedTasksAreTold == Spec => []FinishedIsTold
<1>1. StreamInv => FinishedIsTold BY DEF StreamInv
<1> QED BY <1>1, StreamInitially, StreamInductive, Invariant, PTL DEF Spec
=============================================================================
