---------------------------- MODULE MailboxesProofs ----------------------------
(***************************************************************************)
(* Proofs about Mailboxes, for any accounts, addresses, runs, plan checks, *)
(* proxies and workers, any number of requests and any target.  About its  *)
(* part AliasMaker: what a mailbox is given, what is stored of it, and what *)
(* a bulk job tells of its work.  About its part ResourceDesk: two runs     *)
(* never register one address, two plan checks are kept apart, and a token  *)
(* is dropped only when it, or the one a check still had, was found bad.     *)
(***************************************************************************)
EXTENDS Mailboxes, FiniteSetTheorems, TLAPS

----------------------------------------------------------------------------
(* AliasMaker                                                              *)

Tables == [id : Nat, present : BOOLEAN]
Numbers == 1 .. Limit
Slots == 0 .. Limit
Flights == [pc : {"idle", "begins", "waits", "imports"} \cup Browsing,
            m : Masters \cup {None}, n : Slots, id : Nat, attempt : Nat,
            known : SUBSET Numbers, made : Nat, todo : SUBSET Slots]
Jobs == [status : {"none", "running", "done"}, left : SUBSET (Addresses \X Nat),
         total : Nat, succeeded : Nat, failed : Nat, created : Nat, made : Nat,
         redone : BOOLEAN]

MakerTyped ==
  /\ row \in [Addresses -> Tables]
  /\ owner \in [Addresses -> Addresses \cup {None}]
  /\ remote \in [Masters -> 0 .. Limit]
  /\ flow \in [Flows -> Flights]
  /\ job \in Jobs
  /\ met \in SUBSET Masters /\ removed \in SUBSET Addresses

Inside == Browsing \cup {"imports"}
Knowing == {"creates", "persists", "imports"}

(* A flow is at a mailbox; it has made nothing before it is logged in.     *)
FlowsPlaced ==
  \A f \in Flows :
    /\ IF At(f, "idle") THEN flow[f] = Rest ELSE flow[f].m \in Masters
    /\ flow[f].pc \in {"begins", "waits", "login"} => flow[f].made = 0

(* Two flows that are past the wait at one mailbox have met.               *)
Apart ==
  \A f, g \in Flows :
    f # g /\ flow[f].pc \in Inside /\ flow[g].pc \in Inside /\ flow[f].m = flow[g].m =>
      flow[f].m \in met

(* A flow that met no other knows every alias of its mailbox.              *)
Knows ==
  \A f \in Flows :
    flow[f].pc \in Knowing =>
      flow[f].m \in met \/ flow[f].known = 1 .. remote[flow[f].m]

(* The account of a flow is there, or the page took it, and with it every    *)
(* address that the flow would store.                                      *)
Kept ==
  \A f \in Flows :
    ~At(f, "idle") /\ ~At(f, "begins") =>
      \/ Is(row[Account(f)], flow[f].id)
      \/ \A k \in Slots : <<flow[f].m, k>> \in removed

(* What a flow has imported is in the tables.                              *)
Recorded ==
  \A f \in Flows :
    At(f, "imports") =>
      \A k \in ({0} \cup flow[f].known) \ (flow[f].todo \cup {flow[f].n}) :
        Has(<<flow[f].m, k>>) \/ <<flow[f].m, k>> \in removed

(* Every account of the job is told of, in the queue, or with a worker.    *)
Busy == {f \in Workers : ~At(f, "idle")}
AllTold ==
  /\ IsFiniteSet(job.left)
  /\ job.succeeded + job.failed + Cardinality(job.left) + Cardinality(Busy) = job.total
  /\ ~JobRuns => job.left = {} /\ Busy = {}

(* The aliases made in the attempts that are under way.                    *)
Made(f) == {f} \X (1 .. flow[f].made)
Pending == UNION {Made(f) : f \in Workers}
AllMade ==
  job.redone \/ job.failed > 0 \/ job.made = job.created + Cardinality(Pending)

Flown == FlowsPlaced /\ Apart /\ Knows /\ WithinTarget /\ Kept /\ Recorded
MakerInv == MakerTyped /\ Flown /\ AllTold /\ AllMade

-----------------------------------------------------------------------------
(* Counting.                                                               *)

LEMMA MadeByOne ==
  ASSUME NEW f, NEW n \in Nat
  PROVE  IsFiniteSet({f} \X (1 .. n)) /\ Cardinality({f} \X (1 .. n)) = n
<1> DEFINE A == {f}
           B == 1 .. n
<1>1. IsFiniteSet(A) /\ Cardinality(A) = 1 BY FS_Singleton
<1>2. IsFiniteSet(B) /\ Cardinality(B) = n BY FS_Interval
<1>3. IsFiniteSet(A \X B) /\ Cardinality(A \X B) = 1 * n
  <2> HIDE DEF A, B
  <2>1. Cardinality(A \X B) = Cardinality(A) * Cardinality(B) BY <1>1, <1>2, FS_Product
  <2> QED BY <1>1, <1>2, <2>1, FS_Product
<1>4. 1 * n = n OBVIOUS
<1> QED BY <1>3, <1>4

LEMMA PendingFinite ==
  ASSUME NEW F \in [Flows -> Flights]
  PROVE  IsFiniteSet(UNION {{f} \X (1 .. F[f].made) : f \in Workers})
<1> DEFINE S == {{f} \X (1 .. F[f].made) : f \in Workers}
           h == [f \in Workers |-> {f} \X (1 .. F[f].made)]
<1>1. \A f \in Workers : F[f].made \in Nat BY DEF Flows, Flights
<1>2. \A T \in S : IsFiniteSet(T)
  <2> TAKE T \in S
  <2>1. PICK f \in Workers : T = {f} \X (1 .. F[f].made) OBVIOUS
  <2> QED BY <1>1, <2>1, MadeByOne
<1>3. h \in Surjection(Workers, S) BY DEF Surjection
<1>4. IsFiniteSet(S)
  <2> HIDE DEF S, h
  <2> QED BY <1>3, FS_Surjection, MakerAssumption
<1>5. IsFiniteSet(UNION S)
  <2> HIDE DEF S
  <2> QED BY <1>2, <1>4, FS_UNION
<1> QED BY <1>5

LEMMA BusyFinite == IsFiniteSet(Busy)
<1>1. Busy \in SUBSET Workers BY DEF Busy
<1> QED BY <1>1, FS_Subset, MakerAssumption

LEMMA AddressesFinite == IsFiniteSet(Addresses)
<1> DEFINE N == 0 .. Limit
<1>1. IsFiniteSet(N) BY DomainAssumption, FS_Interval
<1>2. IsFiniteSet(Masters \X N)
  <2> HIDE DEF N
  <2> QED BY <1>1, DomainAssumption, FS_Product
<1> QED BY <1>2 DEF Addresses

(* There are as many accounts in the queue as addresses it is made of.     *)
LEMMA QueueOf ==
  ASSUME NEW S \in SUBSET Addresses, MakerTyped
  PROVE  LET Q == {<<m, row[m].id>> : m \in S} IN
         IsFiniteSet(Q) /\ IsFiniteSet(S) /\ Cardinality(Q) = Cardinality(S)
           /\ Q \in SUBSET (Addresses \X Nat)
<1> DEFINE Q == {<<m, row[m].id>> : m \in S}
           h == [m \in S |-> <<m, row[m].id>>]
<1>1. IsFiniteSet(S) BY AddressesFinite, FS_Subset
<1>2. h \in Surjection(S, Q) BY DEF Surjection
<1>3. h \in Injection(S, Q) BY DEF Injection, IsInjective
<1>4. Q \in SUBSET (Addresses \X Nat) BY DEF MakerTyped, Tables
<1> HIDE DEF Q, h
<1>5. IsFiniteSet(Q) /\ Cardinality(Q) = Cardinality(S)
  BY <1>1, <1>2, <1>3, FS_Surjection
<1> QED BY <1>1, <1>4, <1>5 DEF Q

-----------------------------------------------------------------------------
(* What the steps of one flow, and of the page, leave in place.            *)

LEMMA Rows ==
  ASSUME NEW r \in Tables
  PROVE  Inserted(r) \in Tables /\ Deleted(r) \in Tables /\ Inserted(r).id = r.id + 1
<1>1. [r EXCEPT !.id = @ + 1] \in Tables BY DEF Tables
<1>2. \A q \in Tables : [q EXCEPT !.present = TRUE] \in Tables /\
                          [q EXCEPT !.present = TRUE].id = q.id BY DEF Tables
<1>3. [r EXCEPT !.present = FALSE] \in Tables BY DEF Tables
<1>4. [r EXCEPT !.id = @ + 1].id = r.id + 1 BY DEF Tables
<1> QED BY <1>1, <1>2, <1>3, <1>4 DEF Inserted, Deleted

LEMMA Initially == Init => MakerInv
<1> SUFFICES ASSUME Init PROVE MakerInv OBVIOUS
<1> USE DEF Init, AliasInit
<1>1. /\ row \in [Addresses -> Tables] /\ owner \in [Addresses -> Addresses \cup {None}]
      /\ remote \in [Masters -> 0 .. Limit] /\ job \in Jobs
  <2>1. Absent \in Tables BY DEF Tables, Absent
  <2>4. \A r \in Tables : Inserted(r) \in Tables BY Rows
  <2>2. 0 .. (Target - 1) \subseteq 0 .. Limit BY DomainAssumption, MakerAssumption, SMT
  <2>3. NoJob \in Jobs BY DEF NoJob, Jobs
  <2> QED BY <2>1, <2>2, <2>3, <2>4
<1>2. Rest \in Flights BY DomainAssumption DEF Rest, Flights, Slots, Browsing
<1>3. MakerTyped BY <1>1, <1>2 DEF MakerTyped
<1>4. Flown
  BY <1>3, MakerAssumption, DomainAssumption DEF MakerTyped, Flown, FlowsPlaced, Apart, Knows,
     WithinTarget, Kept, Recorded, Rest, At, Inside, Knowing, Browsing
<1>5. Busy = {} /\ Pending = {}
  BY DEF Busy, At, Rest, Pending, Made, Flows
<1>6. AllTold /\ AllMade
  BY <1>5, FS_EmptySet DEF AllTold, AllMade, NoJob, JobRuns
<1> QED BY <1>3, <1>4, <1>6 DEF MakerInv

LEMMA SlotIsAddress ==
  ASSUME MakerTyped, Flown, NEW f \in Flows, ~At(f, "idle")
  PROVE  /\ Account(f) \in Addresses /\ Account(f)[1] = flow[f].m
         /\ {0} \cup flow[f].known \subseteq Slots
         /\ \A k \in Slots : <<flow[f].m, k>> \in Addresses
<1>1. flow[f].m \in Masters BY DEF Flown, FlowsPlaced
<1>2. flow[f].n \in Slots /\ flow[f].known \subseteq Numbers BY DEF MakerTyped, Flights
<1>3. {0} \cup flow[f].known \subseteq Slots
  BY <1>2, DomainAssumption DEF Numbers, Slots
<1> QED BY <1>1, <1>2, <1>3 DEF Account, Addresses, Slots

(* A flow goes on to q; nothing another flow rests on is taken from it.    *)
LEMMA FlowMoves ==
  ASSUME MakerTyped, Flown, NEW f \in Flows, NEW q \in Flights,
         flow' = [flow EXCEPT ![f] = q], UNCHANGED <<row, removed>>, met \subseteq met',
         \A a \in Addresses : owner[a] # None => owner'[a] # None,
         \A g \in Flows \ {f} : flow[g].pc \in Knowing =>
             flow[g].m \in met \/ remote'[flow[g].m] = remote[flow[g].m],
         WithinTarget',
         IF q.pc = "idle" THEN q = Rest ELSE q.m \in Masters,
         q.pc \in {"begins", "waits", "login"} => q.made = 0,
         q.pc \in Inside => \A g \in Flows \ {f} :
             flow[g].pc \in Inside /\ flow[g].m = q.m => q.m \in met',
         q.pc \in Knowing => q.m \in met' \/ q.known = 1 .. remote'[q.m],
         q.pc \notin {"idle", "begins"} =>
             Is(row[<<q.m, q.n>>], q.id) \/ \A k \in Slots : <<q.m, k>> \in removed,
         q.pc = "imports" => \A k \in ({0} \cup q.known) \ (q.todo \cup {q.n}) :
             \/ owner'[<<q.m, k>>] # None \/ row[<<q.m, k>>].present
             \/ <<q.m, k>> \in removed
  PROVE  Flown'
<1>1. /\ flow'[f] = q
      /\ \A g \in Flows : g # f => flow'[g] = flow[g]
  BY DEF MakerTyped
<1>2. FlowsPlaced' BY <1>1 DEF Flown, FlowsPlaced, At
<1>3. Apart' BY <1>1 DEF Flown, Apart
<1>4. Knows' BY <1>1 DEF Flown, Knows
<1>5. Kept' BY <1>1 DEF Flown, Kept, Account, At
<1>6. Recorded'
  <2>1. ASSUME NEW g \in Flows, g # f, At(g, "imports"),
               NEW k \in ({0} \cup flow[g].known) \ (flow[g].todo \cup {flow[g].n})
        PROVE  \/ owner'[<<flow[g].m, k>>] # None \/ row[<<flow[g].m, k>>].present
               \/ <<flow[g].m, k>> \in removed
    <3>1. <<flow[g].m, k>> \in Addresses
      BY <2>1, SlotIsAddress DEF At
    <3>2. Has(<<flow[g].m, k>>) \/ <<flow[g].m, k>> \in removed
      BY <2>1 DEF Flown, Recorded
    <3> QED BY <3>1, <3>2 DEF Has
  <2> SUFFICES ASSUME NEW g \in Flows, flow'[g].pc = "imports",
                      NEW k \in ({0} \cup flow'[g].known) \
                                (flow'[g].todo \cup {flow'[g].n})
               PROVE  \/ owner'[<<flow'[g].m, k>>] # None
                      \/ row[<<flow'[g].m, k>>].present
                      \/ <<flow'[g].m, k>> \in removed
    BY DEF Recorded, At, Has
  <2>2. CASE g = f BY <1>1, <2>2
  <2>3. CASE g # f BY <1>1, <2>1, <2>3 DEF At, Has
  <2> QED BY <2>2, <2>3
<1> QED BY <1>2, <1>3, <1>4, <1>5, <1>6 DEF Flown

(* The tables change under the flows; what is taken from one is noted.     *)
LEMMA TablesMove ==
  ASSUME MakerTyped, Flown, UNCHANGED <<flow, remote, met>>, removed \subseteq removed',
         \A f \in Flows : ~At(f, "idle") =>
             /\ Is(row[Account(f)], flow[f].id) =>
                   \/ Is(row'[Account(f)], flow[f].id)
                   \/ \A k \in Slots : <<flow[f].m, k>> \in removed'
             /\ \A k \in Slots : Has(<<flow[f].m, k>>) =>
                   Has(<<flow[f].m, k>>)' \/ <<flow[f].m, k>> \in removed'
  PROVE  Flown'
<1>1. FlowsPlaced' /\ Apart' /\ Knows' /\ WithinTarget'
  BY DEF Flown, FlowsPlaced, Apart, Knows, WithinTarget, At
<1>2. Kept' BY DEF Flown, Kept, Account, At
<1>3. \A f \in Flows : {0} \cup flow[f].known \subseteq Slots
  BY DomainAssumption DEF MakerTyped, Flights, Numbers, Slots
<1>4. Recorded'
  <2> SUFFICES ASSUME NEW f \in Flows, At(f, "imports"),
                      NEW k \in ({0} \cup flow[f].known) \ (flow[f].todo \cup {flow[f].n})
               PROVE  Has(<<flow[f].m, k>>)' \/ <<flow[f].m, k>> \in removed'
    BY DEF Recorded, At
  <2>1. k \in Slots /\ ~At(f, "idle") BY <1>3 DEF At
  <2>2. Has(<<flow[f].m, k>>) \/ <<flow[f].m, k>> \in removed BY DEF Flown, Recorded
  <2> QED BY <2>1, <2>2
<1> QED BY <1>1, <1>2, <1>4 DEF Flown

LEMMA ToldStays ==
  ASSUME AllTold, \A f \in Workers : At(f, "idle")' <=> At(f, "idle"),
         job'.left = job.left, job'.status = job.status, job'.total = job.total,
         job'.succeeded = job.succeeded, job'.failed = job.failed
  PROVE  AllTold'
<1>1. Busy' = Busy BY DEF Busy
<1> QED BY <1>1 DEF AllTold, JobRuns

(* One more account is told of, and its worker idle.                       *)
LEMMA ToldOfOne ==
  ASSUME MakerTyped, AllTold, NEW f \in Workers, ~At(f, "idle"), At(f, "idle")',
         \A g \in Workers \ {f} : At(g, "idle")' <=> At(g, "idle"),
         job'.left = job.left, job'.status = job.status, job'.total = job.total,
         job'.succeeded + job'.failed = job.succeeded + job.failed + 1
  PROVE  AllTold'
<1>1. f \in Busy /\ Busy' = Busy \ {f} BY DEF Busy
<1>2. IsFiniteSet(Busy) /\ Cardinality(Busy') = Cardinality(Busy) - 1
  BY <1>1, BusyFinite, FS_RemoveElement
<1>3. Cardinality(Busy) \in Nat /\ Cardinality(job.left) \in Nat
  BY <1>2, FS_CardinalityType DEF AllTold
<1>4. JobRuns BY <1>1 DEF AllTold
<1> QED BY <1>2, <1>3, <1>4 DEF AllTold, JobRuns, MakerTyped, Jobs

LEMMA MadeStays ==
  ASSUME AllMade, \A f \in Workers : flow'[f].made = flow[f].made,
         job'.redone = job.redone, job'.failed = job.failed,
         job'.made = job.made, job'.created = job.created
  PROVE  AllMade'
<1>1. Pending' = Pending BY DEF Pending, Made
<1> QED BY <1>1 DEF AllMade

-----------------------------------------------------------------------------
(* The job's record.                                                       *)
LEMMA JobsMove ==
  ASSUME NEW j \in Jobs, NEW n \in Nat
  PROVE  /\ LET q == [j EXCEPT !.failed = @ + 1] IN
            /\ q \in Jobs /\ q.failed = j.failed + 1 /\ q.succeeded = j.succeeded
            /\ q.created = j.created /\ q.left = j.left /\ q.status = j.status
            /\ q.total = j.total /\ q.redone = j.redone /\ q.made = j.made
         /\ LET q == [j EXCEPT !.succeeded = @ + 1, !.created = @ + n] IN
            /\ q \in Jobs /\ q.succeeded = j.succeeded + 1 /\ q.failed = j.failed
            /\ q.created = j.created + n /\ q.left = j.left /\ q.status = j.status
            /\ q.total = j.total /\ q.redone = j.redone /\ q.made = j.made
         /\ LET q == [j EXCEPT !.made = @ + 1] IN
            /\ q \in Jobs /\ q.succeeded = j.succeeded /\ q.failed = j.failed
            /\ q.created = j.created /\ q.left = j.left /\ q.status = j.status
            /\ q.total = j.total /\ q.redone = j.redone /\ q.made = j.made + 1
         /\ LET q == [j EXCEPT !.redone = TRUE] IN
            /\ q \in Jobs /\ q.succeeded = j.succeeded /\ q.failed = j.failed
            /\ q.created = j.created /\ q.left = j.left /\ q.status = j.status
            /\ q.total = j.total /\ q.redone /\ q.made = j.made
<1>1. j.failed \in Nat /\ j.succeeded \in Nat /\ j.made \in Nat /\ j.created \in Nat
  BY DEF Jobs
<1> DEFINE a == [j EXCEPT !.failed = @ + 1]
           b == [j EXCEPT !.succeeded = @ + 1, !.created = @ + n]
           c == [j EXCEPT !.made = @ + 1]
           d == [j EXCEPT !.redone = TRUE]
<1>2. a \in Jobs /\ b \in Jobs /\ c \in Jobs /\ d \in Jobs
  <2>1. \A k \in Jobs, i \in Nat : [k EXCEPT !.failed = i] \in Jobs BY DEF Jobs
  <2>2. \A k \in Jobs, i \in Nat : [k EXCEPT !.succeeded = i] \in Jobs
          /\ [k EXCEPT !.succeeded = i].created = k.created BY DEF Jobs
  <2>3. \A k \in Jobs, i \in Nat : [k EXCEPT !.made = i] \in Jobs BY DEF Jobs
  <2>4. \A k \in Jobs, i \in Nat : [k EXCEPT !.created = i] \in Jobs BY DEF Jobs
  <2>5. \A k \in Jobs : [k EXCEPT !.redone = TRUE] \in Jobs BY DEF Jobs
  <2>6. b \in Jobs
    <3>1. [j EXCEPT !.succeeded = @ + 1] \in Jobs BY <1>1, <2>2
    <3>2. j.created + n \in Nat BY <1>1
    <3>3. [j EXCEPT !.succeeded = @ + 1].created = j.created BY <1>1, <2>2
    <3> QED BY <3>1, <3>2, <3>3, <2>4
  <2> QED BY <1>1, <2>1, <2>3, <2>5, <2>6
<1>3. /\ a.failed = j.failed + 1 /\ a.succeeded = j.succeeded
      /\ a.created = j.created /\ a.left = j.left /\ a.status = j.status
      /\ a.total = j.total /\ a.redone = j.redone /\ a.made = j.made
  BY DEF Jobs
<1>4. /\ b.succeeded = j.succeeded + 1 /\ b.failed = j.failed
      /\ b.created = j.created + n /\ b.left = j.left /\ b.status = j.status
      /\ b.total = j.total /\ b.redone = j.redone /\ b.made = j.made
  BY DEF Jobs
<1>5. /\ c.succeeded = j.succeeded /\ c.failed = j.failed
      /\ c.created = j.created /\ c.left = j.left /\ c.status = j.status
      /\ c.total = j.total /\ c.redone = j.redone /\ c.made = j.made + 1
  BY DEF Jobs
<1>6. /\ d.succeeded = j.succeeded /\ d.failed = j.failed
      /\ d.created = j.created /\ d.left = j.left /\ d.status = j.status
      /\ d.total = j.total /\ d.redone /\ d.made = j.made
  BY DEF Jobs
<1> HIDE DEF a, b, c, d
<1> QED BY <1>2, <1>3, <1>4, <1>5, <1>6 DEF a, b, c, d

-----------------------------------------------------------------------------
(* A flow's steps.                                                         *)

Places == {"idle", "begins", "waits", "login", "creates", "persists", "imports"}

LEMMA FlightFields ==
  ASSUME NEW q \in Flights
  PROVE  /\ \A p \in Places : [q EXCEPT !.pc = p] \in Flights
         /\ \A n \in Nat : [q EXCEPT !.attempt = n] \in Flights
         /\ \A n \in Nat : [q EXCEPT !.made = n] \in Flights
         /\ \A n \in Nat : [q EXCEPT !.id = n] \in Flights
         /\ \A m \in Masters : [q EXCEPT !.m = m] \in Flights
         /\ \A n \in Slots : [q EXCEPT !.n = n] \in Flights
         /\ \A K \in SUBSET Numbers : [q EXCEPT !.known = K] \in Flights
         /\ \A K \in SUBSET Slots : [q EXCEPT !.todo = K] \in Flights
<1> USE DEF Flights, Places, Browsing
<1>1. \A p \in Places : [q EXCEPT !.pc = p] \in Flights OBVIOUS
<1>2. \A n \in Nat : [q EXCEPT !.attempt = n] \in Flights OBVIOUS
<1>3. \A n \in Nat : [q EXCEPT !.made = n] \in Flights OBVIOUS
<1>4. \A n \in Nat : [q EXCEPT !.id = n] \in Flights OBVIOUS
<1>5. \A m \in Masters : [q EXCEPT !.m = m] \in Flights OBVIOUS
<1>6. \A K \in SUBSET Numbers : [q EXCEPT !.known = K] \in Flights OBVIOUS
<1>7. \A K \in SUBSET Slots : [q EXCEPT !.todo = K] \in Flights OBVIOUS
<1>8. \A n \in Slots : [q EXCEPT !.n = n] \in Flights OBVIOUS
<1> QED BY <1>1, <1>2, <1>3, <1>4, <1>5, <1>6, <1>7, <1>8

LEMMA RestIsFlight == Rest \in Flights /\ Rest.pc = "idle" /\ Rest.made = 0
BY DomainAssumption DEF Rest, Flights, Slots, Browsing

(* A flow that gives up, whatever it has made.                             *)
LEMMA GivesUp ==
  ASSUME MakerInv, NEW f \in Flows, ~At(f, "idle"), Fails(f),
         UNCHANGED <<row, owner, met, removed>>,
         remote' \in [Masters -> 0 .. Limit], WithinTarget',
         \A g \in Flows \ {f} : flow[g].pc \in Knowing =>
             flow[g].m \in met \/ remote'[flow[g].m] = remote[flow[g].m]
  PROVE  MakerInv'
<1>1. MakerTyped /\ Flown /\ AllTold /\ AllMade BY DEF MakerInv
<1>2. flow' = [flow EXCEPT ![f] = Rest] BY DEF Fails
<1>3. Rest \in Flights /\ Rest.pc = "idle" /\ Rest.made = 0 BY RestIsFlight
<1>4. flow' \in [Flows -> Flights] /\ flow'[f] = Rest
        /\ \A g \in Flows \ {f} : flow'[g] = flow[g]
  BY <1>1, <1>2, <1>3 DEF MakerTyped
<1>5. Flown'
  BY <1>1, <1>2, <1>3, FlowMoves DEF Inside, Knowing, Browsing
<1>6. /\ f \in Workers => /\ job' = [job EXCEPT !.failed = @ + 1]
                          /\ job' \in Jobs /\ job'.failed = job.failed + 1
                          /\ job'.left = job.left /\ job'.status = job.status
                          /\ job'.total = job.total /\ job'.succeeded = job.succeeded
      /\ f \notin Workers => job' = job
  BY <1>1, JobsMove DEF Fails, Tallied, MakerTyped
<1>7. MakerTyped' BY <1>1, <1>4, <1>6 DEF MakerTyped
<1>8. CASE f \in Workers
  <2>1. job'.succeeded + job'.failed = job.succeeded + job.failed + 1
    BY <1>1, <1>6, <1>8 DEF MakerTyped, Jobs
  <2>2. At(f, "idle")' /\ \A g \in Workers \ {f} : At(g, "idle")' <=> At(g, "idle")
    BY <1>3, <1>4 DEF At, Flows
  <2>3. AllTold' BY <1>1, <1>6, <1>8, <2>1, <2>2, ToldOfOne
  <2>4. AllMade' BY <1>1, <1>6, <1>8 DEF AllMade, MakerTyped, Jobs
  <2> QED BY <1>5, <1>7, <2>3, <2>4 DEF MakerInv
<1>9. CASE f \notin Workers
  <2>1. \A g \in Workers : flow'[g] = flow[g] BY <1>4, <1>9 DEF Flows
  <2>2. AllTold' BY <1>1, <1>6, <1>9, <2>1, ToldStays DEF At
  <2>3. AllMade' BY <1>1, <1>6, <1>9, <2>1, MadeStays
  <2> QED BY <1>5, <1>7, <2>2, <2>3 DEF MakerInv
<1> QED BY <1>8, <1>9

(* A flow that stays at its mailbox, and what it has made with it.         *)
LEMMA GoesOn ==
  ASSUME MakerInv, NEW f \in Flows, NEW q \in Flights,
         flow' = [flow EXCEPT ![f] = q], UNCHANGED <<row, remote, removed, job>>,
         owner' \in [Addresses -> Addresses \cup {None}], met' \in SUBSET Masters,
         met \subseteq met',
         \A a \in Addresses : owner[a] # None => owner'[a] # None,
         ~At(f, "idle"), q.pc # "idle", q.m = flow[f].m, q.made = flow[f].made,
         q.pc \in Inside => \A g \in Flows \ {f} :
             flow[g].pc \in Inside /\ flow[g].m = q.m => q.m \in met',
         q.pc \in Knowing => q.m \in met' \/ q.known = 1 .. remote[q.m],
         q.pc \in {"begins", "waits", "login"} => q.made = 0,
         q.pc \notin {"idle", "begins"} =>
             Is(row[<<q.m, q.n>>], q.id) \/ \A k \in Slots : <<q.m, k>> \in removed,
         q.pc = "imports" => \A k \in ({0} \cup q.known) \ (q.todo \cup {q.n}) :
             \/ owner'[<<q.m, k>>] # None \/ row[<<q.m, k>>].present
             \/ <<q.m, k>> \in removed
  PROVE  MakerInv'
<1>1. MakerTyped /\ Flown /\ AllTold /\ AllMade BY DEF MakerInv
<1>2. flow' \in [Flows -> Flights] /\ flow'[f] = q
        /\ \A g \in Flows \ {f} : flow'[g] = flow[g]
  BY <1>1 DEF MakerTyped
<1>3. MakerTyped' BY <1>1, <1>2 DEF MakerTyped
<1>4. WithinTarget' BY <1>1 DEF Flown, WithinTarget
<1>5. q.m \in Masters BY <1>1 DEF Flown, FlowsPlaced, At
<1>6. Flown' BY <1>1, <1>4, <1>5, FlowMoves
<1>7. AllTold' BY <1>1, <1>2, ToldStays DEF At, Flows
<1>8. AllMade' BY <1>1, <1>2, MadeStays DEF Flows
<1> QED BY <1>3, <1>6, <1>7, <1>8 DEF MakerInv

LEMMA BeginsHolds ==
  ASSUME MakerInv, NEW f \in Flows, Begins(f)
  PROVE  MakerInv'
<1>1. MakerTyped /\ Flown BY DEF MakerInv
<1>2. flow[f] \in Flights /\ ~At(f, "idle") BY <1>1 DEF MakerTyped, Begins, At
<1>3. CASE Is(row[Account(f)], flow[f].id)
  <2> DEFINE q == [flow[f] EXCEPT !.pc = "waits"]
  <2>1. flow' = [flow EXCEPT ![f] = q] BY <1>3 DEF Begins, Goes
  <2>2. q \in Flights BY <1>2, FlightFields DEF Places
  <2>3. q.pc = "waits" /\ q.m = flow[f].m /\ q.n = flow[f].n /\ q.id = flow[f].id
          /\ q.made = flow[f].made
    BY <1>2 DEF Flights
  <2>4. q.made = 0 BY <1>1, <2>3 DEF Flown, FlowsPlaced, Begins, At
  <2>5. UNCHANGED <<row, owner, remote, met, removed, job>>
    BY <1>3 DEF Begins
  <2>6. met \subseteq met' /\ met' \in SUBSET Masters
          /\ owner' \in [Addresses -> Addresses \cup {None}]
    BY <1>1, <2>5 DEF MakerTyped
  <2> HIDE DEF q
  <2> QED BY <1>2, <1>3, <2>1, <2>2, <2>3, <2>4, <2>5, <2>6, GoesOn
             DEF Inside, Knowing, Browsing, Account
<1>4. CASE ~Is(row[Account(f)], flow[f].id)
  <2>1. Fails(f) /\ UNCHANGED <<row, owner, remote, met, removed>> BY <1>4 DEF Begins
  <2>2. remote' \in [Masters -> 0 .. Limit] /\ WithinTarget'
    BY <1>1, <2>1 DEF MakerTyped, Flown, WithinTarget
  <2> QED BY <1>2, <2>1, <2>2, GivesUp
<1> QED BY <1>3, <1>4

LEMMA OpensBrowserHolds ==
  ASSUME MakerInv, NEW f \in Flows, OpensBrowser(f)
  PROVE  MakerInv'
<1> DEFINE q == [[flow[f] EXCEPT !.pc = "login"] EXCEPT !.attempt = 1]
<1>1. MakerTyped /\ Flown BY DEF MakerInv
<1>2. flow[f] \in Flights /\ At(f, "waits") BY <1>1 DEF MakerTyped, OpensBrowser, At
<1>3. flow' = [flow EXCEPT ![f] = q] BY DEF OpensBrowser
<1>4. q \in Flights BY <1>2, FlightFields DEF Places
<1>5. q.pc = "login" /\ q.m = flow[f].m /\ q.n = flow[f].n /\ q.id = flow[f].id
      /\ q.made = flow[f].made
  BY <1>2 DEF Flights
<1>6. UNCHANGED <<row, owner, remote, removed, job>> BY DEF OpensBrowser
<1>7. flow[f].m \in Masters BY <1>1, <1>2 DEF Flown, FlowsPlaced, At
<1>8. /\ met \subseteq met' /\ met' \in SUBSET Masters
      /\ owner' \in [Addresses -> Addresses \cup {None}]
  BY <1>1, <1>6, <1>7 DEF MakerTyped, OpensBrowser
<1>9. \A g \in Flows \ {f} : flow[g].pc \in Inside /\ flow[g].m = q.m => q.m \in met'
  BY <1>5 DEF OpensBrowser, Inside
<1>10. q.made = 0 BY <1>1, <1>2, <1>5 DEF Flown, FlowsPlaced, At
<1>11. Is(row[<<q.m, q.n>>], q.id) \/ \A k \in Slots : <<q.m, k>> \in removed
  BY <1>1, <1>2, <1>5 DEF Flown, Kept, Account, At
<1> HIDE DEF q
<1> QED BY <1>2, <1>3, <1>4, <1>5, <1>6, <1>8, <1>9, <1>10, <1>11, GoesOn
           DEF Inside, Knowing, Browsing, At

LEMMA LoginHolds ==
  ASSUME MakerInv, NEW f \in Flows, Login(f)
  PROVE  MakerInv'
<1> DEFINE q == [[[flow[f] EXCEPT !.pc = "creates"] EXCEPT !.known = Mailbox(flow[f].m)]
                    EXCEPT !.made = 0]
<1>1. MakerTyped /\ Flown BY DEF MakerInv
<1>2. flow[f] \in Flights /\ At(f, "login") BY <1>1 DEF MakerTyped, Login, At
<1>3. flow' = [flow EXCEPT ![f] = q] BY DEF Login
<1>4. flow[f].m \in Masters /\ flow[f].made = 0 BY <1>1, <1>2 DEF Flown, FlowsPlaced, At
<1>5. remote[flow[f].m] \in 0 .. Limit BY <1>1, <1>4 DEF MakerTyped
<1>6. Mailbox(flow[f].m) \in SUBSET Numbers
  BY <1>5, DomainAssumption DEF Mailbox, Numbers
<1>7. q \in Flights BY <1>2, <1>6, FlightFields DEF Places
<1>8. /\ q.pc = "creates" /\ q.m = flow[f].m /\ q.n = flow[f].n /\ q.id = flow[f].id
      /\ q.made = flow[f].made
      /\ q.known = 1 .. remote[flow[f].m]
  BY <1>2, <1>4 DEF Flights, Mailbox
<1>9. UNCHANGED <<row, owner, remote, met, removed, job>> BY DEF Login
<1>10. /\ met \subseteq met' /\ met' \in SUBSET Masters
       /\ owner' \in [Addresses -> Addresses \cup {None}]
  BY <1>1, <1>9 DEF MakerTyped
<1>11. \A g \in Flows \ {f} : flow[g].pc \in Inside /\ flow[g].m = q.m => q.m \in met'
  BY <1>1, <1>2, <1>8, <1>9 DEF Flown, Apart, At, Inside, Browsing
<1>12. Is(row[<<q.m, q.n>>], q.id) \/ \A k \in Slots : <<q.m, k>> \in removed
  BY <1>1, <1>2, <1>8 DEF Flown, Kept, Account, At
<1> HIDE DEF q
<1> QED BY <1>2, <1>3, <1>7, <1>8, <1>9, <1>10, <1>11, <1>12, GoesOn DEF At

(* An attempt that ends, whatever the provider has made in it.             *)
LEMMA AttemptEndsHolds ==
  ASSUME MakerInv, NEW f \in Flows, InBrowser(f), AttemptEnds(f),
         UNCHANGED <<row, owner, met, removed>>,
         remote' \in [Masters -> 0 .. Limit], WithinTarget',
         \A g \in Flows \ {f} : flow[g].pc \in Knowing =>
             flow[g].m \in met \/ remote'[flow[g].m] = remote[flow[g].m]
  PROVE  MakerInv'
<1>1. MakerTyped /\ Flown /\ AllTold /\ AllMade BY DEF MakerInv
<1>2. flow[f] \in Flights /\ ~At(f, "idle") /\ ~At(f, "begins")
  BY <1>1 DEF MakerTyped, At, InBrowser, Browsing
<1>3. CASE flow[f].attempt < LoginAttempts
  <2> DEFINE q == [[[[[Rest EXCEPT !.pc = "login"] EXCEPT !.m = flow[f].m]
                        EXCEPT !.n = flow[f].n] EXCEPT !.id = flow[f].id]
                        EXCEPT !.attempt = flow[f].attempt + 1]
  <2>1. flow' = [flow EXCEPT ![f] = q] BY <1>3 DEF AttemptEnds
  <2>2. flow[f].m \in Masters BY <1>1, <1>2 DEF Flown, FlowsPlaced
  <2>3. flow[f].id \in Nat /\ flow[f].n \in Slots /\ flow[f].attempt + 1 \in Nat
    BY <1>2 DEF Flights
  <2>4. q \in Flights BY <2>2, <2>3, RestIsFlight, FlightFields DEF Places
  <2>5. q.pc = "login" /\ q.m = flow[f].m /\ q.n = flow[f].n /\ q.id = flow[f].id
      /\ q.made = 0
    BY DEF Rest
  <2> HIDE DEF q
  <2>6. /\ flow' \in [Flows -> Flights] /\ flow'[f] = q
        /\ \A g \in Flows \ {f} : flow'[g] = flow[g]
    BY <1>1, <2>1, <2>4 DEF MakerTyped
  <2>7. Is(row[<<q.m, q.n>>], q.id) \/ \A k \in Slots : <<q.m, k>> \in removed
    BY <1>1, <1>2, <2>5 DEF Flown, Kept, Account
  <2>8. \A g \in Flows \ {f} : flow[g].pc \in Inside /\ flow[g].m = q.m => q.m \in met'
    BY <1>1, <2>5 DEF Flown, Apart, Inside, InBrowser
  <2>9. Flown'
    BY <1>1, <2>1, <2>2, <2>4, <2>5, <2>7, <2>8, FlowMoves DEF Knowing
  <2>10. /\ job' \in Jobs /\ job'.left = job.left /\ job'.status = job.status
         /\ job'.total = job.total /\ job'.succeeded = job.succeeded
         /\ job'.failed = job.failed
         /\ f \in Workers => job'.redone
         /\ f \notin Workers => job' = job
    <3>1. job' = Tallied(f, [job EXCEPT !.redone = TRUE]) BY <1>3 DEF AttemptEnds
    <3>2. job \in Jobs BY <1>1 DEF MakerTyped
    <3>3. f \in Workers => job' = [job EXCEPT !.redone = TRUE] BY <3>1 DEF Tallied
    <3>4. f \notin Workers => job' = job BY <3>1 DEF Tallied
    <3>5. CASE f \in Workers
      <4> DEFINE d == [job EXCEPT !.redone = TRUE]
      <4>1. /\ d \in Jobs /\ d.succeeded = job.succeeded /\ d.failed = job.failed
            /\ d.left = job.left /\ d.status = job.status
            /\ d.total = job.total /\ d.redone
        BY <3>2, JobsMove, 0 \in Nat
      <4>2. job' = d BY <3>3, <3>5
      <4> HIDE DEF d
      <4> QED BY <3>5, <4>1, <4>2
    <3> QED BY <3>2, <3>4, <3>5
  <2>11. MakerTyped' BY <1>1, <2>6, <2>10 DEF MakerTyped
  <2>12. AllTold' BY <1>1, <1>2, <2>5, <2>6, <2>10, ToldStays DEF At, Flows
  <2>13. AllMade'
    <3>1. CASE f \in Workers BY <2>10, <3>1 DEF AllMade
    <3>2. CASE f \notin Workers
      <4>1. \A g \in Workers : flow'[g] = flow[g] BY <2>6, <3>2 DEF Flows
      <4> QED BY <1>1, <2>10, <3>2, <4>1, MadeStays
    <3> QED BY <3>1, <3>2
  <2> QED BY <2>9, <2>11, <2>12, <2>13 DEF MakerInv
<1>4. CASE ~(flow[f].attempt < LoginAttempts)
  <2>1. Fails(f) BY <1>4 DEF AttemptEnds
  <2> QED BY <1>2, <2>1, GivesUp
<1> QED BY <1>3, <1>4

LEMMA AttemptFailsHolds ==
  ASSUME MakerInv, NEW f \in Flows, AttemptFails(f)
  PROVE  MakerInv'
<1>1. UNCHANGED <<row, owner, remote, met, removed>> /\ AttemptEnds(f)
        /\ InBrowser(f)
  BY DEF AttemptFails
<1>2. remote' \in [Masters -> 0 .. Limit] /\ WithinTarget'
  BY <1>1 DEF MakerInv, MakerTyped, Flown, WithinTarget
<1> QED BY <1>1, <1>2, AttemptEndsHolds

LEMMA BreaksHolds ==
  ASSUME MakerInv, NEW f \in Flows, Breaks(f)
  PROVE  MakerInv'
<1>1. UNCHANGED <<row, owner, remote, met, removed>> /\ Fails(f) /\ ~At(f, "idle")
  BY DEF Breaks
<1>2. remote' \in [Masters -> 0 .. Limit] /\ WithinTarget'
  BY <1>1 DEF MakerInv, MakerTyped, Flown, WithinTarget
<1> QED BY <1>1, <1>2, GivesUp

(* The provider makes an alias for a flow that still wants one.            *)
LEMMA RemoteGrows ==
  ASSUME MakerInv, NEW f \in Flows, At(f, "creates"), Wanted(f), remote[flow[f].m] < Limit,
         remote' = [remote EXCEPT ![flow[f].m] = @ + 1], met' = met
  PROVE  /\ flow[f].m \in Masters /\ remote[flow[f].m] \in Nat
         /\ remote' \in [Masters -> 0 .. Limit] /\ WithinTarget'
         /\ flow[f].m \in met \/ flow[f].known = 1 .. remote[flow[f].m]
         /\ \A g \in Flows \ {f} : flow[g].pc \in Knowing =>
               flow[g].m \in met \/ remote'[flow[g].m] = remote[flow[g].m]
<1>1. MakerTyped /\ Flown BY DEF MakerInv
<1>2. flow[f].m \in Masters BY <1>1 DEF Flown, FlowsPlaced, At
<1>3. remote[flow[f].m] \in 0 .. Limit BY <1>1, <1>2 DEF MakerTyped
<1>4. remote' \in [Masters -> 0 .. Limit]
  BY <1>1, <1>2, <1>3, DomainAssumption DEF MakerTyped
<1>5. flow[f].m \in met \/ flow[f].known = 1 .. remote[flow[f].m]
  BY <1>1 DEF Flown, Knows, Knowing, At
<1>6. flow[f].m \in met \/ remote[flow[f].m] + 2 <= Target
  <2>1. CASE flow[f].known = 1 .. remote[flow[f].m]
    <3>1. Cardinality(flow[f].known) = remote[flow[f].m] BY <1>3, <2>1, FS_Interval
    <3> QED BY <1>3, <3>1, MakerAssumption, DomainAssumption DEF Wanted
  <2> QED BY <1>5, <2>1
<1>7. WithinTarget'
  <2> SUFFICES ASSUME NEW m \in Masters PROVE remote'[m] + 1 <= Target \/ m \in met
    BY DEF WithinTarget
  <2>1. CASE m = flow[f].m
    <3>1. remote'[m] = remote[m] + 1 BY <1>1, <2>1 DEF MakerTyped
    <3> QED BY <1>3, <1>6, <2>1, <3>1, MakerAssumption, DomainAssumption
  <2>2. CASE m # flow[f].m
    <3>1. remote'[m] = remote[m] BY <1>1, <2>2 DEF MakerTyped
    <3> QED BY <1>1, <3>1 DEF Flown, WithinTarget
  <2> QED BY <2>1, <2>2
<1>8. ASSUME NEW g \in Flows \ {f}, flow[g].pc \in Knowing
      PROVE  flow[g].m \in met \/ remote'[flow[g].m] = remote[flow[g].m]
  <2>1. flow[g].m = flow[f].m => flow[g].m \in met
    BY <1>1, <1>8 DEF Flown, Apart, Inside, Knowing, Browsing, At
  <2>2. flow[g].m \in Masters BY <1>1, <1>8 DEF Flown, FlowsPlaced, At, Knowing
  <2>3. flow[g].m # flow[f].m => remote'[flow[g].m] = remote[flow[g].m]
    BY <1>1, <2>2 DEF MakerTyped
  <2> QED BY <2>1, <2>3
<1> QED BY <1>2, <1>3, <1>4, <1>5, <1>7, <1>8

LEMMA CreateUnansweredHolds ==
  ASSUME MakerInv, NEW f \in Flows, CreateUnanswered(f)
  PROVE  MakerInv'
<1>1. /\ At(f, "creates") /\ Wanted(f) /\ remote[flow[f].m] < Limit
      /\ remote' = [remote EXCEPT ![flow[f].m] = @ + 1] /\ AttemptEnds(f)
      /\ UNCHANGED <<row, owner, met, removed>>
  BY DEF CreateUnanswered
<1>2. met' = met /\ InBrowser(f) BY <1>1 DEF At, InBrowser, Browsing
<1> QED BY <1>1, <1>2, RemoteGrows, AttemptEndsHolds

LEMMA CreatesHolds ==
  ASSUME MakerInv, NEW f \in Flows, Creates(f)
  PROVE  MakerInv'
<1> DEFINE n == remote[flow[f].m] + 1
           q == [[[flow[f] EXCEPT !.pc = "persists"] EXCEPT !.made = @ + 1]
                    EXCEPT !.known = @ \cup {n}]
<1>1. MakerTyped /\ Flown /\ AllTold /\ AllMade BY DEF MakerInv
<1>2. flow[f] \in Flights /\ At(f, "creates") BY <1>1 DEF MakerTyped, Creates, At
<1>3. /\ Wanted(f) /\ remote[flow[f].m] < Limit
      /\ remote' = [remote EXCEPT ![flow[f].m] = @ + 1]
      /\ UNCHANGED <<row, owner, met, removed>>
      /\ flow' = [flow EXCEPT ![f] = q]
  BY DEF Creates
<1>4. /\ flow[f].m \in Masters /\ remote[flow[f].m] \in Nat
      /\ remote' \in [Masters -> 0 .. Limit] /\ WithinTarget'
      /\ flow[f].m \in met \/ flow[f].known = 1 .. remote[flow[f].m]
      /\ \A g \in Flows \ {f} : flow[g].pc \in Knowing =>
               flow[g].m \in met \/ remote'[flow[g].m] = remote[flow[g].m]
  BY <1>1, <1>2, <1>3, RemoteGrows DEF MakerInv
<1>5. flow[f].made \in Nat /\ flow[f].known \in SUBSET Numbers BY <1>2 DEF Flights
<1>6. n \in Numbers BY <1>3, <1>4, DomainAssumption DEF Numbers
<1>7. q \in Flights
  <2>1. flow[f].made + 1 \in Nat /\ flow[f].known \cup {n} \in SUBSET Numbers
    BY <1>5, <1>6
  <2>2. [[flow[f] EXCEPT !.pc = "persists"] EXCEPT !.made = flow[f].made + 1] \in Flights
    BY <1>2, <2>1, FlightFields DEF Places
  <2>3. q = [[[flow[f] EXCEPT !.pc = "persists"] EXCEPT !.made = flow[f].made + 1]
                EXCEPT !.known = flow[f].known \cup {n}]
    BY <1>2 DEF Flights
  <2> HIDE DEF q
  <2> QED BY <2>1, <2>2, <2>3, FlightFields
<1>8. /\ q.pc = "persists" /\ q.m = flow[f].m /\ q.n = flow[f].n /\ q.id = flow[f].id
      /\ q.made = flow[f].made + 1 /\ q.known = flow[f].known \cup {n}
  BY <1>2 DEF Flights
<1> HIDE DEF q
<1>9. /\ flow' \in [Flows -> Flights] /\ flow'[f] = q
      /\ \A g \in Flows \ {f} : flow'[g] = flow[g]
  BY <1>1, <1>3, <1>7 DEF MakerTyped
<1>10. remote'[q.m] = n BY <1>1, <1>3, <1>4, <1>8 DEF MakerTyped
<1>11. q.m \in met' \/ q.known = 1 .. remote'[q.m]
  <2>1. (1 .. remote[flow[f].m]) \cup {n} = 1 .. n BY <1>4
  <2> HIDE DEF n
  <2> QED BY <1>3, <1>4, <1>8, <1>10, <2>1
<1>12. Is(row[<<q.m, q.n>>], q.id) \/ \A k \in Slots : <<q.m, k>> \in removed
  BY <1>1, <1>2, <1>8 DEF Flown, Kept, Account, At
<1>13. \A g \in Flows \ {f} : flow[g].pc \in Inside /\ flow[g].m = q.m => q.m \in met'
  BY <1>1, <1>2, <1>3, <1>8 DEF Flown, Apart, At, Inside, Browsing
<1>14. Flown'
  BY <1>1, <1>3, <1>4, <1>7, <1>8, <1>11, <1>12, <1>13, FlowMoves
<1>15. /\ job' \in Jobs /\ job'.left = job.left /\ job'.status = job.status
       /\ job'.total = job.total /\ job'.succeeded = job.succeeded
       /\ job'.failed = job.failed /\ job'.redone = job.redone
       /\ job'.created = job.created
       /\ f \in Workers => job'.made = job.made + 1
       /\ f \notin Workers => job' = job
  <2>1. job' = Tallied(f, [job EXCEPT !.made = @ + 1]) BY DEF Creates
  <2>2. job \in Jobs BY <1>1 DEF MakerTyped
  <2>3. CASE f \in Workers
    <3> DEFINE d == [job EXCEPT !.made = @ + 1]
    <3>1. /\ d \in Jobs /\ d.succeeded = job.succeeded /\ d.failed = job.failed
          /\ d.left = job.left /\ d.status = job.status /\ d.created = job.created
          /\ d.total = job.total /\ d.redone = job.redone /\ d.made = job.made + 1
      BY <2>2, JobsMove, 0 \in Nat
    <3>2. job' = d BY <2>1, <2>3 DEF Tallied
    <3> HIDE DEF d
    <3> QED BY <2>3, <3>1, <3>2
  <2>4. CASE f \notin Workers BY <2>1, <2>2, <2>4 DEF Tallied
  <2> QED BY <2>3, <2>4
<1>16. MakerTyped' BY <1>1, <1>3, <1>4, <1>9, <1>15 DEF MakerTyped
<1>17. AllTold' BY <1>1, <1>2, <1>8, <1>9, <1>15, ToldStays DEF At, Flows
<1>18. AllMade'
  <2>1. CASE f \in Workers
    <3> DEFINE e == <<f, flow[f].made + 1>>
    <3>1. Pending' = Pending \cup {e} /\ e \notin Pending
      <4>1. Made(f)' = Made(f) \cup {e} /\ e \notin Made(f)
        BY <1>5, <1>8, <1>9 DEF Made
      <4>2. \A g \in Workers \ {f} : Made(g)' = Made(g) /\ e \notin Made(g)
        BY <1>9 DEF Made, Flows
      <4> HIDE DEF e
      <4> QED BY <2>1, <4>1, <4>2 DEF Pending
    <3>2. IsFiniteSet(Pending) BY <1>1, PendingFinite DEF Pending, Made, MakerTyped
    <3>3. Cardinality(Pending') = Cardinality(Pending) + 1
      BY <3>1, <3>2, FS_AddElement
    <3>4. Cardinality(Pending) \in Nat BY <3>2, FS_CardinalityType
    <3> QED BY <1>1, <1>15, <2>1, <3>3, <3>4 DEF AllMade, MakerTyped, Jobs
  <2>2. CASE f \notin Workers
    <3>1. \A g \in Workers : flow'[g] = flow[g] BY <1>9, <2>2 DEF Flows
    <3> QED BY <1>1, <1>15, <2>2, <3>1, MadeStays
  <2> QED BY <2>1, <2>2
<1> QED BY <1>14, <1>16, <1>17, <1>18 DEF MakerInv

LEMMA ImportKeeps ==
  ASSUME MakerTyped, NEW c \in Addresses, NEW id, NEW a
  PROVE  /\ ImportedAlias(c, id, a) \in [Addresses -> Addresses \cup {None}]
         /\ \A b \in Addresses : owner[b] # None => ImportedAlias(c, id, a)[b] # None
         /\ a \in Addresses /\ Is(row[c], id) =>
               ImportedAlias(c, id, a)[a] # None \/ row[a].present
BY DomainAssumption DEF MakerTyped, ImportedAlias, Has

LEMMA PersistsHolds ==
  ASSUME MakerInv, NEW f \in Flows, Persists(f)
  PROVE  MakerInv'
<1> DEFINE q == [flow[f] EXCEPT !.pc = "creates"]
<1>1. MakerTyped /\ Flown BY DEF MakerInv
<1>2. flow[f] \in Flights /\ At(f, "persists") BY <1>1 DEF MakerTyped, Persists, At
<1>3. flow' = [flow EXCEPT ![f] = q] /\ UNCHANGED <<row, remote, job, met, removed>>
  BY DEF Persists, Goes
<1>4. q \in Flights BY <1>2, FlightFields DEF Places
<1>5. /\ q.pc = "creates" /\ q.m = flow[f].m /\ q.n = flow[f].n /\ q.id = flow[f].id
      /\ q.made = flow[f].made /\ q.known = flow[f].known
  BY <1>2 DEF Flights
<1>6. Account(f) \in Addresses BY <1>1, <1>2, SlotIsAddress DEF At
<1>7. /\ owner' \in [Addresses -> Addresses \cup {None}]
      /\ \A a \in Addresses : owner[a] # None => owner'[a] # None
  BY <1>1, <1>6, ImportKeeps DEF Persists
<1>8. met' \in SUBSET Masters /\ met \subseteq met' BY <1>1, <1>3 DEF MakerTyped
<1>9. \A g \in Flows \ {f} : flow[g].pc \in Inside /\ flow[g].m = q.m => q.m \in met'
  BY <1>1, <1>2, <1>3, <1>5 DEF Flown, Apart, At, Inside, Browsing
<1>10. q.m \in met' \/ q.known = 1 .. remote[q.m]
  BY <1>1, <1>2, <1>3, <1>5 DEF Flown, Knows, At, Knowing
<1>11. Is(row[<<q.m, q.n>>], q.id) \/ \A k \in Slots : <<q.m, k>> \in removed
  BY <1>1, <1>2, <1>5 DEF Flown, Kept, Account, At
<1> HIDE DEF q
<1> QED BY <1>2, <1>3, <1>4, <1>5, <1>7, <1>8, <1>9, <1>10, <1>11, GoesOn DEF At

LEMMA ClosesBrowserHolds ==
  ASSUME MakerInv, NEW f \in Flows, ClosesBrowser(f)
  PROVE  MakerInv'
<1> DEFINE K == ({0} \cup flow[f].known) \ {flow[f].n}
           q == [[flow[f] EXCEPT !.pc = "imports"] EXCEPT !.todo = K]
<1>1. MakerTyped /\ Flown BY DEF MakerInv
<1>2. flow[f] \in Flights /\ At(f, "creates") BY <1>1 DEF MakerTyped, ClosesBrowser, At
<1>3. /\ flow' = [flow EXCEPT ![f] = q]
      /\ UNCHANGED <<row, owner, remote, job, met, removed>>
  BY DEF ClosesBrowser
<1>4. K \in SUBSET Slots BY <1>1, <1>2, SlotIsAddress DEF At
<1>5. q \in Flights
  <2> HIDE DEF K
  <2> QED BY <1>2, <1>4, FlightFields DEF Places
<1>6. /\ q.pc = "imports" /\ q.m = flow[f].m /\ q.n = flow[f].n /\ q.id = flow[f].id
      /\ q.made = flow[f].made /\ q.known = flow[f].known /\ q.todo = K
  BY <1>2 DEF Flights
<1>7. /\ owner' \in [Addresses -> Addresses \cup {None}]
      /\ met' \in SUBSET Masters /\ met \subseteq met'
  BY <1>1, <1>3 DEF MakerTyped
<1>8. \A g \in Flows \ {f} : flow[g].pc \in Inside /\ flow[g].m = q.m => q.m \in met'
  BY <1>1, <1>2, <1>3, <1>6 DEF Flown, Apart, At, Inside, Browsing
<1>9. q.m \in met' \/ q.known = 1 .. remote[q.m]
  BY <1>1, <1>2, <1>3, <1>6 DEF Flown, Knows, At, Knowing
<1>10. Is(row[<<q.m, q.n>>], q.id) \/ \A k \in Slots : <<q.m, k>> \in removed
  BY <1>1, <1>2, <1>6 DEF Flown, Kept, Account, At
<1>11. ({0} \cup q.known) \ (q.todo \cup {q.n}) = {} BY <1>6
<1> HIDE DEF q
<1> QED BY <1>2, <1>3, <1>5, <1>6, <1>7, <1>8, <1>9, <1>10, <1>11, GoesOn DEF At

LEMMA ImportsHolds ==
  ASSUME MakerInv, NEW f \in Flows, Imports(f)
  PROVE  MakerInv'
<1>1. MakerTyped /\ Flown BY DEF MakerInv
<1>2. flow[f] \in Flights /\ At(f, "imports") BY <1>1 DEF MakerTyped, Imports, At
<1>3. PICK k : /\ owner' = ImportedAlias(Account(f), flow[f].id, <<flow[f].m, k>>)
               /\ flow' = [flow EXCEPT ![f].todo = @ \ {k}]
               /\ UNCHANGED <<row, remote, job, met, removed>>
  BY DEF Imports
<1> DEFINE q == [flow[f] EXCEPT !.todo = flow[f].todo \ {k}]
<1>4. flow' = [flow EXCEPT ![f] = q] BY <1>1, <1>3 DEF MakerTyped
<1>5. flow[f].todo \ {k} \in SUBSET Slots
  BY <1>2 DEF Flights
<1>6. q \in Flights BY <1>2, <1>5, FlightFields
<1>7. /\ q.pc = "imports" /\ q.m = flow[f].m /\ q.n = flow[f].n /\ q.id = flow[f].id
      /\ q.made = flow[f].made /\ q.known = flow[f].known
      /\ q.todo = flow[f].todo \ {k}
  BY <1>2 DEF Flights, At
<1>8. Account(f) \in Addresses BY <1>1, <1>2, SlotIsAddress DEF At
<1> DEFINE a == <<flow[f].m, k>>
<1>9. /\ owner' \in [Addresses -> Addresses \cup {None}]
      /\ \A b \in Addresses : owner[b] # None => owner'[b] # None
      /\ a \in Addresses /\ Is(row[Account(f)], flow[f].id) =>
            owner'[a] # None \/ row[a].present
  BY <1>1, <1>3, <1>8, ImportKeeps
<1>10. met' \in SUBSET Masters /\ met \subseteq met' BY <1>1, <1>3 DEF MakerTyped
<1>11. \A g \in Flows \ {f} : flow[g].pc \in Inside /\ flow[g].m = q.m => q.m \in met'
  BY <1>1, <1>2, <1>3, <1>7 DEF Flown, Apart, At, Inside, Browsing
<1>12. q.m \in met' \/ q.known = 1 .. remote[q.m]
  BY <1>1, <1>2, <1>3, <1>7 DEF Flown, Knows, At, Knowing
<1>13. Is(row[<<q.m, q.n>>], q.id) \/ \A l \in Slots : <<q.m, l>> \in removed
  BY <1>1, <1>2, <1>7 DEF Flown, Kept, Account, At
<1>14. ASSUME NEW l \in ({0} \cup q.known) \ (q.todo \cup {q.n})
       PROVE  \/ owner'[<<q.m, l>>] # None \/ row[<<q.m, l>>].present
              \/ <<q.m, l>> \in removed
  <2>1. l \in Slots /\ <<flow[f].m, l>> \in Addresses
    BY <1>1, <1>2, <1>7, <1>14, SlotIsAddress DEF At
  <2>2. CASE l = k
    <3>1. CASE Is(row[Account(f)], flow[f].id) BY <1>7, <1>9, <2>1, <2>2, <3>1
    <3>2. CASE ~Is(row[Account(f)], flow[f].id)
      BY <1>7, <1>13, <2>1, <3>2 DEF Account
    <3> QED BY <3>1, <3>2
  <2>3. CASE l # k
    <3>1. Has(<<flow[f].m, l>>) \/ <<flow[f].m, l>> \in removed
      BY <1>1, <1>2, <1>7, <1>14, <2>3 DEF Flown, Recorded
    <3> QED BY <1>7, <1>9, <2>1, <3>1 DEF Has
  <2> QED BY <2>2, <2>3
<1> HIDE DEF q
<1> QED BY <1>2, <1>3, <1>4, <1>6, <1>7, <1>9, <1>10, <1>11, <1>12, <1>13, <1>14,
           GoesOn DEF At

LEMMA SucceedsHolds ==
  ASSUME MakerInv, NEW f \in Flows, Succeeds(f)
  PROVE  MakerInv'
<1>1. MakerTyped /\ Flown /\ AllTold /\ AllMade BY DEF MakerInv
<1>2. flow[f] \in Flights /\ At(f, "imports") /\ ~At(f, "idle")
  BY <1>1 DEF MakerTyped, Succeeds, At
<1>3. /\ flow' = [flow EXCEPT ![f] = Rest]
      /\ UNCHANGED <<row, owner, remote, met, removed>>
  BY DEF Succeeds
<1>4. Rest \in Flights /\ Rest.pc = "idle" /\ Rest.made = 0 BY RestIsFlight
<1>5. flow' \in [Flows -> Flights] /\ flow'[f] = Rest
        /\ \A g \in Flows \ {f} : flow'[g] = flow[g]
  BY <1>1, <1>3, <1>4 DEF MakerTyped
<1>6. WithinTarget' BY <1>1, <1>3 DEF Flown, WithinTarget
<1>7. Flown' BY <1>1, <1>3, <1>4, <1>6, FlowMoves DEF Inside, Knowing, Browsing
<1>8. flow[f].made \in Nat BY <1>2 DEF Flights
<1>9. /\ job' \in Jobs /\ job'.left = job.left /\ job'.status = job.status
      /\ job'.total = job.total /\ job'.failed = job.failed
      /\ job'.redone = job.redone /\ job'.made = job.made
      /\ f \in Workers => /\ job'.succeeded = job.succeeded + 1
                          /\ job'.created = job.created + flow[f].made
      /\ f \notin Workers => job' = job
  <2>1. job' = Tallied(f, [job EXCEPT !.succeeded = @ + 1, !.created = @ + flow[f].made])
    BY DEF Succeeds
  <2>2. job \in Jobs BY <1>1 DEF MakerTyped
  <2>3. CASE f \in Workers
    <3> DEFINE d == [job EXCEPT !.succeeded = @ + 1, !.created = @ + flow[f].made]
    <3>1. /\ d \in Jobs /\ d.succeeded = job.succeeded + 1 /\ d.failed = job.failed
          /\ d.left = job.left /\ d.status = job.status
          /\ d.created = job.created + flow[f].made
          /\ d.total = job.total /\ d.redone = job.redone /\ d.made = job.made
      BY <1>8, <2>2, JobsMove
    <3>2. job' = d BY <2>1, <2>3 DEF Tallied
    <3> HIDE DEF d
    <3> QED BY <2>3, <3>1, <3>2
  <2>4. CASE f \notin Workers BY <2>1, <2>2, <2>4 DEF Tallied
  <2> QED BY <2>3, <2>4
<1>10. MakerTyped' BY <1>1, <1>3, <1>5, <1>9 DEF MakerTyped
<1>11. CASE f \in Workers
  <2>1. job'.succeeded + job'.failed = job.succeeded + job.failed + 1
    BY <1>1, <1>9, <1>11 DEF MakerTyped, Jobs
  <2>2. At(f, "idle")' /\ \A g \in Workers \ {f} : At(g, "idle")' <=> At(g, "idle")
    BY <1>4, <1>5 DEF At, Flows
  <2>3. AllTold' BY <1>1, <1>2, <1>9, <1>11, <2>1, <2>2, ToldOfOne
  <2>4. Pending' = Pending \ Made(f) /\ Pending \cap Made(f) = Made(f)
    <3>1. Made(f)' = {} BY <1>4, <1>5 DEF Made
    <3>2. \A g \in Workers \ {f} : Made(g)' = Made(g) /\ Made(g) \cap Made(f) = {}
      BY <1>5 DEF Made, Flows
    <3> QED BY <1>11, <3>1, <3>2 DEF Pending
  <2>5. IsFiniteSet(Pending) BY <1>1, PendingFinite DEF Pending, Made, MakerTyped
  <2>6. Cardinality(Made(f)) = flow[f].made BY <1>8, MadeByOne DEF Made
  <2>7. Cardinality(Pending') = Cardinality(Pending) - flow[f].made
    BY <2>4, <2>5, <2>6, FS_Difference
  <2>8. Cardinality(Pending) \in Nat BY <2>5, FS_CardinalityType
  <2>9. AllMade' BY <1>1, <1>8, <1>9, <1>11, <2>7, <2>8 DEF AllMade, MakerTyped, Jobs
  <2> QED BY <1>7, <1>10, <2>3, <2>9 DEF MakerInv
<1>12. CASE f \notin Workers
  <2>1. \A g \in Workers : flow'[g] = flow[g] BY <1>5, <1>12 DEF Flows
  <2>2. AllTold' BY <1>1, <1>9, <1>12, <2>1, ToldStays DEF At
  <2>3. AllMade' BY <1>1, <1>9, <1>12, <2>1, MadeStays
  <2> QED BY <1>7, <1>10, <2>2, <2>3 DEF MakerInv
<1> QED BY <1>11, <1>12

-----------------------------------------------------------------------------
(* The bulk job and the page.                                              *)

LEMMA AskBulkHolds ==
  ASSUME MakerInv, AskBulk
  PROVE  MakerInv'
<1>1. MakerTyped /\ Flown /\ AllTold /\ AllMade BY DEF MakerInv
<1> DEFINE Q == {<<c, row[c].id>> : c \in Underfilled}
           s == IF Underfilled = {} THEN "done" ELSE "running"
<1>2. UNCHANGED <<row, owner, remote, flow, met, removed>> BY DEF AskBulk
<1>3. Underfilled \in SUBSET Addresses BY DEF Underfilled
<1>4. /\ IsFiniteSet(Q) /\ Cardinality(Q) = Cardinality(Underfilled)
      /\ Q \in SUBSET (Addresses \X Nat) /\ Cardinality(Q) \in Nat
  <2>1. /\ IsFiniteSet(Q) /\ Cardinality(Q) = Cardinality(Underfilled)
        /\ Q \in SUBSET (Addresses \X Nat)
    BY <1>1, <1>3, QueueOf
  <2> QED BY <2>1, FS_CardinalityType
<1>5. job' = [NoJob EXCEPT !.status = s, !.left = Q, !.total = Cardinality(Underfilled)]
  BY DEF AskBulk
<1>6. Underfilled = {} => Q = {} OBVIOUS
<1>7. s \in {"done", "running"} /\ (s # "running" => Underfilled = {}) OBVIOUS
<1> HIDE DEF Q, s
<1>8. /\ job'.status = s /\ job'.left = Q /\ job'.total = Cardinality(Q)
      /\ job'.succeeded = 0 /\ job'.failed = 0 /\ job'.created = 0 /\ job'.made = 0
      /\ job' = [status |-> s, left |-> Q, total |-> Cardinality(Q), succeeded |-> 0,
                 failed |-> 0, created |-> 0, made |-> 0, redone |-> FALSE]
  BY <1>4, <1>5 DEF NoJob
<1>9. job' \in Jobs BY <1>4, <1>7, <1>8 DEF Jobs
<1>10. MakerTyped' BY <1>1, <1>2, <1>9 DEF MakerTyped
<1>11. Flown'
  BY <1>1, <1>2 DEF Flown, FlowsPlaced, Apart, Knows, WithinTarget, Kept, Account, Has,
     Recorded, At
<1>12. Busy = {} BY <1>1 DEF AskBulk, AllTold
<1>13. Busy' = {} BY <1>2, <1>12 DEF Busy, At
<1>14. AllTold'
  BY <1>4, <1>6, <1>7, <1>8, <1>13, FS_EmptySet DEF AllTold, JobRuns
<1>15. Pending' = {}
  <2>1. \A f \in Workers : flow'[f].made = 0
    BY <1>1, <1>2, <1>12, RestIsFlight DEF Flown, FlowsPlaced, Busy, Flows
  <2> QED BY <2>1 DEF Pending, Made
<1>16. AllMade' BY <1>8, <1>15, FS_EmptySet DEF AllMade
<1> QED BY <1>10, <1>11, <1>14, <1>16 DEF MakerInv

(* A flow that sets out for an account.                                    *)
LEMMA FlowSetsOut ==
  ASSUME MakerInv, NEW f \in Flows, At(f, "idle"), NEW c \in Addresses, NEW id \in Nat,
         SetsOut(f, c, id),
         UNCHANGED <<row, owner, remote, met, removed>>
  PROVE  /\ flow' \in [Flows -> Flights] /\ Flown'
         /\ ~At(f, "idle")' /\ flow'[f].made = flow[f].made
         /\ \A g \in Flows \ {f} : flow'[g] = flow[g]
<1> DEFINE q == [[[[flow[f] EXCEPT !.pc = "begins"] EXCEPT !.m = c[1]] EXCEPT !.n = c[2]]
                    EXCEPT !.id = id]
<1>1. MakerTyped /\ Flown BY DEF MakerInv
<1>2. flow[f] \in Flights BY <1>1 DEF MakerTyped
<1>3. flow' = [flow EXCEPT ![f] = q] BY DEF SetsOut
<1>10. c[1] \in Masters /\ c[2] \in Slots BY DEF Addresses, Slots
<1>4. q \in Flights BY <1>2, <1>10, FlightFields DEF Places
<1>5. q.pc = "begins" /\ q.m = c[1] /\ q.made = flow[f].made BY <1>2 DEF Flights
<1>6. flow[f].made = 0 BY <1>1, RestIsFlight DEF Flown, FlowsPlaced
<1> HIDE DEF q
<1>7. flow' \in [Flows -> Flights] /\ flow'[f] = q
        /\ \A g \in Flows \ {f} : flow'[g] = flow[g]
  BY <1>1, <1>3, <1>4 DEF MakerTyped
<1>8. WithinTarget' BY <1>1 DEF Flown, WithinTarget
<1>9. Flown'
  BY <1>1, <1>3, <1>4, <1>5, <1>6, <1>8, <1>10, FlowMoves DEF Inside, Knowing, Browsing
<1> QED BY <1>5, <1>7, <1>9 DEF At

LEMMA WorkerTakesHolds ==
  ASSUME MakerInv, NEW f \in Workers, NEW a \in job.left, WorkerTakes(f, a)
  PROVE  MakerInv'
<1>1. MakerTyped /\ Flown /\ AllTold /\ AllMade BY DEF MakerInv
<1>2. a \in Addresses \X Nat /\ f \in Flows BY <1>1 DEF MakerTyped, Jobs, Flows
<1>3. a[1] \in Addresses /\ a[2] \in Nat BY <1>2
<1>4. /\ SetsOut(f, a[1], a[2])
      /\ UNCHANGED <<row, owner, remote, met, removed>> /\ At(f, "idle")
      /\ job' = [job EXCEPT !.left = job.left \ {a}]
  BY DEF WorkerTakes
<1>5. /\ flow' \in [Flows -> Flights] /\ Flown'
      /\ ~At(f, "idle")' /\ flow'[f].made = flow[f].made
      /\ \A g \in Flows \ {f} : flow'[g] = flow[g]
  BY <1>2, <1>3, <1>4, FlowSetsOut
<1>6. /\ job' \in Jobs /\ job'.left = job.left \ {a} /\ job'.status = job.status
      /\ job'.total = job.total /\ job'.succeeded = job.succeeded
      /\ job'.failed = job.failed /\ job'.redone = job.redone
      /\ job'.made = job.made /\ job'.created = job.created
  BY <1>1, <1>4 DEF MakerTyped, Jobs
<1>7. MakerTyped' BY <1>1, <1>4, <1>5, <1>6 DEF MakerTyped
<1>8. Busy' = Busy \cup {f} /\ f \notin Busy BY <1>4, <1>5 DEF Busy, At, Flows
<1>9. /\ Cardinality(Busy') = Cardinality(Busy) + 1
      /\ Cardinality(job'.left) = Cardinality(job.left) - 1
      /\ IsFiniteSet(job'.left) /\ Cardinality(Busy) \in Nat
      /\ Cardinality(job.left) \in Nat
  BY <1>1, <1>6, <1>8, BusyFinite, FS_AddElement, FS_RemoveElement, FS_CardinalityType
     DEF AllTold
<1>10. JobRuns BY <1>1 DEF AllTold
<1>11. AllTold'
  BY <1>1, <1>6, <1>9, <1>10 DEF AllTold, JobRuns, MakerTyped, Jobs
<1>12. AllMade' BY <1>1, <1>5, <1>6, MadeStays DEF Flows
<1> QED BY <1>5, <1>7, <1>11, <1>12 DEF MakerInv

LEMMA JobEndsHolds ==
  ASSUME MakerInv, JobEnds
  PROVE  MakerInv'
<1>1. MakerTyped /\ Flown /\ AllTold /\ AllMade BY DEF MakerInv
<1>2. /\ UNCHANGED <<row, owner, remote, flow, met, removed>>
      /\ job.left = {} /\ Busy = {} /\ job' = [job EXCEPT !.status = "done"]
  BY DEF JobEnds, Busy
<1>3. /\ job' \in Jobs /\ job'.left = job.left /\ job'.status = "done"
      /\ job'.total = job.total /\ job'.succeeded = job.succeeded
      /\ job'.failed = job.failed /\ job'.redone = job.redone
      /\ job'.made = job.made /\ job'.created = job.created
  BY <1>1, <1>2 DEF MakerTyped, Jobs
<1>4. MakerTyped' BY <1>1, <1>2, <1>3 DEF MakerTyped
<1>5. Flown'
  BY <1>1, <1>2 DEF Flown, FlowsPlaced, Apart, Knows, WithinTarget, Kept, Account, Has,
     Recorded, At
<1>6. Busy' = Busy BY <1>2 DEF Busy, At
<1>7. AllTold' BY <1>1, <1>2, <1>3, <1>6 DEF AllTold, JobRuns
<1>8. AllMade' BY <1>1, <1>2, <1>3, MadeStays
<1> QED BY <1>4, <1>5, <1>7, <1>8 DEF MakerInv

LEMMA AskManualHolds ==
  ASSUME MakerInv, NEW f \in Manual, NEW c \in Addresses, AskManual(f, c)
  PROVE  MakerInv'
<1>1. MakerTyped /\ Flown /\ AllTold /\ AllMade BY DEF MakerInv
<1>2. f \in Flows /\ f \notin Workers BY MakerAssumption DEF Flows
<1>3. row[c].id \in Nat BY <1>1 DEF MakerTyped, Tables
<1>4. /\ SetsOut(f, c, row[c].id)
      /\ UNCHANGED <<row, owner, remote, met, removed, job>> /\ At(f, "idle")
  BY DEF AskManual
<1>5. /\ flow' \in [Flows -> Flights] /\ Flown'
      /\ \A g \in Flows \ {f} : flow'[g] = flow[g]
  BY <1>2, <1>3, <1>4, FlowSetsOut
<1>6. MakerTyped' BY <1>1, <1>4, <1>5 DEF MakerTyped
<1>7. \A g \in Workers : flow'[g] = flow[g] BY <1>2, <1>5 DEF Flows
<1>8. AllTold' /\ AllMade' BY <1>1, <1>4, <1>7, ToldStays, MadeStays DEF At
<1> QED BY <1>5, <1>6, <1>8 DEF MakerInv

(* Only the tables outlive the process.                                    *)
LEMMA RestartHolds ==
  ASSUME MakerInv, ManagerRestarts
  PROVE  MakerInv'
<1>1. MakerTyped /\ Flown BY DEF MakerInv
<1>2. /\ flow' = [f \in Flows |-> Rest] /\ job' = NoJob
      /\ UNCHANGED <<row, owner, remote, met, removed>>
  BY DEF ManagerRestarts
<1>3. Rest \in Flights /\ Rest.pc = "idle" /\ Rest.made = 0 BY RestIsFlight
<1>4. NoJob \in Jobs BY DEF NoJob, Jobs
<1>5. MakerTyped' BY <1>1, <1>2, <1>3, <1>4 DEF MakerTyped
<1>6. WithinTarget' BY <1>1, <1>2 DEF Flown, WithinTarget
<1>7. Flown'
  BY <1>2, <1>3, <1>6 DEF Flown, FlowsPlaced, Apart, Knows, Kept, Recorded, At,
     Inside, Knowing, Browsing
<1>8. Busy' = {} /\ Pending' = {} BY <1>2, <1>3 DEF Busy, At, Pending, Made, Flows
<1>9. AllTold' BY <1>2, <1>8, FS_EmptySet DEF AllTold, NoJob, JobRuns
<1>10. AllMade' BY <1>2, <1>8, FS_EmptySet DEF AllMade, NoJob
<1> QED BY <1>5, <1>7, <1>9, <1>10 DEF MakerInv

LEMMA PageHolds ==
  ASSUME MakerInv, NEW c \in Addresses, NEW a \in Addresses,
         ImportAccount(c) \/ DeleteAccount(c) \/ ImportAlias(c, a) \/ DeleteAlias(a)
  PROVE  MakerInv'
<1>1. MakerTyped /\ Flown /\ AllTold /\ AllMade BY DEF MakerInv
<1>2. UNCHANGED <<flow, remote, job, met>>
  BY DEF ImportAccount, DeleteAccount, ImportAlias, DeleteAlias
<1>3. row[c] \in Tables /\ row[c].id \in Nat BY <1>1 DEF MakerTyped, Tables
<1>4. AllTold' /\ AllMade' BY <1>1, <1>2, ToldStays, MadeStays DEF At
<1>5. \A f \in Flows : ~At(f, "idle") =>
        Account(f) \in Addresses /\ \A k \in Slots : <<flow[f].m, k>> \in Addresses
  BY <1>1, SlotIsAddress
<1>6. CASE ImportAccount(c)
  <2>1. /\ row' = [row EXCEPT ![c] = Inserted(row[c])] /\ ~row[c].present
        /\ UNCHANGED <<owner, removed>>
    BY <1>6 DEF ImportAccount, Has
  <2>2. MakerTyped' BY <1>1, <1>2, <1>3, <2>1, Rows DEF MakerTyped
  <2>3. \A b \in Addresses : b = c \/ row'[b] = row[b] BY <1>1, <2>1 DEF MakerTyped
  <2>4. \A b \in Addresses : row[b].present => row'[b] = row[b] BY <2>1, <2>3
  <2>5. ASSUME NEW f \in Flows, ~At(f, "idle")
        PROVE  /\ Is(row[Account(f)], flow[f].id) => Is(row'[Account(f)], flow[f].id)
               /\ \A k \in Slots : Has(<<flow[f].m, k>>) => Has(<<flow[f].m, k>>)'
    BY <1>2, <1>5, <2>1, <2>4, <2>5 DEF Is, Has
  <2>6. Flown' BY <1>1, <1>2, <2>1, <2>5, TablesMove
  <2> QED BY <1>4, <2>2, <2>6 DEF MakerInv
<1>7. CASE ImportAlias(c, a)
  <2>1. UNCHANGED <<row, removed>> /\ owner' = ImportedAlias(c, row[c].id, a)
    BY <1>7 DEF ImportAlias
  <2>2. /\ owner' \in [Addresses -> Addresses \cup {None}]
        /\ \A b \in Addresses : owner[b] # None => owner'[b] # None
    BY <1>1, <2>1, ImportKeeps
  <2>3. MakerTyped' BY <1>1, <1>2, <2>1, <2>2 DEF MakerTyped
  <2>4. \A f \in Flows : ~At(f, "idle") =>
          \A k \in Slots : Has(<<flow[f].m, k>>) => Has(<<flow[f].m, k>>)'
    BY <1>2, <1>5, <2>1, <2>2 DEF Has
  <2>5. Flown' BY <1>1, <1>2, <2>1, <2>4, TablesMove
  <2> QED BY <1>4, <2>3, <2>5 DEF MakerInv
<1>8. CASE DeleteAlias(a)
  <2>1. /\ UNCHANGED row /\ owner' = [owner EXCEPT ![a] = None]
        /\ removed' = removed \cup Missed({a})
    BY <1>8 DEF DeleteAlias
  <2>2. Missed({a}) \subseteq Addresses BY DEF Missed
  <2>3. MakerTyped' BY <1>1, <1>2, <2>1, <2>2 DEF MakerTyped
  <2>4. ASSUME NEW f \in Flows, ~At(f, "idle"), NEW k \in Slots, Has(<<flow[f].m, k>>)
        PROVE  Has(<<flow[f].m, k>>)' \/ <<flow[f].m, k>> \in removed'
    <3>1. <<flow[f].m, k>> \in Addresses BY <1>5, <2>4
    <3>2. CASE <<flow[f].m, k>> = a
      <4>1. a[1] = flow[f].m BY <3>2
      <4>2. a \in Missed({a}) BY <2>4, <4>1 DEF Missed
      <4> QED BY <2>1, <3>2, <4>2
    <3>3. CASE <<flow[f].m, k>> # a
      BY <1>1, <1>2, <2>1, <2>4, <3>1, <3>3 DEF MakerTyped, Has
    <3> QED BY <3>2, <3>3
  <2>5. Flown' BY <1>1, <1>2, <2>1, <2>4, TablesMove
  <2> QED BY <1>4, <2>3, <2>5 DEF MakerInv
<1>9. CASE DeleteAccount(c)
  <2>1. /\ row' = [row EXCEPT ![c] = Deleted(row[c])]
        /\ owner' = [b \in Addresses |-> IF owner[b] = c THEN None ELSE owner[b]]
        /\ removed' = removed \cup Missed(Gone(c))
    BY <1>9 DEF DeleteAccount
  <2>2. Missed(Gone(c)) \subseteq Addresses BY DEF Missed, Gone
  <2>3. owner' \in [Addresses -> Addresses \cup {None}] BY <1>1, <2>1 DEF MakerTyped
  <2>4. row' \in [Addresses -> Tables] BY <1>1, <1>3, <2>1, Rows DEF MakerTyped
  <2>5. removed' \in SUBSET Addresses BY <1>1, <2>1, <2>2 DEF MakerTyped
  <2>6. MakerTyped' BY <1>1, <1>2, <2>3, <2>4, <2>5 DEF MakerTyped
  <2>7. ASSUME NEW f \in Flows, ~At(f, "idle"), NEW k \in Slots
        PROVE  /\ Has(<<flow[f].m, k>>) =>
                     Has(<<flow[f].m, k>>)' \/ <<flow[f].m, k>> \in removed'
               /\ Account(f) = c => <<flow[f].m, k>> \in removed'
    <3> DEFINE b == <<flow[f].m, k>>
    <3>1. b \in Addresses /\ b[1] = flow[f].m BY <1>5, <2>7
    <3>2. b \in Gone(c) => b \in removed'
      <4> HIDE DEF b
      <4> QED BY <2>1, <2>7, <3>1 DEF Missed
    <3>3. b = c \/ owner[b] = c => b \in Gone(c) BY <3>1 DEF Gone
    <3>4. Account(f) = c => b \in Gone(c)
      <4>1. Account(f) = c => b[1] = c[1] BY <3>1 DEF Account
      <4> HIDE DEF b
      <4> QED BY <2>7, <3>1, <4>1 DEF Gone
    <3>5. b # c /\ owner[b] # c => row'[b] = row[b] /\ owner'[b] = owner[b]
      BY <1>1, <2>1, <3>1 DEF MakerTyped
    <3>6. Has(b) /\ b # c /\ owner[b] # c => Has(b)'
      BY <1>2, <3>5 DEF Has
    <3> QED BY <3>2, <3>3, <3>4, <3>6
  <2>8. \A f \in Flows : ~At(f, "idle") =>
          \/ row'[Account(f)] = row[Account(f)]
          \/ \A k \in Slots : <<flow[f].m, k>> \in removed'
    BY <1>1, <1>5, <2>1, <2>7 DEF MakerTyped
  <2>9. Flown' BY <1>1, <1>2, <2>1, <2>7, <2>8, TablesMove
  <2> QED BY <1>4, <2>6, <2>9 DEF MakerInv
<1> QED BY <1>6, <1>7, <1>8, <1>9

-----------------------------------------------------------------------------
(* All steps together.                                                     *)

LEMMA MailIsApart == UNCHANGED aliasVars /\ MakerInv => MakerInv'
BY DEF aliasVars, MakerInv, MakerTyped, Flown, FlowsPlaced, Apart, Knows, WithinTarget, Kept,
   Account, Has, Recorded, AllTold, AllMade, Busy, Pending, Made, At, JobRuns

LEMMA Inductive == MakerInv /\ [Next]_vars => MakerInv'
<1> SUFFICES ASSUME MakerInv, Next PROVE MakerInv'
  BY MailIsApart DEF vars
<1>1. CASE MakerAsked
  <2>1. CASE AskBulk BY <2>1, AskBulkHolds
  <2>2. CASE ManagerRestarts BY <2>2, RestartHolds
  <2>3. CASE \E c \in Addresses : \E f \in Manual : AskManual(f, c)
    BY <2>3, AskManualHolds
  <2>4. CASE \E c \in Addresses : ImportAccount(c) \/ DeleteAccount(c) \/ DeleteAlias(c)
    BY <2>4, PageHolds
  <2>5. CASE \E c \in Addresses : \E a \in Addresses : ImportAlias(c, a)
    BY <2>5, PageHolds
  <2> QED BY <1>1, <2>1, <2>2, <2>3, <2>4, <2>5 DEF MakerAsked
<1>2. CASE MakerWorks
  <2>1. CASE \E f \in Flows : FlowStep(f)
    <3>1. PICK f \in Flows : FlowStep(f) BY <2>1
    <3> QED BY <3>1, BeginsHolds, OpensBrowserHolds, LoginHolds, AttemptFailsHolds, BreaksHolds,
               CreatesHolds, CreateUnansweredHolds, PersistsHolds, ClosesBrowserHolds,
               ImportsHolds, SucceedsHolds DEF FlowStep
  <2>2. CASE \E f \in Workers, a \in job.left : WorkerTakes(f, a)
    BY <2>2, WorkerTakesHolds
  <2>3. CASE JobEnds BY <2>3, JobEndsHolds
  <2> QED BY <1>2, <2>1, <2>2, <2>3 DEF MakerWorks
<1>3. CASE UNCHANGED aliasVars BY <1>3, MailIsApart
<1> QED BY <1>1, <1>2, <1>3 DEF Next, SyncAliases

LEMMA MakerInvariance == Spec => []MakerInv
<1>1. Init => MakerInv BY Initially
<1>2. MakerInv /\ [Next]_vars => MakerInv' BY Inductive
<1> QED BY <1>1, <1>2, PTL DEF Spec

(* No mailbox is given more than Target addresses, whatever is lost, tried  *)
(* again, deleted or restarted, unless two flows were at it together        *)
(* (alias_creator.py, create_to_total).                                    *)
THEOREM NeverTooMany == Spec => []WithinTarget
<1>1. MakerInv => WithinTarget BY DEF MakerInv, Flown
<1> QED BY <1>1, MakerInvariance, PTL

(* A flow that tells of success has every address of its mailbox in the      *)
(* tables, as an alias or as an account, those of attempts that failed too,  *)
(* unless a second flow was at the mailbox or the page took the address, or *)
(* the flow's account, away (app.py, create_aliases_for_account).           *)
THEOREM SuccessIsStored == Spec => StoresWhatExists
<1> DEFINE Told(f) ==
      LET m == flow[f].m IN
        \/ m \in met
        \/ \A k \in 0 .. remote[m] : Has(<<m, k>>) \/ <<m, k>> \in removed
<1>1. ASSUME MakerInv, NEW f \in Flows, Succeeds(f) PROVE Told(f)
  <2>1. At(f, "imports") /\ flow[f].todo = {} BY <1>1 DEF Succeeds
  <2>2. MakerTyped /\ Flown /\ ~At(f, "idle") /\ ~At(f, "begins")
    BY <1>1, <2>1 DEF MakerInv, At
  <2>3. flow[f].m \in met \/ flow[f].known = 1 .. remote[flow[f].m]
    BY <2>1, <2>2 DEF Flown, Knows, Knowing, At
  <2>4. flow[f].m \in Masters /\ remote[flow[f].m] \in 0 .. Limit
    BY <2>2 DEF Flown, FlowsPlaced, MakerTyped
  <2>5. ASSUME NEW k \in 0 .. remote[flow[f].m], flow[f].m \notin met
        PROVE  Has(<<flow[f].m, k>>) \/ <<flow[f].m, k>> \in removed
    <3>1. k \in {0} \cup flow[f].known BY <2>3, <2>4, <2>5
    <3>2. CASE k # flow[f].n BY <2>1, <2>2, <3>1, <3>2 DEF Flown, Recorded
    <3>3. CASE k = flow[f].n
      <4>1. k \in Slots BY <2>4, DomainAssumption DEF Slots
      <4>2. Is(row[Account(f)], flow[f].id) \/ <<flow[f].m, k>> \in removed
        BY <2>2, <4>1 DEF Flown, Kept
      <4> QED BY <3>3, <4>2 DEF Account, Is, Has
    <3> QED BY <3>2, <3>3
  <2> QED BY <2>5
<1>2. MakerInv /\ [Next]_vars => [\A f \in Flows : Succeeds(f) => Told(f)]_aliasVars
  BY <1>1
<1> QED BY <1>2, MakerInvariance, PTL DEF Spec, StoresWhatExists

(* A bulk job that is done has told of each of its accounts, and of each    *)
(* alias its workers made unless an attempt was made again or an account    *)
(* failed (app.py, run_bulk_alias_job).                                    *)
THEOREM JobsAddUp == Spec => []CountsAddUp
<1>1. MakerInv => CountsAddUp
  <2> SUFFICES ASSUME MakerInv, job.status = "done" PROVE
        /\ job.succeeded + job.failed = job.total
        /\ job.created = job.made \/ job.redone \/ job.failed > 0
    BY DEF CountsAddUp
  <2>1. MakerTyped /\ Flown /\ AllTold /\ AllMade BY DEF MakerInv
  <2>2. job.left = {} /\ Busy = {} BY <2>1 DEF AllTold, JobRuns
  <2>3. job.succeeded + job.failed = job.total
    BY <2>1, <2>2, FS_EmptySet DEF AllTold, MakerTyped, Jobs
  <2>4. \A f \in Workers : flow[f].made = 0
    BY <2>1, <2>2, RestIsFlight DEF Flown, FlowsPlaced, Busy, Flows
  <2>5. Pending = {} BY <2>4 DEF Pending, Made
  <2>6. job.created = job.made \/ job.redone \/ job.failed > 0
    BY <2>1, <2>5, FS_EmptySet DEF AllMade, MakerTyped, Jobs
  <2> QED BY <2>3, <2>6
<1> QED BY <1>1, MakerInvariance, PTL

----------------------------------------------------------------------------
(* ResourceDesk                                                            *)

Accounts == [id : Nat, present : BOOLEAN, by : Runs \cup {"page", None},
             token : Nat, configured : BOOLEAN, bad : SUBSET Nat,
             plan : {"none", "running", "success", "failed"}, aged : BOOLEAN]
Emails == [id : Nat, present : BOOLEAN, by : Runs \cup {None}]
Leasable == [present : BOOLEAN, enabled : BOOLEAN, owner : Checks \cup {None},
             over : BOOLEAN]
Holding == {"holds", "works", "registers", "dead", "settles"}
Registering == [pc : {"idle", "lists", "tries"} \cup Holding,
                registered : SUBSET Pool, candidates : SUBSET (Pool \X Nat),
                a : Pool \cup {None}, id : Nat, found : BOOLEAN]
Checking == [pc : {"idle", "claimed", "asks", "releases"} \cup Answers,
             a : Pool \cup {None}, id : Nat, token : Nat,
             p : Proxies \cup {None}, lapsed : BOOLEAN]

RowsTyped ==
  /\ account \in [Pool -> Accounts]
  /\ email \in [Pool -> Emails]
  /\ proxy \in [Proxies -> Leasable]
ActorsTyped ==
  /\ run \in [Runs -> Registering]
  /\ check \in [Checks -> Checking]
  /\ importer \in [todo : SUBSET Pool, at : Pool \cup {None}]
  /\ creator \in [a : Pool \cup {None}, id : Nat]

(* Who is at work has an address, and who uses a proxy has one.            *)
Placed ==
  /\ \A r \in Runs : run[r].pc \in Holding => run[r].a \in Pool
  /\ \A c \in Checks :
       /\ AtWork(c) => check[c].a \in Pool
       /\ check[c].pc \in {"asks", "releases"} \cup Answers => check[c].p \in Proxies

DeskTyped == RowsTyped /\ ActorsTyped /\ Placed

LEMMA EmailRow ==
  ASSUME NEW e \in Emails
  PROVE  /\ Inserted(e) \in Emails /\ Inserted(e).by = e.by /\ Inserted(e).present
         /\ Inserted(e).id = e.id + 1
         /\ Deleted(e) \in Emails
         /\ [Deleted(e) EXCEPT !.by = None] \in Emails
         /\ ~[Deleted(e) EXCEPT !.by = None].present
         /\ [Deleted(e) EXCEPT !.by = None].by = None
<1>1. e.id + 1 \in Nat
  BY DEF Emails
<1>2. Inserted(e) \in Emails
  BY <1>1 DEF Emails, Inserted
<1>3. Deleted(e) \in Emails
  BY DEF Emails, Deleted
<1> QED BY <1>2, <1>3 DEF Emails, Inserted, Deleted

LEMMA AccountRow ==
  ASSUME NEW x \in Accounts
  PROVE  /\ [x EXCEPT !.token = @ + 1, !.configured = TRUE] \in Accounts
         /\ [x EXCEPT !.aged = TRUE] \in Accounts
         /\ [x EXCEPT !.plan = "running", !.aged = FALSE] \in Accounts
         /\ \A token \in Nat : [x EXCEPT !.bad = @ \cup {token}] \in Accounts
<1>1. [x EXCEPT !.token = @ + 1, !.configured = TRUE] \in Accounts
  <2>1. x.token + 1 \in Nat
    BY DEF Accounts
  <2> QED BY <2>1 DEF Accounts
<1>2. [x EXCEPT !.aged = TRUE] \in Accounts
  BY DEF Accounts
<1>3. [x EXCEPT !.plan = "running", !.aged = FALSE] \in Accounts
  BY DEF Accounts
<1>4. ASSUME NEW token \in Nat PROVE [x EXCEPT !.bad = @ \cup {token}] \in Accounts
  <2>1. x.bad \cup {token} \in SUBSET Nat
    BY DEF Accounts
  <2> QED BY <2>1 DEF Accounts
<1> QED BY <1>1, <1>2, <1>3, <1>4

LEMMA ProxyRow ==
  ASSUME NEW x \in Leasable
  PROVE  [x EXCEPT !.present = TRUE, !.enabled = TRUE] \in Leasable
  BY DEF Leasable

LEMMA InitTyped == Init => DeskTyped
<1> SUFFICES ASSUME Init PROVE DeskTyped
  OBVIOUS
<1> USE DeskAssumption DEF Init, DeskInit
<1>1. RowsTyped
  <2>1. account \in [Pool -> Accounts]
    <3>1. /\ NoAccount \in Accounts
          /\ [NoAccount EXCEPT !.id = 1, !.present = TRUE, !.by = "page",
                               !.token = 1, !.configured = TRUE] \in Accounts
      BY DEF Accounts, NoAccount
    <3> QED BY <3>1
  <2>2. email \in [Pool -> Emails]
    <3>1. NoEmail \in Emails
      BY DEF Emails, NoEmail
    <3>2. Inserted(NoEmail) \in Emails
      BY <3>1, EmailRow
    <3> QED BY <3>1, <3>2
  <2>3. proxy \in [Proxies -> Leasable]
    BY DEF Leasable
  <2> QED BY <2>1, <2>2, <2>3 DEF RowsTyped
<1>2. ActorsTyped
  BY DEF ActorsTyped, Registering, Checking, NoRun, NoCheck
<1>3. Placed
  BY DEF Placed, NoRun, NoCheck, AtWork, Holding, Answers
<1> QED BY <1>1, <1>2, <1>3 DEF DeskTyped

------------------------------------------------------------------------------
(* What the rows become.                                                   *)

LEMMA NewAccountRow ==
  ASSUME DeskTyped, NEW a \in Pool, NEW by \in Runs \cup {"page"}
  PROVE /\ NewAccount(a, by) \in [Pool -> Accounts]
        /\ \A b \in Pool \ {a} : NewAccount(a, by)[b] = account[b]
        /\ NewAccount(a, by)[a].id = account[a].id + 1
        /\ NewAccount(a, by)[a].present
        /\ ~NewAccount(a, by)[a].configured
        /\ NewAccount(a, by)[a].token = 0
<1> DEFINE fresh == [NoAccount EXCEPT !.id = account[a].id + 1, !.present = TRUE,
                                      !.by = by]
<1>1. account \in [Pool -> Accounts] /\ account[a].id \in Nat
  BY DEF DeskTyped, RowsTyped, Accounts
<1>2. /\ fresh.id = account[a].id + 1 /\ fresh.present /\ ~fresh.configured
      /\ fresh.token = 0
  BY DEF NoAccount
<1>3. fresh \in Accounts
  <2>1. NoAccount \in Accounts
    BY DEF Accounts, NoAccount
  <2>2. account[a].id + 1 \in Nat /\ by \in Runs \cup {"page", None}
    BY <1>1
  <2> QED BY <2>1, <2>2 DEF Accounts
<1>4. NewAccount(a, by) = [account EXCEPT ![a] = fresh]
  BY DEF NewAccount
<1> HIDE DEF fresh
<1> QED BY <1>1, <1>2, <1>3, <1>4

LEMMA PlanStoredRow ==
  ASSUME DeskTyped, NEW c \in Checks, check[c].a \in Pool, NEW outcome \in Answers
  PROVE /\ PlanStored(c, outcome) \in [Pool -> Accounts]
        /\ \A b \in Pool \ {check[c].a} : PlanStored(c, outcome)[b] = account[b]
        /\ \A b \in Pool :
             /\ PlanStored(c, outcome)[b].id = account[b].id
             /\ PlanStored(c, outcome)[b].present = account[b].present
             /\ PlanStored(c, outcome)[b].token = account[b].token
             /\ PlanStored(c, outcome)[b].bad = account[b].bad
             /\ PlanStored(c, outcome)[b].configured => account[b].configured
             /\ outcome # "bad" =>
                  PlanStored(c, outcome)[b].configured = account[b].configured
        /\ ~Is(account[check[c].a], check[c].id) => PlanStored(c, outcome) = account
<1> DEFINE a == check[c].a
           plan0 == IF outcome = "success" THEN "success" ELSE "failed"
           stored == [account[a] EXCEPT !.plan = plan0,
                                        !.configured = @ /\ outcome # "bad"]
<1>1. account \in [Pool -> Accounts] /\ account[a] \in Accounts
  BY DEF DeskTyped, RowsTyped
<1>2. CASE ~Is(account[a], check[c].id)
  <2>1. PlanStored(c, outcome) = account
    BY <1>2 DEF PlanStored
  <2> QED BY <1>1, <1>2, <2>1
<1>3. CASE Is(account[a], check[c].id)
  <2>1. PlanStored(c, outcome) = [account EXCEPT ![a] = stored]
    <3>1. PlanStored(c, outcome) =
            [account EXCEPT ![a].plan = plan0, ![a].configured = @ /\ outcome # "bad"]
      BY <1>3 DEF PlanStored
    <3> QED BY <1>1, <3>1 DEF Accounts
  <2>2. stored \in Accounts
    BY <1>1 DEF Accounts
  <2>3. /\ stored.id = account[a].id /\ stored.present = account[a].present
        /\ stored.token = account[a].token /\ stored.bad = account[a].bad
    BY <1>1 DEF Accounts
  <2>4. stored.configured = (account[a].configured /\ outcome # "bad")
    BY <1>1 DEF Accounts
  <2>5. /\ stored.configured => account[a].configured
        /\ outcome # "bad" => stored.configured = account[a].configured
    <3>1. account[a].configured \in BOOLEAN
      BY <1>1 DEF Accounts
    <3> HIDE DEF stored
    <3> QED BY <2>4, <3>1
  <2> HIDE DEF stored
  <2>6. \A b \in Pool : PlanStored(c, outcome)[b] = IF b = a THEN stored ELSE account[b]
    BY <1>1, <2>1
  <2>7. PlanStored(c, outcome) \in [Pool -> Accounts]
    BY <1>1, <2>1, <2>2
  <2> QED BY <1>3, <2>3, <2>5, <2>6, <2>7
<1> QED BY <1>2, <1>3

LEMMA EmailMoves ==
  ASSUME DeskTyped, NEW a \in Pool
  PROVE  /\ Freed(a) \in [Pool -> Emails] /\ DeletedEmail(a) \in [Pool -> Emails]
         /\ \A b \in Pool \ {a} : Freed(a)[b] = email[b] /\ DeletedEmail(a)[b] = email[b]
         /\ Freed(a)[a].by = None
         /\ ~DeletedEmail(a)[a].present
<1>1. email \in [Pool -> Emails] /\ email[a] \in Emails
  BY DEF DeskTyped, RowsTyped
<1>2. DeletedEmail(a) = [email EXCEPT ![a] = [Deleted(email[a]) EXCEPT !.by = None]]
  BY DEF DeletedEmail
<1>3. [Deleted(email[a]) EXCEPT !.by = None] \in Emails
  BY <1>1, EmailRow
<1>4. ~[Deleted(email[a]) EXCEPT !.by = None].present
  BY <1>1, EmailRow
<1>5. DeletedEmail(a)[a] = [Deleted(email[a]) EXCEPT !.by = None]
  BY <1>1, <1>2
<1>6. /\ DeletedEmail(a) \in [Pool -> Emails]
      /\ \A b \in Pool \ {a} : DeletedEmail(a)[b] = email[b]
  BY <1>1, <1>2, <1>3
<1>7. /\ Freed(a) \in [Pool -> Emails]
      /\ \A b \in Pool \ {a} : Freed(a)[b] = email[b]
      /\ Freed(a)[a].by = None
  BY <1>1 DEF Freed, Emails
<1> QED BY <1>4, <1>5, <1>6, <1>7

(* One field of a record is changed.                                       *)
LEMMA RunPlace ==
  ASSUME DeskTyped, NEW r \in Runs, NEW place \in {"idle", "lists", "tries"} \cup Holding
  PROVE  [run[r] EXCEPT !.pc = place] \in Registering
  BY DEF DeskTyped, ActorsTyped, Registering, Holding

------------------------------------------------------------------------------
(* What a run's step leaves of the types.                                  *)

LEMMA RunTyped ==
  ASSUME DeskTyped, NEW r \in Runs, StartRun(r) \/ RunStep(r)
  PROVE  DeskTyped'
<1> USE DEF DeskTyped, RowsTyped, ActorsTyped
<1>0. NoRun \in Registering
  BY DEF NoRun, Registering
<1> USE <1>0 DEF rows, desk, Placed, AtWork
<1>1. CASE StartRun(r)
  <2>1. RowsTyped'
    BY <1>1 DEF StartRun, Emails
  <2>2. run' \in [Runs -> Registering]
    <3>1. Registered \in SUBSET Pool
      BY DEF Registered
    <3>2. [run[r] EXCEPT !.pc = "lists", !.registered = Registered] \in Registering
      BY <3>1 DEF Registering
    <3>3. run' = [run EXCEPT ![r] = [run[r] EXCEPT !.pc = "lists", !.registered = Registered]]
      BY <1>1 DEF StartRun, Registering
    <3> QED BY <3>2, <3>3
  <2>3. Placed'
    BY <1>1 DEF StartRun, Registering, NoRun, Holding
  <2> QED BY <1>1, <2>1, <2>2, <2>3 DEF StartRun
<1>2. CASE Lists(r)
  <2>1. RowsTyped'
    BY <1>2 DEF Lists, Available, Emails
  <2>2. run' \in [Runs -> Registering]
    <3> DEFINE found == {<<a, email[a].id>> : a \in {b \in Pool \ run[r].registered : Available(b)}}
               listed == [run[r] EXCEPT !.pc = "tries", !.candidates = found]
    <3>1. found \in SUBSET (Pool \X Nat)
      BY DEF Emails
    <3>2. run' = [run EXCEPT ![r] = listed]
      <4>1. run' = [run EXCEPT ![r].pc = "tries", ![r].candidates = found]
        BY <1>2 DEF Lists
      <4> HIDE DEF found
      <4> QED BY <4>1 DEF Registering
    <3>3. listed \in Registering
      <4> HIDE DEF found
      <4> QED BY <3>1 DEF Registering
    <3> HIDE DEF listed
    <3> QED BY <3>2, <3>3
  <2>3. Placed'
    BY <1>2 DEF Lists, Available, Registering, NoRun, Holding
  <2> QED BY <1>2, <2>1, <2>2, <2>3 DEF Lists
<1>3. ASSUME NEW c \in run[r].candidates, Tries(r, c) PROVE DeskTyped'
  <2>1. c \in Pool \X Nat /\ c[1] \in Pool /\ c[2] \in Nat
    BY DEF Registering
  <2>2. CASE Takes(r, c)
    <3>1. /\ email' = [email EXCEPT ![c[1]].by = r]
          /\ run' = [run EXCEPT ![r] = [NoRun EXCEPT !.pc = "holds", !.a = c[1], !.id = c[2]]]
          /\ UNCHANGED <<account, proxy, check, desk>>
      BY <1>3, <2>2 DEF Tries
    <3>2. RowsTyped'
      BY <2>1, <3>1 DEF Emails
    <3>3. [NoRun EXCEPT !.pc = "holds", !.a = c[1], !.id = c[2]] \in Registering
      BY <2>1 DEF Registering, Holding
    <3>4. ActorsTyped'
      BY <3>1, <3>3
    <3>5. Placed'
      BY <2>1, <3>1 DEF NoRun
    <3> QED BY <3>2, <3>4, <3>5
  <2>3. CASE ~Takes(r, c)
    <3>1. /\ run' = [run EXCEPT ![r].candidates = @ \ {c}]
          /\ UNCHANGED <<account, email, proxy, check, desk>>
      BY <1>3, <2>3 DEF Tries
    <3>2. ActorsTyped'
      BY <3>1 DEF Registering
    <3>3. Placed'
      BY <3>1 DEF Registering
    <3> QED BY <3>1, <3>2, <3>3
  <2> QED BY <2>2, <2>3
<1>4. CASE ComesShort(r)
  <2>1. RowsTyped'
    BY <1>4 DEF ComesShort, RunEnds, Emails
  <2>2. run' \in [Runs -> Registering]
    BY <1>4 DEF ComesShort, RunEnds, Registering, Holding
  <2>3. Placed'
    BY <1>4 DEF ComesShort, RunEnds, Registering, NoRun, Holding
  <2> QED BY <1>4, <2>1, <2>2, <2>3 DEF ComesShort
<1>5. CASE BeginsWork(r)
  <2>1. RowsTyped'
    BY <1>5 DEF BeginsWork, RunEnds, RunGoes, Emails
  <2>2. run' \in [Runs -> Registering]
    BY <1>5 DEF BeginsWork, RunEnds, RunGoes, Registering, Holding
  <2>3. Placed'
    BY <1>5 DEF BeginsWork, RunEnds, RunGoes, Registering, NoRun, Holding
  <2> QED BY <1>5, <2>1, <2>2, <2>3 DEF BeginsWork
<1>6. CASE Gives(r)
  <2>1. RowsTyped'
    BY <1>6 DEF Gives, RunEnds, Freed, Emails
  <2>2. run' \in [Runs -> Registering]
    BY <1>6 DEF Gives, RunEnds, Freed, Registering, Holding
  <2>3. Placed'
    BY <1>6 DEF Gives, RunEnds, Freed, Registering, NoRun, Holding
  <2> QED BY <1>6, <2>1, <2>2, <2>3 DEF Gives
<1>7. CASE Registers(r)
  <2>1. RowsTyped'
    <3>1. run[r].a \in Pool
      BY <1>7 DEF Registers, Holding
    <3>2. NewAccount(run[r].a, r) \in [Pool -> Accounts]
      BY <3>1, NewAccountRow
    <3> QED BY <1>7, <3>2 DEF Registers, Upserted
  <2>2. run' \in [Runs -> Registering]
    BY <1>7 DEF Registers, RunGoes, Upserted, Registering, Holding
  <2>3. Placed'
    BY <1>7 DEF Registers, RunGoes, Upserted, Registering, NoRun, Holding
  <2> QED BY <1>7, <2>1, <2>2, <2>3 DEF Registers
<1>8. CASE Consumes(r)
  <2>1. RowsTyped'
    <3>1. run[r].a \in Pool
      BY <1>8 DEF Consumes, Holding
    <3>2. /\ Freed(run[r].a) \in [Pool -> Emails]
          /\ DeletedEmail(run[r].a) \in [Pool -> Emails]
      BY <3>1, EmailMoves
    <3> QED BY <1>8, <3>2 DEF Consumes
  <2>2. run' \in [Runs -> Registering]
    BY <1>8 DEF Consumes, RunEnds, DeletedEmail, Deleted, Registering, Holding
  <2>3. Placed'
    BY <1>8 DEF Consumes, RunEnds, DeletedEmail, Deleted, Registering, NoRun, Holding
  <2> QED BY <1>8, <2>1, <2>2, <2>3 DEF Consumes
<1>9. CASE Reconciles(r)
  <2>1. RowsTyped'
    BY <1>9 DEF Reconciles, Emails
  <2>2. run' \in [Runs -> Registering]
    <3>1. CASE Owns(r)
      <4>1. run[r].a \in Pool
        BY <1>9 DEF Reconciles, Holding
      <4>2. account[run[r].a].present \in BOOLEAN
        BY <4>1 DEF Accounts
      <4>3. run' = [run EXCEPT ![r].pc = "settles", ![r].found = account[run[r].a].present]
        BY <1>9, <3>1 DEF Reconciles
      <4>4. [run[r] EXCEPT !.pc = "settles", !.found = account[run[r].a].present]
              \in Registering
        BY <4>2 DEF Registering, Holding
      <4>5. run' = [run EXCEPT ![r] = [run[r] EXCEPT !.pc = "settles",
                                                    !.found = account[run[r].a].present]]
        BY <4>3 DEF Registering
      <4> QED BY <4>4, <4>5
    <3>2. CASE ~Owns(r)
      BY <1>9, <3>2 DEF Reconciles
    <3> QED BY <3>1, <3>2
  <2>3. Placed'
    BY <1>9 DEF Reconciles, Registering, NoRun, Holding
  <2> QED BY <1>9, <2>1, <2>2, <2>3 DEF Reconciles
<1>10. CASE Settles(r)
  <2>1. RowsTyped'
    <3>1. run[r].a \in Pool
      BY <1>10 DEF Settles, Holding
    <3>2. /\ Freed(run[r].a) \in [Pool -> Emails]
          /\ DeletedEmail(run[r].a) \in [Pool -> Emails]
      BY <3>1, EmailMoves
    <3> QED BY <1>10, <3>2 DEF Settles
  <2>2. run' \in [Runs -> Registering]
    BY <1>10 DEF Settles, RunEnds, DeletedEmail, Deleted, Freed, Registering, Holding
  <2>3. Placed'
    BY <1>10 DEF Settles, RunEnds, DeletedEmail, Deleted, Freed, Registering, NoRun, Holding
  <2> QED BY <1>10, <2>1, <2>2, <2>3 DEF Settles
<1> QED BY <1>1, <1>2, <1>3, <1>4, <1>5, <1>6, <1>7, <1>8, <1>9, <1>10 DEF RunStep

------------------------------------------------------------------------------
(* What the pages, the plan checks, time and a restart leave of the types.  *)

LEMMA PageTyped ==
  ASSUME DeskTyped, NEW a \in Pool,
         \/ a \in importer.todo /\ Looks(a)
         \/ Upserts \/ DeleteSource \/ DeleteEmail(a) \/ CreateAccount(a) \/ DeleteAccounts(a)
         \/ Renews(a) \/ ClaimAges(a) \/ \E todo \in SUBSET Pool : Import(todo)
  PROVE  DeskTyped'
<1> USE DEF DeskTyped, RowsTyped, ActorsTyped, rows, desk, Placed, AtWork
<1>1. ASSUME NEW todo \in SUBSET Pool, Import(todo) PROVE DeskTyped'
  BY <1>1 DEF Import
<1>2. CASE a \in importer.todo /\ Looks(a)
  BY <1>2 DEF Looks
<1>3. CASE Upserts
  <2> DEFINE at == importer.at
  <2>1. email' \in [Pool -> Emails]
    <3>1. CASE email[at].present
      BY <1>3, <3>1 DEF Upserts
    <3>2. CASE ~email[at].present /\ at \in Pool
      <4>1. email' = [email EXCEPT ![at] = Inserted(email[at])]
        BY <1>3, <3>2 DEF Upserts
      <4>2. Inserted(email[at]) \in Emails
        BY <3>2, EmailRow
      <4> QED BY <4>1, <4>2
    <3>3. CASE ~email[at].present /\ at \notin Pool
      BY <1>3, <3>3 DEF Upserts
    <3> QED BY <3>1, <3>2, <3>3
  <2> QED BY <1>3, <2>1 DEF Upserts
<1>4. CASE DeleteSource
  <2>1. email' \in [Pool -> Emails]
    <3>1. CASE Is(email[creator.a], creator.id)
      <4>1. creator.a \in Pool /\ email' = DeletedEmail(creator.a)
        BY <1>4, <3>1 DEF DeleteSource
      <4> QED BY <4>1, EmailMoves
    <3>2. CASE ~Is(email[creator.a], creator.id)
      BY <1>4, <3>2 DEF DeleteSource
    <3> QED BY <3>1, <3>2
  <2> QED BY <1>4, <2>1 DEF DeleteSource
<1>5. CASE DeleteEmail(a)
  <2>1. email' \in [Pool -> Emails]
    BY <1>5, EmailMoves DEF DeleteEmail
  <2> QED BY <1>5, <2>1 DEF DeleteEmail
<1>6. CASE CreateAccount(a)
  <2>1. account' \in [Pool -> Accounts]
    BY <1>6, NewAccountRow DEF CreateAccount
  <2>2. creator' \in [a : Pool \cup {None}, id : Nat]
    BY <1>6 DEF CreateAccount, Emails
  <2> QED BY <1>6, <2>1, <2>2 DEF CreateAccount
<1>7. CASE DeleteAccounts(a)
  <2>1. [NoAccount EXCEPT !.id = account[a].id] \in Accounts
    <3>1. NoAccount \in Accounts
      BY DEF NoAccount, Accounts
    <3> QED BY <3>1 DEF Accounts
  <2>2. account' = [account EXCEPT ![a] = [NoAccount EXCEPT !.id = account[a].id]]
    BY <1>7 DEF DeleteAccounts
  <2>3. account' \in [Pool -> Accounts]
    BY <2>1, <2>2
  <2> QED BY <1>7, <2>3 DEF DeleteAccounts
<1>8. CASE Renews(a)
  <2>1. account' \in [Pool -> Accounts]
    <3>1. account' = [account EXCEPT ![a] = [account[a] EXCEPT !.token = @ + 1, !.configured = TRUE]]
      BY <1>8 DEF Renews, Accounts
    <3>2. [account[a] EXCEPT !.token = @ + 1, !.configured = TRUE] \in Accounts
      BY AccountRow
    <3> QED BY <3>1, <3>2
  <2> QED BY <1>8, <2>1 DEF Renews
<1>9. CASE ClaimAges(a)
  <2>1. account' \in [Pool -> Accounts]
    <3>1. account' = [account EXCEPT ![a] = [account[a] EXCEPT !.aged = TRUE]]
      BY <1>9 DEF ClaimAges, Accounts
    <3>2. [account[a] EXCEPT !.aged = TRUE] \in Accounts
      BY AccountRow
    <3> QED BY <3>1, <3>2
  <2> QED BY <1>9, <2>1 DEF ClaimAges
<1> QED BY <1>1, <1>2, <1>3, <1>4, <1>5, <1>6, <1>7, <1>8, <1>9

LEMMA CheckTyped ==
  ASSUME DeskTyped, NEW c \in Checks, \/ CheckStep(c) \/ CallFails(c) \/ \E a \in Pool : Claims(c, a)
  PROVE  DeskTyped'
<1> USE DEF DeskTyped, RowsTyped, ActorsTyped, rows, desk, Placed, AtWork
<1>0. NoCheck \in Checking
  BY DEF NoCheck, Checking
<1> USE <1>0
<1>1. ASSUME NEW a \in Pool, Claims(c, a) PROVE DeskTyped'
  <2>1. account' \in [Pool -> Accounts]
    <3>1. account' = [account EXCEPT ![a] = [account[a] EXCEPT !.plan = "running", !.aged = FALSE]]
      BY <1>1 DEF Claims, Accounts
    <3>2. [account[a] EXCEPT !.plan = "running", !.aged = FALSE] \in Accounts
      BY AccountRow
    <3> QED BY <3>1, <3>2
  <2>2. account[a].id \in Nat /\ account[a].token \in Nat
    BY DEF Accounts
  <2>3. [NoCheck EXCEPT !.pc = "claimed", !.a = a, !.id = account[a].id,
                       !.token = account[a].token] \in Checking
    BY <2>2 DEF Checking
  <2>4. check' = [check EXCEPT ![c] = [NoCheck EXCEPT !.pc = "claimed", !.a = a,
                      !.id = account[a].id, !.token = account[a].token]]
    BY <1>1 DEF Claims
  <2>5. check' \in [Checks -> Checking]
    BY <2>3, <2>4
  <2>6. Placed'
    <3>1. \A d \in Checks \ {c} : check'[d] = check[d]
      BY <2>4
    <3>2. check'[c].a = a /\ check'[c].pc = "claimed"
      BY <2>4 DEF NoCheck
    <3>3. run' = run
      BY <1>1 DEF Claims
    <3> QED BY <3>1, <3>2, <3>3 DEF Answers
  <2> QED BY <1>1, <2>1, <2>5, <2>6 DEF Claims
<1>2. ASSUME NEW p \in Proxies, Leases(c, p) PROVE DeskTyped'
  <2>1. proxy' \in [Proxies -> Leasable]
    BY <1>2 DEF Leases, Leasable
  <2>2. check' \in [Checks -> Checking]
    BY <1>2 DEF Leases, Checking
  <2>3. Placed'
    BY <1>2 DEF Leases, Checking
  <2> QED BY <1>2, <2>1, <2>2, <2>3 DEF Leases
<1>3. CASE NoProxy(c)
  <2>1. check[c].a \in Pool /\ "error" \in Answers
    BY <1>3 DEF NoProxy, Answers
  <2>2. account' \in [Pool -> Accounts]
    BY <1>3, <2>1, PlanStoredRow DEF NoProxy
  <2>3. Placed'
    BY <1>3 DEF NoProxy, NoCheck, Answers
  <2> QED BY <1>3, <2>2, <2>3 DEF NoProxy
<1>4. ASSUME NEW outcome \in Answers, Answered(c, outcome) PROVE DeskTyped'
  <2>1. check[c].a \in Pool /\ check[c].token \in Nat
    BY <1>4 DEF Answered, Checking
  <2>2. account' \in [Pool -> Accounts]
    <3> DEFINE b == check[c].a
    <3>1. CASE outcome = "bad" /\ Is(account[b], check[c].id)
      <4>1. account' = [account EXCEPT ![b] = [account[b] EXCEPT
                          !.bad = @ \cup {check[c].token}]]
        BY <1>4, <2>1, <3>1 DEF Answered, Accounts
      <4>2. [account[b] EXCEPT !.bad = @ \cup {check[c].token}] \in Accounts
        BY <2>1, AccountRow
      <4> QED BY <4>1, <4>2
    <3>2. CASE ~(outcome = "bad" /\ Is(account[b], check[c].id))
      BY <1>4, <3>2 DEF Answered
    <3> QED BY <3>1, <3>2
  <2>3. check' \in [Checks -> Checking]
    BY <1>4 DEF Answered, CheckGoes, Checking
  <2>4. Placed'
    BY <1>4 DEF Answered, CheckGoes, Checking
  <2> QED BY <1>4, <2>2, <2>3, <2>4 DEF Answered
<1>5. CASE Stores(c)
  <2>1. check[c].a \in Pool /\ check[c].p \in Proxies /\ check[c].pc \in Answers
    BY <1>5 DEF Stores, Answers
  <2>2. account' \in [Pool -> Accounts]
    BY <1>5, <2>1, PlanStoredRow DEF Stores
  <2>3. check' \in [Checks -> Checking]
    BY <1>5 DEF Stores, CheckGoes, Checking
  <2>4. Placed'
    BY <1>5, <2>1 DEF Stores, CheckGoes, Checking
  <2> QED BY <1>5, <2>2, <2>3, <2>4 DEF Stores
<1>6. CASE CallFails(c)
  <2>1. CASE check[c].pc \in Answers
    <3>1. check[c].a \in Pool /\ check[c].p \in Proxies /\ "error" \in Answers
      BY <2>1 DEF Answers
    <3>2. CheckGoes(c, "releases") /\ UNCHANGED <<email, proxy, run, desk, histories>>
      BY <1>6, <2>1 DEF CallFails, Answers
    <3>3. account' = account \/ account' = PlanStored(c, "error")
      BY <1>6, <2>1 DEF CallFails, Answers
    <3>4. account' \in [Pool -> Accounts]
      BY <3>1, <3>3, PlanStoredRow
    <3>5. check' \in [Checks -> Checking]
      BY <3>2 DEF CheckGoes, Checking
    <3>6. Placed'
      BY <3>1, <3>2 DEF CheckGoes, Checking
    <3> QED BY <3>2, <3>4, <3>5, <3>6
  <2>2. CASE check[c].pc \in {"claimed", "releases"}
    <3>1. /\ check' = [check EXCEPT ![c] = NoCheck]
          /\ UNCHANGED <<account, email, proxy, run, desk, histories>>
      BY <1>6, <2>2 DEF CallFails, Answers
    <3> QED BY <3>1 DEF NoCheck, Answers
  <2> QED BY <1>6, <2>1, <2>2 DEF CallFails
<1>7. CASE ReleasesProxy(c)
  <2>1. proxy' \in [Proxies -> Leasable]
    BY <1>7 DEF ReleasesProxy, Leasable
  <2> QED BY <1>7, <2>1 DEF ReleasesProxy, NoCheck, Answers
<1> QED BY <1>1, <1>2, <1>3, <1>4, <1>5, <1>6, <1>7 DEF CheckStep

LEMMA RestTyped ==
  ASSUME DeskTyped, \/ DeskRestarts
                \/ \E p \in Proxies : UpdateProxy(p) \/ DeleteProxy(p) \/ ImportProxy(p) \/ LeaseExpires(p)
  PROVE  DeskTyped'
<1> USE DEF DeskTyped, RowsTyped, ActorsTyped, rows, desk, Placed, AtWork
<1>1. CASE DeskRestarts
  <2>1. NoRun \in Registering /\ NoCheck \in Checking
    BY DEF NoRun, NoCheck, Registering, Checking
  <2>2. \A r \in Runs : [run[r] EXCEPT !.pc = "dead", !.found = FALSE] \in Registering
    BY DEF Registering, Holding
  <2>3. run' \in [Runs -> Registering]
    BY <1>1, <2>1, <2>2 DEF DeskRestarts
  <2>4. Placed'
    <3>1. \A r \in Runs : run'[r].pc \in Holding => run'[r].a \in Pool
      <4> SUFFICES ASSUME NEW r \in Runs, run'[r].pc \in Holding PROVE run'[r].a \in Pool
        OBVIOUS
      <4>1. run'[r] # NoRun
        BY DEF NoRun, Holding
      <4>2. /\ run[r].pc \in Holding
            /\ run'[r] = [run[r] EXCEPT !.pc = "dead", !.found = FALSE]
        BY <1>1, <4>1 DEF DeskRestarts, Holds, Holding
      <4> QED BY <4>2 DEF Registering
    <3>2. check' = [c \in Checks |-> NoCheck]
      BY <1>1 DEF DeskRestarts
    <3> QED BY <3>1, <3>2 DEF NoCheck, Answers
  <2> QED BY <1>1, <2>1, <2>3, <2>4 DEF DeskRestarts
<1>2. ASSUME NEW p \in Proxies, UpdateProxy(p) \/ DeleteProxy(p) \/ ImportProxy(p) PROVE DeskTyped'
  <2>1. proxy' \in [Proxies -> Leasable]
    <3>1. CASE UpdateProxy(p)
      BY <3>1 DEF UpdateProxy, Leasable
    <3>2. CASE DeleteProxy(p)
      BY <3>2 DEF DeleteProxy, Leasable
    <3>3. CASE ImportProxy(p)
      <4>1. proxy' = [proxy EXCEPT ![p] = [proxy[p] EXCEPT !.present = TRUE, !.enabled = TRUE]]
        BY <3>3 DEF ImportProxy, Leasable
      <4>2. [proxy[p] EXCEPT !.present = TRUE, !.enabled = TRUE] \in Leasable
        BY ProxyRow
      <4> QED BY <4>1, <4>2
    <3> QED BY <1>2, <3>1, <3>2, <3>3
  <2> QED BY <1>2, <2>1 DEF UpdateProxy, DeleteProxy, ImportProxy
<1>3. ASSUME NEW p \in Proxies, LeaseExpires(p) PROVE DeskTyped'
  <2>1. proxy' \in [Proxies -> Leasable]
    <3>1. proxy' = [proxy EXCEPT ![p] = [proxy[p] EXCEPT !.over = TRUE]]
      BY <1>3 DEF LeaseExpires, Leasable
    <3>2. [proxy[p] EXCEPT !.over = TRUE] \in Leasable
      BY DEF Leasable
    <3> QED BY <3>1, <3>2
  <2>2. \A c \in Checks : [check[c] EXCEPT !.lapsed = @ \/ proxy[p].owner = c] \in Checking
    BY DEF Checking
  <2>3. check' \in [Checks -> Checking]
    BY <1>3, <2>2 DEF LeaseExpires
  <2>4. Placed'
    <3>1. \A c \in Checks : /\ check'[c].pc = check[c].pc
                            /\ check'[c].a = check[c].a /\ check'[c].p = check[c].p
      BY <1>3 DEF LeaseExpires, Checking
    <3>2. run' = run
      BY <1>3 DEF LeaseExpires
    <3> QED BY <3>1, <3>2
  <2> QED BY <1>3, <2>1, <2>3, <2>4 DEF LeaseExpires
<1> QED BY <1>1, <1>2, <1>3

------------------------------------------------------------------------------
(* Runs and addresses.                                                     *)

Undisturbed(r) == run[r].a \notin disturbed

(* A run that has an address has its reservation.                          *)
Reserved == \A r \in Runs : run[r].pc \in Holding /\ Undisturbed(r) => Owns(r)

(* Its address is not registered before it registers it.                   *)
Unregistered ==
  \A r \in Runs : run[r].pc \in {"holds", "works"} /\ Undisturbed(r) =>
    ~account[run[r].a].present

(* A run's registered address that is still its e-mail, to be consumed.    *)
Spent(q, a) ==
  /\ run[q].a = a /\ Owns(q)
  /\ run[q].pc \in {"registers", "dead"} \/ (run[q].pc = "settles" /\ run[q].found)

(* What was registered since a run read the list of registered addresses is  *)
(* no e-mail it could take.                                                *)
Excluded ==
  \A r \in Runs, a \in Pool :
    /\ run[r].pc \in {"lists", "tries"} /\ a \notin run[r].registered
    /\ a \notin disturbed /\ account[a].present
    => ~email[a].present \/ \E q \in Runs : Spent(q, a)

(* A reservation is that of a run that is not through with the address.     *)
Backed ==
  \A r \in Runs, a \in Pool :
    email[a].by = r => run[r].pc \in Holding /\ run[r].a = a /\ Owns(r)

RunInv == Backed /\ Reserved /\ Unregistered /\ Excluded

LEMMA RunInvImpliesTakenOnce == RunInv => TakenOnce
  BY DEF RunInv, Reserved, Unregistered, TakenOnce, Undisturbed, Owns, Holding

LEMMA RunInvInit == Init => RunInv
<1> SUFFICES ASSUME Init PROVE RunInv
  OBVIOUS
<1> USE DEF Init, DeskInit
<1>1. \A a \in Pool : email[a].by \notin Runs
  BY DeskAssumption DEF NoEmail, Inserted
<1> QED BY <1>1 DEF RunInv, Backed, Reserved, Unregistered, Excluded, NoRun, Holding

LEMMA SpentKept ==
  ASSUME NEW q \in Runs, NEW a \in Pool, Spent(q, a), run'[q] = run[q], email'[a] = email[a]
  PROVE  Spent(q, a)'
  BY DEF Spent, Owns, Is

(* Nothing a run looks at has changed.                                     *)
LEMMA RunsUntouched ==
  ASSUME DeskTyped, RunInv, run' = run, email' = email, disturbed' = disturbed,
         \A a \in Pool : account'[a].present = account[a].present
  PROVE  RunInv'
<1>1. \A r \in Runs : Owns(r)' = Owns(r)
  BY DEF Owns, Is
<1>2. Reserved'
  BY <1>1 DEF RunInv, Reserved, Undisturbed
<1>3. Unregistered'
  BY DEF RunInv, Unregistered, Undisturbed, DeskTyped, Placed, Holding
<1>4. Excluded'
  BY <1>1 DEF RunInv, Excluded, Spent
<1>5. Backed'
  BY DEF RunInv, Backed, Owns, Is
<1> QED BY <1>2, <1>3, <1>4, <1>5 DEF RunInv

(* A run lists, or is through: what it had is given back or consumed.      *)
LEMMA RunLetsGo ==
  ASSUME DeskTyped, RunInv, NEW r \in Runs,
         \A q \in Runs \ {r} : run'[q] = run[q],
         disturbed' = disturbed, account' = account,
         \A a \in Pool : email[a].by # r => email'[a] = email[a],
         \A a \in Pool : email[a].by = r =>
           email'[a].by = None /\ (email'[a].present => email[a].present),
         \A a \in Pool : Spent(r, a) => ~email'[a].present,
         run'[r].pc \in {"idle", "lists", "tries"},
         run'[r].pc \in {"lists", "tries"} =>
           \/ run'[r].registered = Registered
           \/ run[r].pc \in {"lists", "tries"} /\ run'[r].registered = run[r].registered
  PROVE  RunInv'
<1>1. Reserved'
  <2> SUFFICES ASSUME NEW q \in Runs, run'[q].pc \in Holding, run'[q].a \notin disturbed'
               PROVE  Owns(q)'
    BY DEF Reserved, Undisturbed
  <2>1. q # r /\ run'[q] = run[q]
    BY DEF Holding
  <2>2. run[q].a \in Pool /\ Owns(q)
    BY <2>1 DEF DeskTyped, Placed, RunInv, Reserved, Undisturbed
  <2>3. email'[run[q].a] = email[run[q].a]
    BY <2>1, <2>2 DEF Owns
  <2> QED BY <2>1, <2>2, <2>3 DEF Owns, Is
<1>2. Unregistered'
  BY DEF RunInv, Unregistered, Undisturbed
<1>3. Excluded'
  <2> SUFFICES ASSUME NEW q \in Runs, NEW a \in Pool, run'[q].pc \in {"lists", "tries"},
                      a \notin run'[q].registered, a \notin disturbed, account[a].present,
                      email'[a].present
               PROVE  \E s \in Runs : Spent(s, a)'
    BY DEF Excluded
  <2>1. run[q].pc \in {"lists", "tries"} /\ a \notin run[q].registered
    BY DEF Registered
  <2>2. email[a].present
    OBVIOUS
  <2>3. PICK s \in Runs : Spent(s, a)
    BY <2>1, <2>2 DEF RunInv, Excluded
  <2>4. s # r
    BY <2>3
  <2>5. email'[a] = email[a]
    BY <2>3, <2>4 DEF Spent, Owns
  <2> QED BY <2>3, <2>4, <2>5, SpentKept
<1>4. Backed'
  <2> SUFFICES ASSUME NEW q \in Runs, NEW a \in Pool, email'[a].by = q
               PROVE  run'[q].pc \in Holding /\ run'[q].a = a /\ Owns(q)'
    BY DEF Backed
  <2>1. q # None
    BY DeskAssumption
  <2>2. email[a].by # r /\ email'[a] = email[a]
    BY <2>1
  <2>3. q # r /\ run'[q] = run[q]
    BY <2>2
  <2>4. run[q].pc \in Holding /\ run[q].a = a /\ Owns(q)
    BY <2>2 DEF RunInv, Backed
  <2> QED BY <2>2, <2>3, <2>4 DEF Owns, Is
<1> QED BY <1>1, <1>2, <1>3, <1>4 DEF RunInv

(* A run goes on with the address it has, and the e-mails stay.            *)
LEMMA RunGoesOn ==
  ASSUME DeskTyped, RunInv, NEW r \in Runs, run[r].pc \in Holding, run'[r].pc \in Holding,
         \A q \in Runs \ {r} : run'[q] = run[q],
         run'[r].a = run[r].a, run'[r].id = run[r].id,
         disturbed' = disturbed, email' = email,
         \A a \in Pool \ {run[r].a} : account'[a].present = account[a].present,
         Undisturbed(r) /\ account'[run[r].a].present /\ Owns(r) =>
           Spent(r, run[r].a)' \/ (account[run[r].a].present /\ ~Spent(r, run[r].a)),
         Undisturbed(r) /\ run'[r].pc \in {"holds", "works"} =>
           run[r].pc \in {"holds", "works"} /\ ~account'[run[r].a].present
  PROVE  RunInv'
<1>1. \A q \in Runs : Owns(q)' = Owns(q)
  BY DEF Owns, Is
<1>2. Reserved'
  BY <1>1 DEF RunInv, Reserved, Undisturbed
<1>3. Backed'
  <2> SUFFICES ASSUME NEW q \in Runs, NEW a \in Pool, email[a].by = q
               PROVE  run'[q].pc \in Holding /\ run'[q].a = a /\ Owns(q)'
    BY DEF Backed
  <2> QED BY <1>1 DEF RunInv, Backed
<1>4. Unregistered'
  <2> SUFFICES ASSUME NEW q \in Runs, run'[q].pc \in {"holds", "works"}, run'[q].a \notin disturbed
               PROVE  ~account'[run'[q].a].present
    BY DEF Unregistered, Undisturbed
  <2>1. CASE q = r
    BY <2>1 DEF Undisturbed
  <2>2. CASE q # r
    <3>1. run'[q] = run[q] /\ run[q].a \in Pool /\ Owns(q)
      BY <2>2 DEF DeskTyped, Placed, RunInv, Reserved, Undisturbed, Holding
    <3>2. run[r].a # run[q].a
      BY <2>2, <3>1 DEF RunInv, Reserved, Undisturbed, Owns
    <3> QED BY <3>1, <3>2 DEF RunInv, Unregistered, Undisturbed
  <2> QED BY <2>1, <2>2
<1>5. Excluded'
  <2> SUFFICES ASSUME NEW q \in Runs, NEW a \in Pool, run'[q].pc \in {"lists", "tries"},
                      a \notin run'[q].registered, a \notin disturbed, account'[a].present,
                      email[a].present
               PROVE  \E s \in Runs : Spent(s, a)'
    BY DEF Excluded
  <2>1. q # r /\ run'[q] = run[q]
    BY DEF Holding
  <2>2. CASE a = run[r].a
    <3>1. Owns(r)
      BY <2>2 DEF RunInv, Reserved, Undisturbed
    <3>2. CASE Spent(r, run[r].a)'
      BY <2>2, <3>2
    <3>3. CASE account[a].present /\ ~Spent(r, a)
      <4>1. PICK s \in Runs : Spent(s, a)
        BY <2>1, <3>3 DEF RunInv, Excluded
      <4>2. s # r
        BY <3>3, <4>1
      <4> QED BY <4>1, <4>2, SpentKept
    <3> QED BY <2>2, <3>1, <3>2, <3>3 DEF Undisturbed
  <2>3. CASE a # run[r].a
    <3>1. PICK s \in Runs : Spent(s, a)
      BY <2>1, <2>3 DEF RunInv, Excluded
    <3>2. s # r
      BY <2>3, <3>1 DEF Spent
    <3> QED BY <3>1, <3>2, SpentKept
  <2> QED BY <2>2, <2>3
<1> QED BY <1>2, <1>3, <1>4, <1>5 DEF RunInv

(* A run takes a candidate.                                                *)
LEMMA RunTakes ==
  ASSUME DeskTyped, RunInv, NEW r \in Runs, NEW c \in run[r].candidates, Tries(r, c), Takes(r, c)
  PROVE  RunInv'
<1>0. c[1] \in Pool /\ c[2] \in Nat
  BY DEF DeskTyped, ActorsTyped, Registering
<1> DEFINE b == c[1]
<1>1. /\ run[r].pc = "tries" /\ b \notin run[r].registered
      /\ email[b].present /\ email[b].id = c[2] /\ email[b].by = None
  BY DEF Tries, Takes, Is, Available
<1>2. /\ \A q \in Runs \ {r} : run'[q] = run[q]
      /\ run'[r].pc = "holds" /\ run'[r].a = b /\ run'[r].id = c[2]
  <2>1. run' = [run EXCEPT ![r] = [NoRun EXCEPT !.pc = "holds", !.a = c[1], !.id = c[2]]]
    BY DEF Tries
  <2> QED BY <2>1 DEF DeskTyped, ActorsTyped, NoRun
<1>3. /\ \A a \in Pool \ {b} : email'[a] = email[a]
      /\ email'[b].present /\ email'[b].id = c[2] /\ email'[b].by = r
  <2>1. email' = [email EXCEPT ![c[1]].by = r]
    BY DEF Tries
  <2> QED BY <1>0, <1>1, <2>1 DEF DeskTyped, RowsTyped, Emails
<1>4. account' = account /\ disturbed' = disturbed
  BY DEF Tries, histories
<1> HIDE DEF b
<1>5. \A q \in Runs : run[q].pc \in Holding /\ Owns(q) =>
        /\ q # r /\ run[q].a \in Pool /\ run[q].a # b /\ run'[q] = run[q]
        /\ email'[run[q].a] = email[run[q].a]
  BY <1>1, <1>2, <1>3, DeskAssumption DEF DeskTyped, Placed, Owns, Holding
<1>6. Owns(r)'
  BY <1>2, <1>3 DEF Owns, Is
<1>7. Reserved'
  <2> SUFFICES ASSUME NEW q \in Runs, run'[q].pc \in Holding, run'[q].a \notin disturbed
               PROVE  Owns(q)'
    BY <1>4 DEF Reserved, Undisturbed
  <2>1. CASE q # r
    BY <1>2, <1>5, <2>1 DEF RunInv, Reserved, Undisturbed, Owns, Is
  <2> QED BY <1>6, <2>1
<1>8. Backed'
  <2> SUFFICES ASSUME NEW q \in Runs, NEW a \in Pool, email'[a].by = q
               PROVE  run'[q].pc \in Holding /\ run'[q].a = a /\ Owns(q)'
    BY DEF Backed
  <2>1. CASE a = b
    BY <1>2, <1>3, <1>6, <2>1 DEF Holding
  <2>2. CASE a # b
    BY <1>3, <1>5, <2>2 DEF RunInv, Backed, Owns, Is
  <2> QED BY <2>1, <2>2
<1>9. b \notin disturbed => ~account[b].present
  <2> SUFFICES ASSUME b \notin disturbed, account[b].present PROVE FALSE
    OBVIOUS
  <2>1. PICK s \in Runs : Spent(s, b)
    BY <1>0, <1>1 DEF RunInv, Excluded, b
  <2> QED BY <1>1, <2>1, DeskAssumption DEF Spent, Owns
<1>10. Unregistered'
  BY <1>2, <1>4, <1>9 DEF RunInv, Unregistered, Undisturbed
<1>11. Excluded'
  <2> SUFFICES ASSUME NEW q \in Runs, NEW a \in Pool, run'[q].pc \in {"lists", "tries"},
                      a \notin run'[q].registered, a \notin disturbed, account[a].present,
                      email'[a].present
               PROVE  \E s \in Runs : Spent(s, a)'
    BY <1>4 DEF Excluded
  <2>1. q # r /\ run'[q] = run[q]
    BY <1>2
  <2>2. CASE a # b
    <3>1. PICK s \in Runs : Spent(s, a)
      BY <1>3, <2>1, <2>2 DEF RunInv, Excluded
    <3>2. s # r
      BY <1>1, <3>1 DEF Spent
    <3> QED BY <1>2, <1>3, <2>2, <3>1, <3>2, SpentKept
  <2>3. CASE a = b
    BY <1>9, <2>3
  <2> QED BY <2>2, <2>3
<1> QED BY <1>7, <1>8, <1>10, <1>11 DEF RunInv

(* The page changes one address; what a run relies on, it notes.           *)
LEMMA PageMoves ==
  ASSUME DeskTyped, RunInv, NEW b \in Pool, run' = run,
         \A a \in Pool \ {b} :
           /\ email'[a] = email[a] /\ account'[a].present = account[a].present
           /\ a \in disturbed' <=> a \in disturbed,
         b \in disturbed => b \in disturbed',
         email'[b].by \in Runs => email'[b] = email[b],
         b \in disturbed' \/ email'[b] = email[b] \/ email[b].by \notin Runs,
         b \in disturbed' \/ ~account'[b].present
           \/ (account[b].present /\ (email'[b].present => email'[b] = email[b]))
           \/ ~\E r \in Runs : Reaches(r, b)
  PROVE  RunInv'
<1>1. ASSUME NEW q \in Runs, run[q].pc \in Holding, run[q].a \notin disturbed'
      PROVE  Owns(q)'
  <2>1. run[q].a \in Pool /\ Owns(q)
    BY <1>1 DEF DeskTyped, Placed, RunInv, Reserved, Undisturbed
  <2>2. email'[run[q].a] = email[run[q].a]
    BY <1>1, <2>1 DEF Owns
  <2> QED BY <2>1, <2>2 DEF Owns, Is
<1>2. Reserved'
  BY <1>1 DEF Reserved, Undisturbed
<1>3. Backed'
  <2> SUFFICES ASSUME NEW q \in Runs, NEW a \in Pool, email'[a].by = q
               PROVE  run'[q].pc \in Holding /\ run'[q].a = a /\ Owns(q)'
    BY DEF Backed
  <2>1. email'[a] = email[a]
    OBVIOUS
  <2>2. run[q].pc \in Holding /\ run[q].a = a /\ Owns(q)
    BY <2>1 DEF RunInv, Backed
  <2> QED BY <2>1, <2>2 DEF Owns, Is
<1>4. Unregistered'
  <2> SUFFICES ASSUME NEW q \in Runs, run[q].pc \in {"holds", "works"}, run[q].a \notin disturbed'
               PROVE  ~account'[run[q].a].present
    BY DEF Unregistered, Undisturbed
  <2>1. run[q].a \in Pool /\ ~account[run[q].a].present
    BY DEF DeskTyped, Placed, RunInv, Unregistered, Undisturbed, Holding
  <2> QED BY <2>1 DEF Reaches
<1>5. Excluded'
  <2> SUFFICES ASSUME NEW q \in Runs, NEW a \in Pool, run[q].pc \in {"lists", "tries"},
                      a \notin run[q].registered, a \notin disturbed', account'[a].present,
                      email'[a].present
               PROVE  \E s \in Runs : Spent(s, a)'
    BY DEF Excluded
  <2>1. Reaches(q, a) /\ a \notin disturbed
    BY DEF Reaches
  <2>2. account[a].present /\ email'[a] = email[a]
    BY <2>1
  <2>3. PICK s \in Runs : Spent(s, a)
    BY <2>1, <2>2 DEF RunInv, Excluded
  <2> QED BY <2>2, <2>3, SpentKept
<1> QED BY <1>2, <1>3, <1>4, <1>5 DEF RunInv

(* A run that held an address is dead; the others are forgotten.           *)
LEMMA RunsDie ==
  ASSUME DeskTyped, RunInv, DeskRestarts
  PROVE  RunInv'
<1>1. account' = account /\ email' = email /\ disturbed' = disturbed
  BY DEF DeskRestarts, rows, histories
<1>2. \A r \in Runs : run[r].pc \in Holding =>
        run'[r].pc = "dead" /\ run'[r].a = run[r].a /\ run'[r].id = run[r].id
  <2> SUFFICES ASSUME NEW r \in Runs, run[r].pc \in Holding
               PROVE  run'[r].pc = "dead" /\ run'[r].a = run[r].a /\ run'[r].id = run[r].id
    OBVIOUS
  <2>1. run'[r] = [run[r] EXCEPT !.pc = "dead", !.found = FALSE]
    BY DEF DeskRestarts, Holds, Holding
  <2> QED BY <2>1 DEF DeskTyped, ActorsTyped, Registering
<1>3. \A r \in Runs : run[r].pc \notin Holding => run'[r].pc = "idle"
  BY DEF DeskRestarts, Holds, Holding, NoRun
<1>4. \A r \in Runs : run[r].pc \in Holding => Owns(r)' = Owns(r)
  BY <1>1, <1>2 DEF Owns, Is
<1> QED BY <1>1, <1>2, <1>3, <1>4
        DEF RunInv, Reserved, Backed, Unregistered, Excluded, Undisturbed, Holding

LEMMA RunStepKeepsRuns ==
  ASSUME DeskTyped, RunInv, NEW r \in Runs, StartRun(r) \/ RunStep(r)
  PROVE  RunInv'
<1>1. \A a \in Pool : email[a].by = r => run[r].pc \in Holding /\ run[r].a = a /\ Owns(r)
  BY DEF RunInv, Backed
<1>2. \A a \in Pool : Spent(r, a) => run[r].pc \in {"registers", "dead", "settles"}
  BY DEF Spent
<1>3. ASSUME disturbed' = disturbed, account' = account, email' = email,
             \A q \in Runs \ {r} : run'[q] = run[q],
             run[r].pc \notin Holding \/ ~Owns(r),
             run'[r].pc \in {"idle", "lists", "tries"},
             run'[r].pc \in {"lists", "tries"} =>
               \/ run'[r].registered = Registered
               \/ run[r].pc \in {"lists", "tries"} /\ run'[r].registered = run[r].registered
      PROVE  RunInv'
  <2>1. \A a \in Pool : email[a].by # r /\ ~Spent(r, a)
    BY <1>1, <1>3 DEF Spent, Holding
  <2> QED BY <1>3, <2>1, RunLetsGo
<1>4. CASE StartRun(r)
  <2>1. /\ run'[r].pc = "lists" /\ run'[r].registered = Registered /\ run[r].pc = "idle"
        /\ \A q \in Runs \ {r} : run'[q] = run[q]
    BY <1>4 DEF StartRun, DeskTyped, ActorsTyped, Registering
  <2>2. disturbed' = disturbed /\ account' = account /\ email' = email
    BY <1>4 DEF StartRun, rows, histories
  <2> QED BY <1>3, <2>1, <2>2 DEF Holding
<1>5. CASE Lists(r)
  <2>1. /\ run'[r].pc = "tries" /\ run'[r].registered = run[r].registered
        /\ run[r].pc = "lists" /\ \A q \in Runs \ {r} : run'[q] = run[q]
    BY <1>5 DEF Lists, DeskTyped, ActorsTyped, Registering
  <2>2. disturbed' = disturbed /\ account' = account /\ email' = email
    BY <1>5 DEF Lists, rows, histories
  <2> QED BY <1>3, <2>1, <2>2 DEF Holding
<1>6. ASSUME NEW c \in run[r].candidates, Tries(r, c) PROVE RunInv'
  <2>1. CASE Takes(r, c)
    BY <1>6, <2>1, RunTakes
  <2>2. CASE ~Takes(r, c)
    <3>1. /\ run'[r].pc = "tries" /\ run'[r].registered = run[r].registered
          /\ run[r].pc = "tries" /\ \A q \in Runs \ {r} : run'[q] = run[q]
      BY <1>6, <2>2 DEF Tries, DeskTyped, ActorsTyped, Registering
    <3>2. disturbed' = disturbed /\ account' = account /\ email' = email
      BY <1>6, <2>2 DEF Tries, histories
    <3> QED BY <1>3, <3>1, <3>2 DEF Holding
  <2> QED BY <2>1, <2>2
<1>7. CASE ComesShort(r)
  <2>1. /\ run[r].pc = "tries" /\ run'[r].pc = "idle"
        /\ \A q \in Runs \ {r} : run'[q] = run[q]
    BY <1>7 DEF ComesShort, RunEnds, DeskTyped, ActorsTyped, NoRun
  <2>2. \A a \in Pool : email[a].by # r
    BY <1>1, <2>1 DEF Holding
  <2>3. email' = email
    BY <1>7, <2>2 DEF ComesShort, DeskTyped, RowsTyped
  <2>4. disturbed' = disturbed /\ account' = account
    BY <1>7 DEF ComesShort, histories
  <2> QED BY <1>3, <2>1, <2>3, <2>4 DEF Holding
<1>8. CASE BeginsWork(r)
  <2>0. disturbed' = disturbed /\ account' = account /\ email' = email /\ run[r].pc = "holds"
    BY <1>8 DEF BeginsWork, rows, histories
  <2>1. CASE Owns(r)
    <3>1. /\ run'[r].pc = "works" /\ run'[r].a = run[r].a /\ run'[r].id = run[r].id
          /\ \A q \in Runs \ {r} : run'[q] = run[q]
      BY <1>8, <2>1 DEF BeginsWork, RunGoes, DeskTyped, ActorsTyped, Registering
    <3>2. Undisturbed(r) => ~account[run[r].a].present
      BY <2>0 DEF RunInv, Unregistered
    <3> QED BY <2>0, <3>1, <3>2, RunGoesOn DEF Holding
  <2>2. CASE ~Owns(r)
    <3>1. run'[r].pc = "idle" /\ \A q \in Runs \ {r} : run'[q] = run[q]
      BY <1>8, <2>2 DEF BeginsWork, RunEnds, DeskTyped, ActorsTyped, NoRun
    <3> QED BY <1>3, <2>0, <2>2, <3>1
  <2> QED BY <2>1, <2>2
<1>9. ASSUME run[r].pc \in Holding, disturbed' = disturbed, account' = account, RunEnds(r),
             Owns(r) => \/ email' = DeletedEmail(run[r].a)
                        \/ email' = Freed(run[r].a) /\ ~Spent(r, run[r].a),
             ~Owns(r) => email' = email
      PROVE  RunInv'
  <2>1. run'[r].pc = "idle" /\ \A q \in Runs \ {r} : run'[q] = run[q]
    BY <1>9 DEF RunEnds, DeskTyped, ActorsTyped, NoRun
  <2>2. CASE ~Owns(r)
    BY <1>3, <1>9, <2>1, <2>2
  <2>3. CASE Owns(r)
    <3> DEFINE b == run[r].a
    <3>1. b \in Pool /\ email[b].by = r
      BY <1>9, <2>3 DEF DeskTyped, Placed, Owns
    <3>2. /\ \A a \in Pool \ {b} : email'[a] = email[a]
          /\ email'[b].by = None
          /\ email'[b].present => email[b].present
          /\ Spent(r, b) => ~email'[b].present
      <4>1. CASE email' = DeletedEmail(b)
        <5>1. email'[b].by = None
          BY <3>1, <4>1, EmailRow DEF DeletedEmail, DeskTyped, RowsTyped
        <5> QED BY <3>1, <4>1, <5>1, EmailMoves
      <4>2. CASE email' = Freed(b) /\ ~Spent(r, b)
        <5>1. email'[b].present = email[b].present
          BY <3>1, <4>2 DEF Freed, DeskTyped, RowsTyped, Emails
        <5> QED BY <3>1, <4>2, <5>1, EmailMoves
      <4> QED BY <1>9, <2>3, <4>1, <4>2
    <3>3. \A a \in Pool \ {b} : email[a].by # r /\ ~Spent(r, a)
      BY <1>1 DEF Spent
    <3> HIDE DEF b
    <3> QED BY <1>9, <2>1, <3>1, <3>2, <3>3, RunLetsGo
  <2> QED BY <2>2, <2>3
<1>10. CASE Gives(r)
  <2>1. run[r].pc = "works" /\ disturbed' = disturbed /\ account' = account /\ RunEnds(r)
    BY <1>10 DEF Gives, histories
  <2>2. ~Spent(r, run[r].a)
    BY <2>1 DEF Spent
  <2> QED BY <1>9, <1>10, <2>1, <2>2 DEF Gives, Holding
<1>11. CASE Consumes(r)
  <2>1. run[r].pc = "registers" /\ disturbed' = disturbed /\ account' = account /\ RunEnds(r)
    BY <1>11 DEF Consumes, histories
  <2> QED BY <1>9, <1>11, <2>1 DEF Consumes, Holding
<1>12. CASE Settles(r)
  <2>1. run[r].pc = "settles" /\ disturbed' = disturbed /\ account' = account /\ RunEnds(r)
    BY <1>12 DEF Settles, histories
  <2>2. ~run[r].found => ~Spent(r, run[r].a)
    BY <2>1 DEF Spent
  <2> QED BY <1>9, <1>12, <2>1, <2>2 DEF Settles, Holding
<1>13. CASE Registers(r)
  <2>1. run[r].pc = "works" /\ disturbed' = disturbed /\ email' = email /\ run[r].a \in Pool
    BY <1>13 DEF Registers, histories, DeskTyped, Placed, Holding
  <2>2. /\ run'[r].pc = "registers" /\ run'[r].a = run[r].a /\ run'[r].id = run[r].id
        /\ \A q \in Runs \ {r} : run'[q] = run[q]
    BY <1>13 DEF Registers, RunGoes, DeskTyped, ActorsTyped, Registering
  <2>3. \A a \in Pool \ {run[r].a} : account'[a].present = account[a].present
    BY <1>13, <2>1, NewAccountRow DEF Registers, Upserted
  <2>4. Owns(r) => Spent(r, run[r].a)'
    BY <2>1, <2>2 DEF Spent, Owns, Is
  <2> QED BY <2>1, <2>2, <2>3, <2>4, RunGoesOn DEF Holding
<1>14. CASE Reconciles(r)
  <2>0. disturbed' = disturbed /\ account' = account /\ email' = email /\ run[r].pc = "dead"
    BY <1>14 DEF Reconciles, rows, histories
  <2>1. CASE Owns(r)
    <3>1. /\ run'[r].pc = "settles" /\ run'[r].a = run[r].a /\ run'[r].id = run[r].id
          /\ run'[r].found = account[run[r].a].present
          /\ \A q \in Runs \ {r} : run'[q] = run[q]
      BY <1>14, <2>1 DEF Reconciles, DeskTyped, ActorsTyped, Registering
    <3>2. account[run[r].a].present => Spent(r, run[r].a)'
      BY <2>0, <2>1, <3>1 DEF Spent, Owns, Is
    <3> QED BY <2>0, <3>1, <3>2, RunGoesOn DEF Holding
  <2>2. CASE ~Owns(r)
    <3>1. run'[r].pc = "idle" /\ \A q \in Runs \ {r} : run'[q] = run[q]
      BY <1>14, <2>2 DEF Reconciles, DeskTyped, ActorsTyped, NoRun
    <3> QED BY <1>3, <2>0, <2>2, <3>1
  <2> QED BY <2>1, <2>2
<1> QED BY <1>4, <1>5, <1>6, <1>7, <1>8, <1>10, <1>11, <1>12, <1>13, <1>14 DEF RunStep

LEMMA PageStepKeepsRuns ==
  ASSUME DeskTyped, RunInv, NEW a \in Pool,
         \/ Upserts \/ DeleteSource \/ DeleteEmail(a) \/ CreateAccount(a) \/ DeleteAccounts(a)
  PROVE  RunInv'
<1>0. \A b \in Pool : ~email[b].present => email[b].by \notin Runs
  BY DEF RunInv, Backed, Owns, Is
<1>1. CASE Upserts
  <2> DEFINE b == importer.at
  <2>1. account' = account /\ run' = run
    BY <1>1 DEF Upserts
  <2>2. CASE email[b].present \/ b \notin Pool
    <3>1. email' = email
      BY <1>1, <2>2 DEF Upserts, DeskTyped, RowsTyped
    <3>2. CASE disturbed' = disturbed
      BY <2>1, <3>1, <3>2, RunsUntouched
    <3>3. CASE disturbed' # disturbed
      <4>1. b \in Pool
        BY <1>1 DEF Upserts, DeskTyped, ActorsTyped
      <4> QED BY <1>1, <2>2, <3>3, <4>1 DEF Upserts
    <3> QED BY <3>2, <3>3
  <2>3. CASE ~email[b].present /\ b \in Pool
    <3>1. /\ email' = [email EXCEPT ![b] = Inserted(email[b])]
          /\ disturbed' = IF account[b].present THEN disturbed \cup {b} ELSE disturbed
      BY <1>1, <2>3 DEF Upserts
    <3>2. email'[b].by \notin Runs /\ \A d \in Pool \ {b} : email'[d] = email[d]
      BY <1>0, <2>3, <3>1, EmailRow DEF DeskTyped, RowsTyped
    <3>3. /\ b \in disturbed => b \in disturbed'
          /\ \A d \in Pool \ {b} : d \in disturbed' <=> d \in disturbed
          /\ b \in disturbed' \/ ~account[b].present
      BY <3>1
    <3> HIDE DEF b
    <3> QED BY <1>0, <2>1, <2>3, <3>2, <3>3, PageMoves
  <2> QED BY <2>2, <2>3
<1>2. ASSUME NEW b \in Pool, run' = run, account' = account, email' = DeletedEmail(b),
             disturbed' = IF email[b].by # None THEN disturbed \cup {b} ELSE disturbed
      PROVE  RunInv'
  <2>1. /\ \A d \in Pool \ {b} : email'[d] = email[d]
        /\ ~email'[b].present
    BY <1>2, EmailMoves
  <2>2. email'[b].by = None
    BY <1>2, EmailRow DEF DeletedEmail, DeskTyped, RowsTyped
  <2>3. /\ b \in disturbed => b \in disturbed'
        /\ \A d \in Pool \ {b} : d \in disturbed' <=> d \in disturbed
        /\ b \in disturbed' \/ email[b].by \notin Runs
    BY <1>2, DeskAssumption
  <2> QED BY <1>2, <2>1, <2>2, <2>3, PageMoves, DeskAssumption
<1>3. CASE DeleteEmail(a)
  BY <1>2, <1>3 DEF DeleteEmail
<1>4. CASE DeleteSource
  <2>1. CASE Is(email[creator.a], creator.id)
    <3>1. creator.a \in Pool
      BY <1>4 DEF DeleteSource, DeskTyped, ActorsTyped
    <3> QED BY <1>2, <1>4, <2>1, <3>1 DEF DeleteSource
  <2>2. CASE ~Is(email[creator.a], creator.id)
    BY <1>4, <2>2, RunsUntouched DEF DeleteSource
  <2> QED BY <2>1, <2>2
<1>5. CASE CreateAccount(a)
  <2>1. /\ \A d \in Pool \ {a} : account'[d].present = account[d].present
        /\ email' = email /\ run' = run
    BY <1>5, NewAccountRow DEF CreateAccount
  <2>2. /\ a \in disturbed => a \in disturbed'
        /\ \A d \in Pool \ {a} : d \in disturbed' <=> d \in disturbed
        /\ a \in disturbed' \/ ~\E r \in Runs : Reaches(r, a)
    BY <1>5 DEF CreateAccount
  <2> QED BY <2>1, <2>2, PageMoves
<1>6. CASE DeleteAccounts(a)
  <2>1. /\ \A d \in Pool \ {a} : account'[d].present = account[d].present
        /\ ~account'[a].present
        /\ email' = email /\ run' = run /\ disturbed' = disturbed
    BY <1>6 DEF DeleteAccounts, histories, NoAccount, DeskTyped, RowsTyped
  <2> QED BY <2>1, PageMoves
<1> QED BY <1>1, <1>3, <1>4, <1>5, <1>6

------------------------------------------------------------------------------
(* Plan checks and accounts.                                               *)

(* The row a check claimed, when it is still there.                        *)
Claimed(c) == Is(account[check[c].a], check[c].id)

Configured == \A a \in Pool : account[a].configured => account[a].present

(* Ids are issued once: a row that came later has another one.             *)
Issued == \A c \in Checks : AtWork(c) => check[c].id <= account[check[c].a].id

(* A check that asks is known to the others by the account's plan field.   *)
Marked ==
  \A c \in Checks : Asking(c) /\ Claimed(c) /\ check[c].a \notin takenOver =>
    account[check[c].a].plan = "running"
Sole ==
  \A c, d \in Checks :
    c # d /\ Asking(c) /\ Asking(d) /\ check[c].a = check[d].a /\ check[c].id = check[d].id =>
      check[c].a \in takenOver

(* A check asks with the token the account has, or with one that has been    *)
(* renewed since; and what is bad is that token.                           *)
Read(c) ==
  \/ check[c].token = account[check[c].a].token
  \/ check[c].token < account[check[c].a].token /\ check[c].a \in renewed
TokenRead == \A c \in Checks : AtWork(c) /\ Claimed(c) => Read(c)
RefusalKnown ==
  \A c \in Checks : check[c].pc = "bad" /\ Claimed(c) =>
    check[c].token \in account[check[c].a].bad

ClaimInv ==
  Configured /\ Issued /\ Marked /\ Sole /\ TokenRead /\ RefusalKnown /\ TokenKept

LEMMA ClaimInvInit == Init => ClaimInv
<1> SUFFICES ASSUME Init PROVE ClaimInv
  OBVIOUS
<1> USE DEF Init, DeskInit
<1>1. \A c \in Checks : check[c].pc = "idle"
  BY DEF NoCheck
<1>2. \A a \in Pool : a \in Members => account[a].configured /\ account[a].present
  BY DEF NoAccount
<1>3. \A a \in Pool : a \notin Members => ~account[a].configured /\ account[a].token = 0
  BY DEF NoAccount
<1> QED BY <1>1, <1>2, <1>3 DEF ClaimInv, Configured, Issued, Marked, Sole, TokenRead,
           Read, RefusalKnown, TokenKept, AtWork, Asking, Registered

(* Nothing a check relies on has changed.                                  *)
LEMMA ClaimsUntouched ==
  ASSUME DeskTyped, ClaimInv, takenOver' = takenOver, renewed' = renewed,
         \A c \in Checks : /\ check'[c].pc = check[c].pc /\ check'[c].a = check[c].a
                           /\ check'[c].id = check[c].id /\ check'[c].token = check[c].token,
         \A a \in Pool : /\ account'[a].id = account[a].id
                         /\ account'[a].present = account[a].present
                         /\ account'[a].token = account[a].token
                         /\ account'[a].bad = account[a].bad
                         /\ account'[a].plan = account[a].plan
                         /\ account'[a].configured = account[a].configured
  PROVE  ClaimInv'
<1>1. \A c \in Checks : check[c].pc # "idle" => check[c].a \in Pool
  BY DEF DeskTyped, Placed, AtWork
<1> USE <1>1 DEF ClaimInv
<1>2. Configured' /\ Issued'
  BY DEF Configured, Issued, AtWork
<1>3. Marked'
  BY DEF Marked, Asking, Claimed, Is
<1>4. Sole'
  BY DEF Sole, Asking
<1>5. TokenRead' /\ RefusalKnown'
  BY DEF TokenRead, Read, RefusalKnown, AtWork, Claimed, Is
<1>6. TokenKept'
  BY DEF TokenKept, Registered
<1> QED BY <1>2, <1>3, <1>4, <1>5, <1>6

(* An account comes, with an id of its own, or goes.                       *)
LEMMA AccountReplaced ==
  ASSUME DeskTyped, ClaimInv, takenOver' = takenOver, renewed' = renewed, check' = check,
         NEW b \in Pool, \A a \in Pool \ {b} : account'[a] = account[a],
         account'[b].id \in Nat, account'[b].id >= account[b].id,
         account'[b].present => account'[b].id > account[b].id,
         ~account'[b].configured, account'[b].token = 0
  PROVE  ClaimInv'
<1>1. \A c \in Checks : check[c].pc # "idle" =>
        /\ check[c].a \in Pool /\ check[c].id \in Nat /\ account[check[c].a].id \in Nat
        /\ check[c].id <= account[check[c].a].id
  BY DEF DeskTyped, ActorsTyped, RowsTyped, Placed, AtWork, Checking, Accounts, ClaimInv, Issued
<1>2. \A c \in Checks : check[c].pc # "idle" =>
        /\ check[c].a = b => ~Claimed(c)'
        /\ check[c].a # b => account'[check[c].a] = account[check[c].a]
  BY <1>1 DEF Claimed, Is
<1>3. Configured'
  BY DEF ClaimInv, Configured
<1>4. Issued'
  BY <1>1, <1>2 DEF Issued, AtWork
<1>5. Marked'
  BY <1>2 DEF ClaimInv, Marked, Asking, Claimed
<1>6. Sole'
  BY DEF ClaimInv, Sole, Asking
<1>7. TokenRead' /\ RefusalKnown'
  BY <1>2 DEF ClaimInv, TokenRead, Read, RefusalKnown, AtWork, Claimed
<1>8. TokenKept'
  BY DEF ClaimInv, TokenKept, Registered
<1> QED BY <1>3, <1>4, <1>5, <1>6, <1>7, <1>8 DEF ClaimInv

LEMMA AccountRenewed ==
  ASSUME DeskTyped, ClaimInv, NEW b \in Pool, Renews(b)
  PROVE  ClaimInv'
<1>1. /\ check' = check /\ takenOver' = takenOver /\ renewed \subseteq renewed'
      /\ (\E c \in Checks : AtWork(c) /\ check[c].a = b) => b \in renewed'
      /\ account[b].present
  BY DEF Renews
<1>2. /\ \A a \in Pool : a # b => account'[a] = account[a]
      /\ \A a \in Pool : /\ account'[a].id = account[a].id
                         /\ account'[a].present = account[a].present
                         /\ account'[a].bad = account[a].bad
                         /\ account'[a].plan = account[a].plan
      /\ account'[b].configured
  BY DEF Renews, DeskTyped, RowsTyped, Accounts
<1>3. \A c \in Checks : check[c].pc # "idle" => check[c].a \in Pool
  BY DEF DeskTyped, Placed, AtWork
<1>4. \A c \in Checks : check[c].pc # "idle" => Claimed(c)' = Claimed(c)
  BY <1>1, <1>2, <1>3 DEF Claimed, Is
<1>5. Configured'
  BY <1>1, <1>2 DEF ClaimInv, Configured
<1>6. Issued'
  BY <1>1, <1>2, <1>3 DEF ClaimInv, Issued, AtWork
<1>7. Marked' /\ Sole'
  BY <1>1, <1>2, <1>3, <1>4 DEF ClaimInv, Marked, Sole, Asking
<1>8. TokenRead'
  <2> SUFFICES ASSUME NEW c \in Checks, AtWork(c), Claimed(c) PROVE Read(c)'
    BY <1>1, <1>4 DEF TokenRead, AtWork
  <2>1. Read(c) BY DEF ClaimInv, TokenRead
  <2>2. CASE check[c].a # b BY <1>1, <1>2, <1>3, <2>1, <2>2 DEF Read, AtWork
  <2>3. CASE check[c].a = b
    <3>1. b \in renewed' BY <1>1, <2>3
    <3>2. account[b].token \in Nat /\ check[c].token \in Nat
      BY DEF DeskTyped, RowsTyped, ActorsTyped, Accounts, Checking
    <3>3. account'[b].token = account[b].token + 1
      BY DEF Renews, DeskTyped, RowsTyped, Accounts
    <3> QED BY <1>1, <2>1, <2>3, <3>1, <3>2, <3>3 DEF Read
  <2> QED BY <2>2, <2>3
<1>9. RefusalKnown'
  BY <1>1, <1>2, <1>3, <1>4 DEF ClaimInv, RefusalKnown
<1>10. TokenKept'
  BY <1>1, <1>2 DEF ClaimInv, TokenKept, Registered
<1> QED BY <1>5, <1>6, <1>7, <1>8, <1>9, <1>10 DEF ClaimInv

LEMMA AccountClaimed ==
  ASSUME DeskTyped, ClaimInv, NEW c \in Checks, NEW b \in Pool, Claims(c, b)
  PROVE  ClaimInv'
<1>1. /\ \A d \in Checks : d # c => check'[d] = check[d]
      /\ check'[c].pc = "claimed" /\ check'[c].a = b /\ check'[c].id = account[b].id
      /\ check'[c].token = account[b].token
  <2>1. check' = [check EXCEPT ![c] = [NoCheck EXCEPT !.pc = "claimed", !.a = b,
                      !.id = account[b].id, !.token = account[b].token]]
    BY DEF Claims
  <2> QED BY <2>1 DEF NoCheck, DeskTyped, ActorsTyped
<1>2. /\ \A a \in Pool : a # b => account'[a] = account[a]
      /\ \A a \in Pool : /\ account'[a].id = account[a].id
                         /\ account'[a].present = account[a].present
                         /\ account'[a].bad = account[a].bad
                         /\ account'[a].token = account[a].token
                         /\ account'[a].configured = account[a].configured
      /\ account'[b].plan = "running"
  BY DEF Claims, DeskTyped, RowsTyped, Accounts
<1>3. /\ account[b].configured /\ renewed' = renewed /\ takenOver \subseteq takenOver'
      /\ account[b].plan = "running" => b \in takenOver'
  BY DEF Claims, Claimable
<1>4. account[b].present /\ account[b].id \in Nat
  BY <1>3 DEF ClaimInv, Configured, DeskTyped, RowsTyped, Accounts
<1>5. \A d \in Checks : check[d].pc # "idle" => check[d].a \in Pool
  BY DEF DeskTyped, Placed, AtWork
<1>6. \A d \in Checks : d # c /\ check[d].pc # "idle" => Claimed(d)' = Claimed(d)
  BY <1>1, <1>2, <1>5 DEF Claimed, Is
<1>7. Configured'
  BY <1>2 DEF ClaimInv, Configured
<1>8. Issued'
  <2> SUFFICES ASSUME NEW d \in Checks, check'[d].pc # "idle"
               PROVE  check'[d].id <= account'[check'[d].a].id
    BY DEF Issued, AtWork
  <2>1. CASE d = c
    BY <1>1, <1>2, <1>4, <2>1
  <2>2. CASE d # c
    BY <1>1, <1>2, <1>5, <2>2 DEF ClaimInv, Issued, AtWork
  <2> QED BY <2>1, <2>2
<1>9. Marked'
  BY <1>1, <1>2, <1>3, <1>5, <1>6 DEF ClaimInv, Marked, Asking
<1>10. ASSUME NEW d \in Checks, d # c, Asking(d), check[d].a = b, check[d].id = account[b].id
       PROVE  b \in takenOver'
  <2>1. Claimed(d)
    BY <1>4, <1>10 DEF Claimed, Is
  <2>2. b \in takenOver \/ account[b].plan = "running"
    BY <1>10, <2>1 DEF ClaimInv, Marked
  <2> QED BY <1>3, <2>2
<1>11. Sole'
  <2> SUFFICES ASSUME NEW d \in Checks, NEW e \in Checks, d # e, Asking(d)', Asking(e)',
                      check'[d].a = check'[e].a, check'[d].id = check'[e].id
               PROVE  check'[d].a \in takenOver'
    BY DEF Sole
  <2>1. CASE d = c
    BY <1>1, <1>10, <2>1 DEF Asking
  <2>2. CASE e = c
    BY <1>1, <1>10, <2>2 DEF Asking
  <2>3. CASE d # c /\ e # c
    BY <1>1, <1>3, <2>3 DEF ClaimInv, Sole, Asking
  <2> QED BY <2>1, <2>2, <2>3
<1>12. TokenRead'
  BY <1>1, <1>2, <1>3, <1>5, <1>6 DEF ClaimInv, TokenRead, Read, AtWork
<1>13. RefusalKnown'
  BY <1>1, <1>2, <1>5, <1>6 DEF ClaimInv, RefusalKnown
<1>14. TokenKept'
  BY <1>2, <1>3 DEF ClaimInv, TokenKept, Registered
<1> QED BY <1>7, <1>8, <1>9, <1>11, <1>12, <1>13, <1>14 DEF ClaimInv

(* A check goes on, and writes at most the row it claimed.                 *)
LEMMA CheckMoves ==
  ASSUME DeskTyped, ClaimInv, NEW c \in Checks, AtWork(c),
         takenOver' = takenOver, renewed' = renewed,
         \A d \in Checks \ {c} : check'[d] = check[d],
         check'[c].pc # "idle" =>
           /\ check'[c].a = check[c].a /\ check'[c].id = check[c].id
           /\ check'[c].token = check[c].token,
         Asking(c)' => Asking(c),
         \A a \in Pool \ {check[c].a} : account'[a] = account[a],
         ~Claimed(c) => account' = account,
         LET a == check[c].a IN
           /\ account'[a].id = account[a].id /\ account'[a].present = account[a].present
           /\ account'[a].token = account[a].token
           /\ account[a].bad \subseteq account'[a].bad
           /\ account'[a].plan = account[a].plan \/ (Asking(c) /\ ~Asking(c)')
           /\ account'[a].configured => account[a].configured
           /\ account[a].configured => account'[a].configured \/ check[c].pc = "bad"
           /\ check'[c].pc = "bad" /\ Claimed(c) => check[c].token \in account'[a].bad
  PROVE  ClaimInv'
<1> DEFINE b == check[c].a
<1>0. \A d \in Checks : check[d].pc # "idle" => check[d].a \in Pool
  BY DEF DeskTyped, Placed, AtWork
<1>1. b \in Pool /\ \A a \in Pool : a # b => account'[a] = account[a]
  BY <1>0 DEF AtWork
<1>2. /\ account'[b].id = account[b].id /\ account'[b].present = account[b].present
      /\ account'[b].token = account[b].token
      /\ account[b].bad \subseteq account'[b].bad
      /\ account'[b].plan = account[b].plan \/ (Asking(c) /\ ~Asking(c)')
      /\ account'[b].configured => account[b].configured
      /\ account[b].configured => account'[b].configured \/ check[c].pc = "bad"
      /\ check'[c].pc = "bad" /\ Claimed(c) => check[c].token \in account'[b].bad
  OBVIOUS
<1>3. \A d \in Checks : check'[d].pc # "idle" =>
        /\ check[d].pc # "idle" /\ check'[d].a = check[d].a /\ check'[d].id = check[d].id
        /\ check'[d].token = check[d].token
  BY DEF AtWork
<1>4. \A a \in Pool : /\ account'[a].id = account[a].id
                      /\ account'[a].present = account[a].present
                      /\ account'[a].token = account[a].token
                      /\ account[a].bad \subseteq account'[a].bad
                      /\ account'[a].configured => account[a].configured
  BY <1>1, <1>2
<1>5. \A d \in Checks : check'[d].pc # "idle" => Claimed(d)' = Claimed(d)
  BY <1>0, <1>3, <1>4 DEF Claimed, Is
<1>6. \A d \in Checks : Asking(d)' => Asking(d)
  BY DEF Asking
<1>7. ~Claimed(c) => account' = account
  OBVIOUS
<1>8. \A d \in Checks \ {c} : check'[d] = check[d]
  OBVIOUS
<1> HIDE DEF b
<1>9. Configured'
  BY <1>4 DEF ClaimInv, Configured
<1>10. Issued'
  BY <1>0, <1>3, <1>4 DEF ClaimInv, Issued, AtWork
<1>11. Marked'
  <2> SUFFICES ASSUME NEW d \in Checks, Asking(d)', Claimed(d)', check'[d].a \notin takenOver
               PROVE  account'[check'[d].a].plan = "running"
    BY DEF Marked
  <2>1. /\ check'[d].pc # "idle" /\ Asking(d) /\ Claimed(d)
        /\ check'[d].a = check[d].a /\ check[d].a \in Pool
    BY <1>0, <1>3, <1>5, <1>6 DEF Asking
  <2>2. account[check[d].a].plan = "running"
    BY <2>1 DEF ClaimInv, Marked
  <2>3. CASE check[d].a # b \/ account'[b].plan = account[b].plan
    BY <1>1, <2>1, <2>2, <2>3
  <2>4. CASE check[d].a = b /\ account'[b].plan # account[b].plan
    <3>1. Asking(c) /\ ~Asking(c)' /\ Claimed(c)
      BY <1>2, <1>7, <2>4
    <3>2. d # c /\ check[d].id = check[c].id
      BY <2>1, <2>4, <3>1 DEF Claimed, Is, b
    <3> QED BY <2>1, <2>4, <3>1, <3>2 DEF ClaimInv, Sole, b
  <2> QED BY <2>3, <2>4
<1>12. Sole'
  BY <1>3, <1>6 DEF ClaimInv, Sole, Asking
<1>13. TokenRead'
  BY <1>0, <1>3, <1>4, <1>5 DEF ClaimInv, TokenRead, Read, AtWork
<1>14. RefusalKnown'
  <2> SUFFICES ASSUME NEW d \in Checks, check'[d].pc = "bad", Claimed(d)'
               PROVE  check'[d].token \in account'[check'[d].a].bad
    BY DEF RefusalKnown
  <2>1. CASE d = c
    BY <1>2, <1>3, <1>5, <2>1 DEF b
  <2>2. CASE d # c
    BY <1>0, <1>3, <1>4, <1>5, <1>8, <2>2 DEF ClaimInv, RefusalKnown
  <2> QED BY <2>1, <2>2
<1>15. TokenKept'
  <2> SUFFICES ASSUME NEW a \in Pool, account'[a].present, account'[a].token > 0,
                      ~account'[a].configured
               PROVE  \E t \in account'[a].bad :
                        t = account'[a].token \/ (t < account'[a].token /\ a \in renewed)
    BY DEF TokenKept, Registered
  <2>1. CASE ~account[a].configured
    <3>1. account[a].present /\ account[a].token > 0 BY <1>4
    <3>2. \E t \in account[a].bad :
            t = account[a].token \/ (t < account[a].token /\ a \in renewed)
      BY <2>1, <3>1 DEF ClaimInv, TokenKept, Registered
    <3> QED BY <1>4, <3>2
  <2>2. CASE account[a].configured
    <3>1. a = b /\ check[c].pc = "bad" /\ Claimed(c)
      BY <1>1, <1>2, <1>7, <2>2
    <3>2. check[c].token \in account[b].bad
      BY <3>1 DEF ClaimInv, RefusalKnown, b
    <3>3. \/ check[c].token = account[b].token
          \/ check[c].token < account[b].token /\ b \in renewed
      BY <3>1 DEF ClaimInv, TokenRead, Read, b, AtWork
    <3> QED BY <1>4, <3>1, <3>2, <3>3
  <2> QED BY <2>1, <2>2
<1> QED BY <1>9, <1>10, <1>11, <1>12, <1>13, <1>14, <1>15 DEF ClaimInv

(* The steps that touch accounts and checks.                               *)
LEMMA CheckStepKeepsClaims ==
  ASSUME DeskTyped, ClaimInv, NEW c \in Checks,
         \/ CheckStep(c) \/ CallFails(c) \/ \E a \in Pool : Claims(c, a)
  PROVE  ClaimInv'
<1>1. ASSUME NEW a \in Pool, Claims(c, a) PROVE ClaimInv'
  BY <1>1, AccountClaimed
<1>2. ASSUME AtWork(c), UNCHANGED histories, account' = account,
             check' = [check EXCEPT ![c] = NoCheck]
      PROVE  ClaimInv'
  <2>1. /\ check'[c].pc = "idle" /\ takenOver' = takenOver /\ renewed' = renewed
        /\ \A d \in Checks \ {c} : check'[d] = check[d]
    BY <1>2 DEF NoCheck, histories, DeskTyped, ActorsTyped
  <2>2. check[c].a \in Pool
    BY <1>2 DEF DeskTyped, Placed
  <2> QED BY <1>2, <2>1, <2>2, CheckMoves DEF Asking
<1>3. ASSUME NEW outcome \in Answers, AtWork(c), Asking(c), UNCHANGED histories,
             account' = PlanStored(c, outcome), outcome = "bad" => check[c].pc = "bad",
             \A d \in Checks \ {c} : check'[d] = check[d],
             \/ check'[c].pc = "idle"
             \/ /\ check'[c].pc = "releases" /\ check'[c].a = check[c].a
                /\ check'[c].id = check[c].id /\ check'[c].token = check[c].token
      PROVE  ClaimInv'
  <2>1. /\ check[c].a \in Pool /\ takenOver' = takenOver /\ renewed' = renewed
        /\ ~Asking(c)' /\ check'[c].pc # "bad"
    BY <1>3 DEF DeskTyped, Placed, histories, Asking
  <2>2. /\ \A b \in Pool \ {check[c].a} : account'[b] = account[b]
        /\ \A b \in Pool :
             /\ account'[b].id = account[b].id
             /\ account'[b].present = account[b].present
             /\ account'[b].token = account[b].token
             /\ account'[b].bad = account[b].bad
             /\ account'[b].configured => account[b].configured
             /\ outcome # "bad" => account'[b].configured = account[b].configured
        /\ ~Is(account[check[c].a], check[c].id) => account' = account
    BY <1>3, <2>1, PlanStoredRow
  <2>3. account[check[c].a].configured =>
          account'[check[c].a].configured \/ check[c].pc = "bad"
    BY <1>3, <2>1, <2>2
  <2>4. check'[c].pc # "idle" =>
           /\ check'[c].a = check[c].a /\ check'[c].id = check[c].id
           /\ check'[c].token = check[c].token
    BY <1>3
  <2> QED BY <1>3, <2>1, <2>2, <2>3, <2>4, CheckMoves DEF Claimed
<1>4. ASSUME NEW p \in Proxies, Leases(c, p) PROVE ClaimInv'
  <2>1. /\ check[c].pc = "claimed" /\ check'[c].pc = "asks" /\ check'[c].a = check[c].a
        /\ check'[c].id = check[c].id /\ check'[c].token = check[c].token
        /\ \A d \in Checks \ {c} : check'[d] = check[d]
    BY <1>4 DEF Leases, DeskTyped, ActorsTyped, Checking
  <2>2. account' = account /\ takenOver' = takenOver /\ renewed' = renewed
    BY <1>4 DEF Leases, histories
  <2>3. check[c].a \in Pool
    BY <2>1 DEF DeskTyped, Placed, AtWork
  <2> QED BY <2>1, <2>2, <2>3, CheckMoves DEF Asking, AtWork
<1>5. CASE NoProxy(c)
  <2>1. /\ check[c].pc = "claimed" /\ UNCHANGED histories /\ account' = PlanStored(c, "error")
        /\ check' = [check EXCEPT ![c] = NoCheck]
    BY <1>5 DEF NoProxy
  <2>2. check'[c].pc = "idle" /\ \A d \in Checks \ {c} : check'[d] = check[d]
    BY <2>1 DEF NoCheck, DeskTyped, ActorsTyped
  <2> QED BY <1>3, <2>1, <2>2 DEF Answers, AtWork, Asking
<1>6. ASSUME NEW outcome \in Answers, Answered(c, outcome) PROVE ClaimInv'
  <2>1. /\ check[c].pc = "asks" /\ check'[c].pc = outcome /\ check'[c].a = check[c].a
        /\ check'[c].id = check[c].id /\ check'[c].token = check[c].token
        /\ \A d \in Checks \ {c} : check'[d] = check[d]
    BY <1>6 DEF Answered, CheckGoes, DeskTyped, ActorsTyped, Checking
  <2>2. takenOver' = takenOver /\ renewed' = renewed
    BY <1>6 DEF Answered, histories
  <2>3. check[c].a \in Pool
    BY <2>1 DEF DeskTyped, Placed, AtWork
  <2>4. CASE outcome = "bad" /\ Claimed(c)
    <3>1. account' = [account EXCEPT ![check[c].a].bad = @ \cup {check[c].token}]
      BY <1>6, <2>4 DEF Answered, Claimed
    <3>2. /\ \A a \in Pool \ {check[c].a} : account'[a] = account[a]
          /\ account'[check[c].a] =
               [account[check[c].a] EXCEPT !.bad = @ \cup {check[c].token}]
      BY <2>3, <3>1 DEF DeskTyped, RowsTyped
    <3>3. LET a == check[c].a IN
          /\ account'[a].id = account[a].id /\ account'[a].present = account[a].present
          /\ account'[a].token = account[a].token /\ account'[a].plan = account[a].plan
          /\ account'[a].configured = account[a].configured
          /\ account'[a].bad = account[a].bad \cup {check[c].token}
      BY <2>3, <3>2 DEF DeskTyped, RowsTyped, Accounts
    <3> QED BY <2>1, <2>2, <2>3, <2>4, <3>2, <3>3, CheckMoves DEF Asking, AtWork
  <2>5. CASE ~(outcome = "bad" /\ Claimed(c))
    <3>1. account' = account
      BY <1>6, <2>5 DEF Answered, Claimed
    <3> QED BY <2>1, <2>2, <2>3, <2>5, <3>1, CheckMoves DEF Asking, AtWork
  <2> QED BY <2>4, <2>5
<1>7. ASSUME CheckGoes(c, "releases")
      PROVE  /\ \A d \in Checks \ {c} : check'[d] = check[d]
             /\ check'[c].pc = "releases" /\ check'[c].a = check[c].a
             /\ check'[c].id = check[c].id /\ check'[c].token = check[c].token
  BY <1>7 DEF CheckGoes, DeskTyped, ActorsTyped, Checking
<1>8. CASE Stores(c)
  <2>1. /\ check[c].pc \in Answers /\ UNCHANGED histories /\ CheckGoes(c, "releases")
        /\ account' = PlanStored(c, check[c].pc)
    BY <1>8 DEF Stores
  <2> QED BY <1>3, <1>7, <2>1 DEF Answers, AtWork, Asking
<1>9. CASE CallFails(c)
  <2>1. UNCHANGED histories
    BY <1>9 DEF CallFails
  <2>2. CASE check[c].pc \in Answers
    <3>1. CheckGoes(c, "releases") /\ (account' = account \/ account' = PlanStored(c, "error"))
      BY <1>9, <2>2 DEF CallFails, Answers
    <3>2. CASE account' = PlanStored(c, "error")
      BY <1>3, <1>7, <2>1, <2>2, <3>1, <3>2 DEF Answers, AtWork, Asking
    <3>3. CASE account' = account
      <4>1. check[c].a \in Pool /\ takenOver' = takenOver /\ renewed' = renewed
        BY <2>1, <2>2 DEF DeskTyped, Placed, histories, AtWork, Answers
      <4> QED BY <1>7, <2>2, <3>1, <3>3, <4>1, CheckMoves DEF Answers, AtWork, Asking
    <3> QED BY <3>1, <3>2, <3>3
  <2>3. CASE check[c].pc \in {"claimed", "releases"}
    BY <1>2, <1>9, <2>1, <2>3 DEF CallFails, Answers, AtWork
  <2> QED BY <1>9, <2>2, <2>3 DEF CallFails
<1>10. CASE ReleasesProxy(c)
  BY <1>2, <1>10 DEF ReleasesProxy, AtWork
<1> QED BY <1>1, <1>4, <1>5, <1>6, <1>8, <1>9, <1>10 DEF CheckStep

LEMMA PageStepKeepsClaims ==
  ASSUME DeskTyped, ClaimInv, NEW a \in Pool,
         \/ CreateAccount(a) \/ DeleteAccounts(a) \/ \E r \in Runs : Registers(r)
  PROVE  ClaimInv'
<1>0. \A b \in Pool : account[b].id \in Nat
  BY DEF DeskTyped, RowsTyped, Accounts
<1>1. ASSUME NEW b \in Pool, NEW by \in Runs \cup {"page"}, account' = NewAccount(b, by),
             takenOver' = takenOver, renewed' = renewed, check' = check
      PROVE  ClaimInv'
  <2>1. /\ \A d \in Pool \ {b} : account'[d] = account[d]
        /\ account'[b].id = account[b].id + 1
        /\ ~account'[b].configured /\ account'[b].token = 0
    BY <1>1, NewAccountRow
  <2> QED BY <1>0, <1>1, <2>1, AccountReplaced
<1>2. CASE CreateAccount(a)
  BY <1>1, <1>2 DEF CreateAccount
<1>3. CASE DeleteAccounts(a)
  <2>1. /\ account' = [account EXCEPT ![a] = [NoAccount EXCEPT !.id = account[a].id]]
        /\ takenOver' = takenOver /\ renewed' = renewed /\ check' = check
    BY <1>3 DEF DeleteAccounts, histories
  <2>2. /\ \A d \in Pool \ {a} : account'[d] = account[d]
        /\ account'[a].id = account[a].id /\ ~account'[a].present
        /\ ~account'[a].configured /\ account'[a].token = 0
    BY <2>1 DEF NoAccount, DeskTyped, RowsTyped
  <2> QED BY <1>0, <2>1, <2>2, AccountReplaced
<1>4. ASSUME NEW r \in Runs, Registers(r) PROVE ClaimInv'
  <2>1. /\ run[r].a \in Pool /\ check' = check /\ takenOver' = takenOver /\ renewed' = renewed
        /\ account' = Upserted(run[r].a, r)
    BY <1>4 DEF Registers, histories, DeskTyped, Placed, Holding
  <2>2. CASE account[run[r].a].present
    BY <2>1, <2>2, ClaimsUntouched DEF Upserted
  <2>3. CASE ~account[run[r].a].present
    BY <1>1, <2>1, <2>3 DEF Upserted
  <2> QED BY <2>2, <2>3
<1> QED BY <1>2, <1>3, <1>4

------------------------------------------------------------------------------
(* Plan checks and proxies.                                                *)

(* A check has its proxy, unless its lease ran over or the page dropped it. *)
Leased ==
  \A c \in Checks :
    AtWork(c) /\ check[c].p # None /\ check[c].p \notin dropped /\ ~check[c].lapsed =>
      proxy[check[c].p].owner = c /\ ~proxy[check[c].p].over

LEMMA LeasedInit == Init => Leased
  BY DEF Init, DeskInit, Leased, NoCheck, AtWork

LEMMA LeasesKept ==
  ASSUME Leased, dropped \subseteq dropped',
         \A c \in Checks :
           \/ check'[c].pc = "idle" \/ check'[c].p = None
           \/ /\ check[c].pc # "idle" /\ check'[c].p = check[c].p
              /\ check[c].lapsed => check'[c].lapsed
              /\ \/ check[c].p \in dropped' \/ check'[c].lapsed
                 \/ proxy'[check[c].p] = proxy[check[c].p]
                 \/ proxy[check[c].p].owner # c
                 \/ /\ proxy'[check[c].p].owner = proxy[check[c].p].owner
                    /\ ~proxy'[check[c].p].over
  PROVE  Leased'
  BY DEF Leased, AtWork

LEMMA CheckStepKeepsLeases ==
  ASSUME DeskTyped, Leased, NEW c \in Checks,
         \/ CheckStep(c) \/ CallFails(c) \/ \E a \in Pool : Claims(c, a)
  PROVE  Leased'
<1>1. ASSUME dropped' = dropped, proxy' = proxy,
             \/ \E place \in {"releases"} \cup Answers :
                  check[c].pc # "idle" /\ CheckGoes(c, place)
             \/ check' = [check EXCEPT ![c] = NoCheck]
             \/ \E a \in Pool : check' = [check EXCEPT ![c] = [NoCheck EXCEPT !.pc = "claimed",
                     !.a = a, !.id = account[a].id, !.token = account[a].token]]
      PROVE  Leased'
  <2>1. \A d \in Checks \ {c} : check'[d] = check[d]
    BY <1>1 DEF CheckGoes, DeskTyped, ActorsTyped
  <2>2. \/ check'[c].p = None
        \/ check[c].pc # "idle" /\ check'[c].p = check[c].p /\ check'[c].lapsed = check[c].lapsed
    <3>1. CASE \E place \in {"releases"} \cup Answers :
                 check[c].pc # "idle" /\ CheckGoes(c, place)
      BY <3>1 DEF CheckGoes, DeskTyped, ActorsTyped, Checking
    <3>2. CASE check' = [check EXCEPT ![c] = NoCheck]
      BY <3>2 DEF NoCheck, DeskTyped, ActorsTyped
    <3>3. CASE \E a \in Pool : check' = [check EXCEPT ![c] = [NoCheck EXCEPT !.pc = "claimed",
                     !.a = a, !.id = account[a].id, !.token = account[a].token]]
      BY <3>3 DEF NoCheck, DeskTyped, ActorsTyped
    <3> QED BY <1>1, <3>1, <3>2, <3>3
  <2> QED BY <1>1, <2>1, <2>2 DEF Leased, AtWork
<1>2. ASSUME NEW a \in Pool, Claims(c, a) PROVE Leased'
  BY <1>1, <1>2 DEF Claims
<1>3. ASSUME NEW p \in Proxies, Leases(c, p) PROVE Leased'
  <2>1. /\ \A d \in Checks \ {c} : check'[d] = check[d]
        /\ check'[c].p = p /\ dropped' = dropped
    BY <1>3 DEF Leases, histories, DeskTyped, ActorsTyped, Checking
  <2>2. /\ \A q \in Proxies \ {p} : proxy'[q] = proxy[q]
        /\ proxy'[p].owner = c /\ ~proxy'[p].over
        /\ proxy[p].owner = None \/ proxy[p].over
    BY <1>3 DEF Leases, Free, DeskTyped, RowsTyped, Leasable
  <2>3. \A d \in Checks : check[d].p \in Proxies \cup {None} /\ d # None
    BY DeskAssumption DEF DeskTyped, ActorsTyped, Checking
  <2> QED BY <2>1, <2>2, <2>3 DEF Leased, AtWork
<1>4. CASE NoProxy(c)
  BY <1>1, <1>4 DEF NoProxy, histories
<1>5. ASSUME NEW outcome \in Answers, Answered(c, outcome) PROVE Leased'
  <2>1. /\ check[c].pc # "idle" /\ CheckGoes(c, outcome)
        /\ dropped' = dropped /\ proxy' = proxy
    BY <1>5 DEF Answered, histories
  <2> QED BY <1>1, <2>1
<1>6. CASE Stores(c)
  <2>1. /\ check[c].pc # "idle" /\ CheckGoes(c, "releases")
        /\ dropped' = dropped /\ proxy' = proxy
    BY <1>6 DEF Stores, histories, Answers
  <2> QED BY <1>1, <2>1
<1>7. CASE CallFails(c)
  <2>1. dropped' = dropped /\ proxy' = proxy
    BY <1>7 DEF CallFails, histories
  <2>2. \/ check[c].pc # "idle" /\ CheckGoes(c, "releases")
        \/ check' = [check EXCEPT ![c] = NoCheck]
    BY <1>7 DEF CallFails, Answers
  <2> QED BY <1>1, <2>1, <2>2
<1>8. CASE ReleasesProxy(c)
  <2> DEFINE p == check[c].p
  <2>1. /\ \A d \in Checks \ {c} : check'[d] = check[d]
        /\ check'[c].pc = "idle" /\ dropped' = dropped
    BY <1>8 DEF ReleasesProxy, histories, NoCheck, DeskTyped, ActorsTyped
  <2>2. proxy' = IF proxy[p].owner = c
                 THEN [proxy EXCEPT ![p].owner = None, ![p].over = FALSE] ELSE proxy
    BY <1>8 DEF ReleasesProxy
  <2>3. p \in Proxies
    BY <1>8 DEF ReleasesProxy, DeskTyped, Placed
  <2> HIDE DEF p
  <2>4. \A q \in Proxies : proxy'[q] = proxy[q] \/ proxy[q].owner = c
    BY <2>2, <2>3 DEF DeskTyped, RowsTyped
  <2>5. \A d \in Checks : check[d].p \in Proxies \cup {None}
    BY DEF DeskTyped, ActorsTyped, Checking
  <2> QED BY <2>1, <2>4, <2>5 DEF Leased, AtWork
<1> QED BY <1>2, <1>3, <1>4, <1>5, <1>6, <1>7, <1>8 DEF CheckStep

LEMMA ProxyStepKeepsLeases ==
  ASSUME DeskTyped, Leased, NEW p \in Proxies,
         UpdateProxy(p) \/ DeleteProxy(p) \/ ImportProxy(p) \/ LeaseExpires(p)
  PROVE  Leased'
<1>0. \A c \in Checks : check[c].p \in Proxies \cup {None}
  BY DEF DeskTyped, ActorsTyped, Checking
<1>1. CASE UpdateProxy(p) \/ ImportProxy(p)
  <2>1. check' = check /\ dropped' = dropped
    BY <1>1 DEF UpdateProxy, ImportProxy, histories
  <2>2. \A q \in Proxies : proxy'[q].owner = proxy[q].owner /\ proxy'[q].over = proxy[q].over
    <3>1. CASE UpdateProxy(p)
      BY <3>1 DEF UpdateProxy, DeskTyped, RowsTyped, Leasable
    <3>2. CASE ImportProxy(p)
      BY <3>2 DEF ImportProxy, DeskTyped, RowsTyped, Leasable
    <3> QED BY <1>1, <3>1, <3>2
  <2> QED BY <1>0, <2>1, <2>2 DEF Leased, AtWork
<1>2. CASE DeleteProxy(p)
  <2>1. /\ check' = check /\ dropped \subseteq dropped'
        /\ \A c \in Checks : check[c].pc # "idle" /\ check[c].p = p => p \in dropped'
    BY <1>2 DEF DeleteProxy, Uses, AtWork
  <2>2. \A q \in Proxies \ {p} : proxy'[q] = proxy[q]
    BY <1>2 DEF DeleteProxy, DeskTyped, RowsTyped
  <2> QED BY <1>0, <2>1, <2>2 DEF Leased, AtWork
<1>3. CASE LeaseExpires(p)
  <2>1. \A c \in Checks :
          /\ check'[c].pc = check[c].pc /\ check'[c].p = check[c].p
          /\ check[c].lapsed => check'[c].lapsed
          /\ proxy[p].owner = c => check'[c].lapsed
    BY <1>3 DEF LeaseExpires, DeskTyped, ActorsTyped, Checking
  <2>2. dropped' = dropped /\ \A q \in Proxies \ {p} : proxy'[q] = proxy[q]
    BY <1>3 DEF LeaseExpires, histories, DeskTyped, RowsTyped
  <2> QED BY <1>0, <2>1, <2>2 DEF Leased, AtWork
<1> QED BY <1>1, <1>2, <1>3

------------------------------------------------------------------------------
(* The three together.                                                     *)

DeskInv == DeskTyped /\ RunInv /\ ClaimInv /\ Leased

LEMMA IInvInit == Init => DeskInv
  BY InitTyped, RunInvInit, ClaimInvInit, LeasedInit DEF DeskInv

LEMMA IInvStep ==
  ASSUME DeskInv, [Next]_vars
  PROVE  DeskInv'
<1> USE DEF DeskInv
<1>1. ASSUME NEW r \in Runs, StartRun(r) \/ RunStep(r) PROVE DeskInv'
  <2>1. DeskTyped' /\ RunInv'
    BY <1>1, RunTyped, RunStepKeepsRuns
  <2>2. /\ check' = check /\ proxy' = proxy /\ UNCHANGED histories
        /\ account' = account \/ Registers(r)
    BY <1>1 DEF StartRun, RunStep, Lists, Tries, ComesShort, BeginsWork, Gives, Registers,
                Consumes, Reconciles, Settles, rows
  <2>3. ClaimInv'
    <3>1. CASE account' = account
      BY <2>2, <3>1, ClaimsUntouched DEF histories
    <3>2. CASE Registers(r)
      <4>1. run[r].a \in Pool
        BY <3>2 DEF Registers, DeskTyped, Placed, Holding
      <4> QED BY <3>2, <4>1, PageStepKeepsClaims
    <3> QED BY <2>2, <3>1, <3>2
  <2>4. Leased'
    BY <2>2 DEF Leased, AtWork, histories
  <2> QED BY <2>1, <2>3, <2>4
<1>2. ASSUME NEW c \in Checks, \/ CheckStep(c) \/ CallFails(c) \/ \E a \in Pool : Claims(c, a)
      PROVE  DeskInv'
  <2>1. DeskTyped' /\ ClaimInv' /\ Leased'
    BY <1>2, CheckTyped, CheckStepKeepsClaims, CheckStepKeepsLeases
  <2>2. /\ run' = run /\ email' = email /\ disturbed' = disturbed
        /\ \/ account' = account
           \/ \E a \in Pool : Claims(c, a)
           \/ \E outcome \in Answers : Answered(c, outcome)
           \/ \E outcome \in Answers : check[c].a \in Pool /\ account' = PlanStored(c, outcome)
    <3>1. CASE CheckStep(c)
      BY <3>1 DEF CheckStep, Leases, Answered, NoProxy, Stores, ReleasesProxy, histories,
                  Answers, DeskTyped, Placed, AtWork
    <3>2. CASE CallFails(c)
      BY <3>2 DEF CallFails, histories, Answers, DeskTyped, Placed, AtWork
    <3>3. ASSUME NEW a \in Pool, Claims(c, a)
          PROVE  run' = run /\ email' = email /\ disturbed' = disturbed
      BY <3>3 DEF Claims
    <3> QED BY <1>2, <3>1, <3>2, <3>3
  <2>3. \A b \in Pool : account'[b].present = account[b].present
    <3>1. ASSUME NEW a \in Pool, Claims(c, a)
          PROVE  \A b \in Pool : account'[b].present = account[b].present
      BY <3>1 DEF Claims, DeskTyped, RowsTyped, Accounts
    <3>2. ASSUME NEW outcome \in Answers, Answered(c, outcome)
          PROVE  \A b \in Pool : account'[b].present = account[b].present
      BY <3>2 DEF Answered, DeskTyped, RowsTyped, Accounts
    <3>3. ASSUME NEW outcome \in Answers, check[c].a \in Pool, account' = PlanStored(c, outcome)
          PROVE  \A b \in Pool : account'[b].present = account[b].present
      BY <3>3, PlanStoredRow
    <3> QED BY <2>2, <3>1, <3>2, <3>3
  <2>4. RunInv'
    BY <2>2, <2>3, RunsUntouched
  <2> QED BY <2>1, <2>4
<1>3. ASSUME NEW a \in Pool,
             \/ Upserts \/ DeleteSource \/ DeleteEmail(a) \/ CreateAccount(a) \/ DeleteAccounts(a)
      PROVE  DeskInv'
  <2>1. DeskTyped' /\ RunInv'
    BY <1>3, PageTyped, PageStepKeepsRuns
  <2>2. /\ check' = check /\ proxy' = proxy
        /\ takenOver' = takenOver /\ renewed' = renewed /\ dropped' = dropped
        /\ account' = account \/ CreateAccount(a) \/ DeleteAccounts(a)
    BY <1>3 DEF Upserts, DeleteSource, DeleteEmail, CreateAccount, DeleteAccounts, histories
  <2>3. ClaimInv'
    BY <2>2, ClaimsUntouched, PageStepKeepsClaims
  <2>4. Leased'
    BY <2>2 DEF Leased, AtWork
  <2> QED BY <2>1, <2>3, <2>4
<1>4. ASSUME NEW a \in Pool, Renews(a) \/ ClaimAges(a) PROVE DeskInv'
  <2>1. DeskTyped'
    BY <1>4, PageTyped
  <2>2. /\ run' = run /\ email' = email /\ disturbed' = disturbed
        /\ check' = check /\ proxy' = proxy /\ dropped' = dropped
    BY <1>4 DEF Renews, ClaimAges, histories
  <2>3. \A b \in Pool : account'[b].present = account[b].present
    BY <1>4 DEF Renews, ClaimAges, DeskTyped, RowsTyped, Accounts
  <2>4. RunInv' /\ Leased'
    BY <2>2, <2>3, RunsUntouched DEF Leased, AtWork
  <2>5. ClaimInv'
    <3>1. CASE ClaimAges(a)
      <4>1. /\ takenOver' = takenOver /\ renewed' = renewed
            /\ \A b \in Pool : /\ account'[b].id = account[b].id
                               /\ account'[b].present = account[b].present
                               /\ account'[b].token = account[b].token
                               /\ account'[b].bad = account[b].bad
                               /\ account'[b].plan = account[b].plan
                               /\ account'[b].configured = account[b].configured
        BY <3>1 DEF ClaimAges, histories, DeskTyped, RowsTyped, Accounts
      <4> QED BY <2>2, <4>1, ClaimsUntouched
    <3>2. CASE Renews(a)
      BY <3>2, AccountRenewed
    <3> QED BY <1>4, <3>1, <3>2
  <2> QED BY <2>1, <2>4, <2>5
<1>5. ASSUME NEW p \in Proxies, UpdateProxy(p) \/ DeleteProxy(p) \/ ImportProxy(p) \/ LeaseExpires(p)
      PROVE  DeskInv'
  <2>1. DeskTyped' /\ Leased'
    BY <1>5, RestTyped, ProxyStepKeepsLeases
  <2>2. /\ run' = run /\ email' = email /\ account' = account /\ disturbed' = disturbed
        /\ takenOver' = takenOver /\ renewed' = renewed
        /\ check' = check \/ LeaseExpires(p)
    BY <1>5 DEF UpdateProxy, DeleteProxy, ImportProxy, LeaseExpires, histories
  <2>3. RunInv'
    BY <2>2, RunsUntouched
  <2>4. \A c \in Checks : /\ check'[c].pc = check[c].pc /\ check'[c].a = check[c].a
                          /\ check'[c].id = check[c].id /\ check'[c].token = check[c].token
    BY <2>2 DEF LeaseExpires, DeskTyped, ActorsTyped, Checking
  <2>5. ClaimInv'
    BY <2>2, <2>4, ClaimsUntouched
  <2> QED BY <2>1, <2>3, <2>5
<1>6. CASE DeskRestarts
  <2>1. DeskTyped' /\ RunInv'
    BY <1>6, RestTyped, RunsDie
  <2>2. /\ \A c \in Checks : check'[c].pc = "idle"
        /\ account' = account /\ renewed' = renewed
    BY <1>6 DEF DeskRestarts, NoCheck, rows, histories
  <2>3. ClaimInv'
    BY <2>2 DEF ClaimInv, Configured, Issued, Marked, Sole, TokenRead, RefusalKnown,
                TokenKept, Registered, AtWork, Asking
  <2>4. Leased'
    BY <2>2 DEF Leased, AtWork
  <2> QED BY <2>1, <2>3, <2>4
<1>7. ASSUME UNCHANGED <<rows, run, check, creator, histories>>, DeskTyped' PROVE DeskInv'
  <2>1. RunInv'
    BY <1>7, RunsUntouched DEF rows, histories
  <2>2. ClaimInv'
    BY <1>7, ClaimsUntouched DEF rows, histories
  <2>3. Leased'
    BY <1>7 DEF rows, histories, Leased, AtWork
  <2> QED BY <1>7, <2>1, <2>2, <2>3
<1>8. ASSUME NEW todo \in SUBSET Pool, Import(todo) PROVE DeskInv'
  <2>1. UNCHANGED <<rows, run, check, creator, histories>>
    BY <1>8 DEF Import
  <2>2. importer' = [importer EXCEPT !.todo = todo]
    BY <1>8 DEF Import
  <2>3. DeskTyped'
    BY <2>1, <2>2 DEF DeskTyped, RowsTyped, ActorsTyped, Placed, AtWork, rows
  <2> QED BY <1>7, <2>1, <2>3
<1>9. ASSUME NEW a \in importer.todo, Looks(a) PROVE DeskInv'
  <2>1. a \in Pool
    BY DEF DeskTyped, ActorsTyped
  <2>2. DeskTyped'
    BY <1>9, <2>1, PageTyped
  <2>3. UNCHANGED <<rows, run, check, creator, histories>>
    BY <1>9 DEF Looks
  <2> QED BY <1>7, <2>2, <2>3
<1>10. CASE UNCHANGED deskVars
  <2>1. DeskTyped'
    BY <1>10 DEF deskVars, rows, desk, DeskTyped, RowsTyped, ActorsTyped, Placed, AtWork
  <2>2. UNCHANGED <<rows, run, check, creator, histories>>
    BY <1>10 DEF deskVars, desk
  <2> QED BY <1>7, <2>1, <2>2
<1>11. CASE Upserts \/ DeleteSource
  <2>1. PICK a \in Pool : TRUE
    BY <1>11 DEF Upserts, DeleteSource, DeskTyped, ActorsTyped
  <2> QED BY <1>3, <1>11, <2>1
<1>12. CASE DeskWorks
  BY <1>1, <1>2, <1>4, <1>5, <1>9, <1>11, <1>12 DEF DeskWorks
<1>13. CASE DeskAsked
  BY <1>1, <1>2, <1>3, <1>4, <1>5, <1>6, <1>8, <1>13 DEF DeskAsked
<1>14. CASE SyncAliases
  BY <1>8, <1>14 DEF SyncAliases
<1>15. CASE UNCHANGED vars
  BY <1>10, <1>15 DEF vars
<1> QED BY <1>10, <1>12, <1>13, <1>14, <1>15 DEF Next

(* Mailboxes keep the invariant, whatever the manager beside them does.    *)
THEOREM DeskInvariance == Spec => []DeskInv
<1>1. DeskInv /\ [Next]_vars => DeskInv'
  BY IInvStep
<1> QED BY IInvInit, <1>1, PTL DEF Spec

(* No address is registered by two runs, or when it is registered already,  *)
(* whatever is reconciled, imported or given back between the list of       *)
(* registered addresses and the reservations.                              *)
THEOREM AddressesAreTakenOnce == Spec => []TakenOnce
<1>1. DeskInv => TakenOnce
  BY RunInvImpliesTakenOnce DEF DeskInv
<1> QED BY DeskInvariance, <1>1, PTL

(* Two plan checks are kept apart, on accounts and on proxies.             *)
THEOREM ChecksAreApart == Spec => []ChecksApart
<1>1. DeskInv => ChecksApart
  <2> SUFFICES ASSUME DeskInv, NEW c \in Checks, NEW d \in Checks, c # d, Asking(c), Asking(d)
               PROVE  /\ check[c].a = check[d].a /\ check[c].id = check[d].id =>
                           check[c].a \in takenOver
                      /\ check[c].p = check[d].p /\ check[c].p \notin dropped \cup {None} =>
                           check[c].lapsed \/ check[d].lapsed
    BY DEF ChecksApart
  <2> QED BY DEF DeskInv, ClaimInv, Sole, Leased, Asking, AtWork
<1> QED BY DeskInvariance, <1>1, PTL

(* A token counts as missing only when that very token was refused or had   *)
(* expired; or one before it, and it was renewed while a check of the old    *)
(* one was at work (resource_service.py, store_account_plan_failure).       *)
THEOREM TokensAreKept == Spec => []TokenKept
<1>1. DeskInv => TokenKept
  BY DEF DeskInv, ClaimInv
<1> QED BY DeskInvariance, <1>1, PTL
============================================================================
