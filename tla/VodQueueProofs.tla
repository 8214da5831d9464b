--------------------------- MODULE VodQueueProofs ---------------------------
(***************************************************************************)
(* The queue and the slots of the VOD job manager, for any limits: the FIFO *)
(* has neither gaps nor ties nor strangers, jobs start in the order in      *)
(* which they were queued, no slot is counted twice or left free in front   *)
(* of a waiting job, and the map and the queue stay within their sizes.     *)
(***************************************************************************)
EXTENDS VodJobProofs

Inside(q) == {r \in Objs : q[r] > 0}

\* Places are taken from 1 upwards, without gaps or ties.
Packed(q) == {q[r] : r \in Inside(q)} = 1..Cardinality(Inside(q))

\* No place is taken twice.
Untied(q) == \A r, s \in Objs : q[r] > 0 /\ q[r] = q[s] => r = s

-----------------------------------------------------------------------------
(* Packed queues *)

\* Whatever is in the queue, there are finitely many of it.
LEMMA InsideIsFinite ==
    ASSUME NEW q
    PROVE  /\ IsFiniteSet(Inside(q)) /\ Cardinality(Inside(q)) \in Nat
           /\ Inside(q) \subseteq Objs
<1>1. IsFiniteSet(Inside(q)) BY IdsAssumption, FS_Subset DEF Inside
<1> QED BY <1>1, FS_CardinalityType DEF Inside

\* A packed queue has no ties and no place beyond its length.
LEMMA PackedIsUntied ==
    ASSUME NEW q \in [Objs -> Nat], Packed(q)
    PROVE  /\ Untied(q)
           /\ \A r \in Objs : q[r] <= Cardinality(Inside(q))
<1> DEFINE n == Cardinality(Inside(q))
           f == [r \in Inside(q) |-> q[r]]
<1>1. IsFiniteSet(Inside(q)) /\ n \in Nat /\ Inside(q) \subseteq Objs
  BY InsideIsFinite
<1>2. \A r \in Inside(q) : q[r] \in 1..n BY DEF Packed
<1>3. f \in Surjection(Inside(q), 1..n)
  <2>1. f \in [Inside(q) -> 1..n] BY <1>2
  <2>2. \A t \in 1..n : \E r \in Inside(q) : f[r] = t BY DEF Packed
  <2> QED BY <2>1, <2>2 DEF Surjection
<1>4. Cardinality(1..n) = n /\ IsFiniteSet(1..n) BY <1>1, FS_Interval
<1>5. f \in Injection(Inside(q), 1..n) BY <1>1, <1>3, <1>4, FS_Surjection
<1>6. Untied(q) BY <1>5 DEF Injection, IsInjective, Untied, Inside
<1>7. \A r \in Objs : q[r] <= n BY <1>1, <1>2 DEF Inside
<1> QED BY <1>6, <1>7

\* The other way round.
LEMMA UntiedIsPacked ==
    ASSUME NEW q \in [Objs -> Nat], Untied(q),
           \A r \in Objs : q[r] <= Cardinality(Inside(q))
    PROVE  Packed(q)
<1> DEFINE n == Cardinality(Inside(q))
           f == [r \in Inside(q) |-> q[r]]
<1>1. IsFiniteSet(Inside(q)) /\ n \in Nat /\ Inside(q) \subseteq Objs
  BY InsideIsFinite
<1>2. \A r \in Inside(q) : q[r] \in 1..n BY <1>1 DEF Inside
<1>3. f \in Injection(Inside(q), 1..n)
  <2>1. f \in [Inside(q) -> 1..n] BY <1>2
  <2>2. \A r, s \in Inside(q) : f[r] = f[s] => r = s BY DEF Untied, Inside
  <2> QED BY <2>1, <2>2 DEF Injection, IsInjective
<1>4. Cardinality(1..n) = n /\ IsFiniteSet(1..n) BY <1>1, FS_Interval
<1>5. f \in Surjection(Inside(q), 1..n) BY <1>1, <1>3, <1>4, FS_Injection
<1>6. \A t \in 1..n : \E r \in Inside(q) : q[r] = t BY <1>5 DEF Surjection
<1> QED BY <1>2, <1>6 DEF Packed

\* q2 is q with some left out: whoever is in both keeps its elders.
Thinner(q, q2) ==
    /\ \A r \in Objs : q2[r] > 0 => q[r] > 0
    /\ \A r, s \in Objs : q[r] > 0 /\ q[s] > q[r] /\ q2[r] > 0
            => q2[s] > q2[r] \/ q2[s] = 0

\* Leaving out twice is leaving out.
LEMMA ThinnerTwice ==
    ASSUME NEW q \in [Objs -> Nat], NEW q1 \in [Objs -> Nat], NEW q2 \in [Objs -> Nat],
           Thinner(q, q1), Thinner(q1, q2)
    PROVE  Thinner(q, q2)
<1> SUFFICES ASSUME NEW r \in Objs, NEW s \in Objs, q[r] > 0, q[s] > q[r], q2[r] > 0
             PROVE  q2[s] > q2[r] \/ q2[s] = 0
  BY DEF Thinner
<1>1. q1[r] > 0 BY DEF Thinner
<1>2. q1[s] > q1[r] \/ q1[s] = 0 BY <1>1 DEF Thinner
<1>3. CASE q1[s] > q1[r] BY <1>1, <1>3 DEF Thinner
<1>4. CASE q1[s] = 0 BY <1>4 DEF Thinner
<1> QED BY <1>2, <1>3, <1>4

\* compactQueue keeps what it is told to, packed and in order.
LEMMA CompactIsPacked ==
    ASSUME NEW q \in [Objs -> Nat], Untied(q), NEW keep \in SUBSET Objs
    PROVE  /\ Compact(q, keep) \in [Objs -> Nat]
           /\ Inside(Compact(q, keep)) = keep \cap Inside(q)
           /\ Packed(Compact(q, keep))
           /\ Thinner(q, Compact(q, keep))
<1> DEFINE K == keep \cap Inside(q)
           upto(r) == {s \in keep : q[s] > 0 /\ q[s] <= q[r]}
           c == Compact(q, keep)
<1>1. c \in [Objs -> Nat] BY CompactType
<1>2. /\ IsFiniteSet(K) /\ K \subseteq Objs
      /\ \A r \in Objs : upto(r) \subseteq K
  BY IdsAssumption, FS_Subset DEF Inside
<1>3. \A r \in Objs : IsFiniteSet(upto(r)) /\ Cardinality(upto(r)) \in Nat
                      /\ Cardinality(upto(r)) <= Cardinality(K)
  <2> HIDE DEF upto, K
  <2> QED BY <1>2, FS_Subset, FS_CardinalityType
<1>4. \A r \in Objs : c[r] = IF r \in K THEN Cardinality(upto(r)) ELSE 0
  BY DEF Compact, Inside
<1>5. ASSUME NEW r \in K PROVE c[r] > 0
  <2>1. r \in upto(r) BY DEF Inside
  <2> HIDE DEF upto, K, c
  <2>2. Cardinality(upto(r)) # 0 BY <1>2, <1>3, <2>1, FS_EmptySet
  <2> QED BY <1>2, <1>3, <1>4, <2>2
<1>6. ASSUME NEW r \in K, NEW s \in K, q[r] < q[s] PROVE c[r] < c[s]
  <2>1. upto(r) \subseteq upto(s) /\ s \in upto(s) /\ s \notin upto(r)
    BY <1>2, <1>6 DEF Inside
  <2> HIDE DEF upto, K, c
  <2>2. Cardinality(upto(r)) <= Cardinality(upto(s)) /\ upto(r) # upto(s)
    BY <1>2, <1>3, <2>1, FS_Subset
  <2>3. Cardinality(upto(r)) # Cardinality(upto(s))
    BY <1>2, <1>3, <2>1, <2>2, FS_Subset
  <2> QED BY <1>2, <1>3, <1>4, <2>2, <2>3
<1> HIDE DEF upto, c
<1>7. Inside(c) = K BY <1>1, <1>2, <1>4, <1>5 DEF Inside
<1>8. Untied(c)
  <2> SUFFICES ASSUME NEW r \in K, NEW s \in K, c[r] = c[s] PROVE r = s
    BY <1>1, <1>4 DEF Untied
  <2>1. ~(q[r] < q[s]) /\ ~(q[s] < q[r]) BY <1>1, <1>2, <1>6
  <2>2. q[r] = q[s] BY <1>2, <2>1
  <2> QED BY <1>2, <2>2 DEF Untied, Inside
<1>9. \A r \in Objs : c[r] <= Cardinality(Inside(c))
  <2> HIDE DEF K
  <2>1. Cardinality(K) \in Nat BY <1>2, FS_CardinalityType
  <2> QED BY <1>3, <1>4, <1>7, <2>1
<1>10. Packed(c) BY <1>1, <1>8, <1>9, UntiedIsPacked
<1>11. Thinner(q, c)
  <2>1. \A r \in Objs : c[r] > 0 => r \in K BY <1>4
  <2>2. ASSUME NEW r \in Objs, NEW s \in Objs, q[s] > q[r], c[r] > 0
        PROVE  c[s] > c[r] \/ c[s] = 0
    <3>1. r \in K BY <2>1, <2>2
    <3>2. CASE s \in K BY <1>1, <1>6, <2>2, <3>1, <3>2
    <3>3. CASE s \notin K BY <1>4, <3>3
    <3> QED BY <3>2, <3>3
  <2> QED BY <2>1, <2>2 DEF Thinner, Inside
<1> QED BY <1>1, <1>7, <1>10, <1>11 DEF c

-----------------------------------------------------------------------------
(* Records and the line *)

QueuedIn(js, j) == {r \in Current(js) : j[r].state = "queued"}

\* The queue holds exactly the queued records, packed.
Line(js, j, q) ==
    /\ q \in [Objs -> Nat]
    /\ Inside(q) = QueuedIn(js, j)
    /\ Packed(q)

\* A record that gets neither into the queue nor a runner, nor loses one.
Calm(o, p) ==
    /\ p.execution = o.execution
    /\ p.state = "queued" => o.state = "queued"

\* Nor does it leave the queue.
Still(o, p) ==
    /\ p.execution = o.execution
    /\ p.state = "queued" <=> o.state = "queued"

\* Lease expiry and cancellation are calm.
LEMMA TouchesIsCalm ==
    ASSUME NEW o, NEW p, Touches(o, p)
    PROVE  Calm(o, p)
  BY DEF Touches, Calm

\* So is the collector, which takes away nothing current.
LEMMA CollectedIsCalm ==
    ASSUME NEW js, NEW j, NEW r \in Objs, j[r] \in JobRecord
    PROVE  /\ Calm(j[r], Collected(js, j)[r])
           /\ r \in Current(js) => Collected(js, j)[r] = j[r]
<1>1. \/ Collected(js, j)[r] = j[r]
      \/ Collected(js, j)[r] = Blank /\ r \notin Current(js) /\ ~j[r].execution
  BY DEF Collected
<1>2. j[r].execution \in BOOLEAN BY DEF JobRecord
<1>3. Blank.execution = FALSE /\ Blank.state = "free" BY DEF Blank
<1>4. CASE Collected(js, j)[r] = j[r] BY <1>4 DEF Calm
<1>5. CASE Collected(js, j)[r] = Blank /\ r \notin Current(js) /\ ~j[r].execution
  BY <1>2, <1>3, <1>5 DEF Calm
<1> QED BY <1>1, <1>4, <1>5

\* Compacting after calm changes keeps the line.
LEMMA ThinningKeepsLine ==
    ASSUME NEW js, NEW j, NEW q, Line(js, j, q), NEW js2, NEW j2,
           Current(js) \subseteq Objs, Current(js2) \subseteq Current(js),
           \A r \in Current(js2) : j2[r].state = "queued" => j[r].state = "queued"
    PROVE  /\ Line(js2, j2, CompactQueue(q, js2, j2))
           /\ Thinner(q, CompactQueue(q, js2, j2))
<1> DEFINE keep == QueuedIn(js2, j2)
<1>1. keep \subseteq Inside(q) /\ keep \in SUBSET Objs
  BY DEF Line, QueuedIn
<1>2. CompactQueue(q, js2, j2) = Compact(q, keep) BY DEF CompactQueue, QueuedIn
<1>3. q \in [Objs -> Nat] /\ Untied(q) BY PackedIsUntied DEF Line
<1> HIDE DEF keep
<1>4. /\ Compact(q, keep) \in [Objs -> Nat]
      /\ Inside(Compact(q, keep)) = keep \cap Inside(q)
      /\ Packed(Compact(q, keep))
      /\ Thinner(q, Compact(q, keep))
  BY <1>1, <1>3, CompactIsPacked
<1> QED BY <1>1, <1>2, <1>4 DEF Line, keep

\* Nothing in the queue changes: the line stays as it is.
LEMMA StillKeepsLine ==
    ASSUME NEW js, NEW j, NEW q, Line(js, j, q), NEW j2,
           \A r \in Current(js) : j2[r].state = "queued" <=> j[r].state = "queued"
    PROVE  Line(js, j2, q) /\ Thinner(q, q)
<1>1. QueuedIn(js, j2) = QueuedIn(js, j) BY DEF QueuedIn
<1>2. \A r, s \in Objs : q[s] > q[r] \/ q[s] = q[r] \/ q[r] > q[s] BY DEF Line
<1> QED BY <1>1 DEF Line, Thinner

-----------------------------------------------------------------------------
(* startNext *)

\* The first n of a packed queue are n.
LEMMA HeadOfLine ==
    ASSUME NEW q \in [Objs -> Nat], Packed(q), NEW n \in Nat,
           n <= Cardinality(Inside(q))
    PROVE  /\ IsFiniteSet({r \in Objs : q[r] \in 1..n})
           /\ Cardinality({r \in Objs : q[r] \in 1..n}) = n
<1> DEFINE D == {r \in Objs : q[r] \in 1..n}
           f == [r \in D |-> q[r]]
<1>1. IsFiniteSet(D) BY IdsAssumption, FS_Subset
<1>2. Untied(q) BY PackedIsUntied
<1>3. Cardinality(Inside(q)) \in Nat BY InsideIsFinite
<1>4. ASSUME NEW t \in 1..n PROVE \E r \in D : q[r] = t
  <2>1. t \in 1..Cardinality(Inside(q)) BY <1>3
  <2>2. PICK r \in Inside(q) : q[r] = t BY <2>1 DEF Packed
  <2> QED BY <2>2 DEF Inside
<1>5. f \in Injection(D, 1..n)
  <2>1. \A r, s \in D : f[r] = f[s] => r = s BY <1>2 DEF Untied
  <2> QED BY <2>1 DEF Injection, IsInjective
<1>6. f \in Surjection(D, 1..n)
  <2>1. \A t \in 1..n : \E r \in D : f[r] = t BY <1>4
  <2> QED BY <2>1 DEF Surjection
<1>7. f \in Bijection(D, 1..n) BY <1>5, <1>6 DEF Bijection
<1>8. Cardinality(1..n) = Cardinality(D)
  BY <1>1, <1>7, FS_Bijection DEF ExistsBijection
<1>9. Cardinality(1..n) = n BY FS_Interval
<1> QED BY <1>1, <1>8, <1>9

\* The rest moves up.
LEMMA RestMovesUp ==
    ASSUME NEW q \in [Objs -> Nat], Packed(q), NEW n \in Nat,
           n <= Cardinality(Inside(q)),
           NEW q2, q2 = [r \in Objs |-> IF q[r] > n THEN q[r] - n ELSE 0]
    PROVE  /\ q2 \in [Objs -> Nat] /\ Packed(q2)
           /\ Inside(q2) = {r \in Objs : q[r] > n}
           /\ Cardinality(Inside(q2)) = Cardinality(Inside(q)) - n
           /\ \A r, s \in Objs : q[s] > q[r] /\ q2[r] > 0 => q2[s] > q2[r]
<1> DEFINE D == {r \in Objs : q[r] \in 1..n}
<1>1. q2 \in [Objs -> Nat] /\ \A r \in Objs : q2[r] > 0 <=> q[r] > n OBVIOUS
<1>2. Inside(q2) = {r \in Objs : q[r] > n} BY <1>1 DEF Inside
<1>3. Inside(q2) = Inside(q) \ D /\ D \subseteq Inside(q) BY <1>2 DEF Inside
<1>4. Cardinality(D) = n /\ IsFiniteSet(D) BY HeadOfLine
<1>5. Inside(q) \cap D = D BY <1>3
<1>6. Cardinality(Inside(q2)) = Cardinality(Inside(q)) - n
  <2> HIDE DEF D
  <2> QED BY <1>3, <1>4, <1>5, InsideIsFinite, FS_Difference
<1>7. Untied(q2) BY <1>1, PackedIsUntied DEF Untied
<1>8. \A r \in Objs : q2[r] <= Cardinality(Inside(q2))
  <2>1. Cardinality(Inside(q)) \in Nat BY InsideIsFinite
  <2>2. \A r \in Objs : q[r] <= Cardinality(Inside(q)) BY PackedIsUntied
  <2> QED BY <1>6, <2>1, <2>2
<1>9. Packed(q2) BY <1>1, <1>7, <1>8, UntiedIsPacked
<1>10. \A r, s \in Objs : q[s] > q[r] /\ q2[r] > 0 => q2[s] > q2[r] BY <1>1
<1> QED BY <1>1, <1>2, <1>6, <1>9, <1>10

Executing(j) == {r \in Objs : j[r].execution}

\* startNext fills the slots from the head of the line and leaves none free in
\* front of a waiting job.
LEMMA StartingIsOrderly ==
    ASSUME NEW js, NEW j \in [Objs -> JobRecord], NEW q, Line(js, j, q),
           Current(js) \subseteq Objs, \A r \in Objs : RecordIsConsistent(j[r]),
           NEW run \in Int, run = Cardinality(Executing(j)), run <= Concurrency,
           StartNext(j, q, run)
    PROVE  /\ Line(js, job', queue')
           /\ runningJobs' = Cardinality(Executing(job')) /\ runningJobs' <= Concurrency
           /\ ~closing /\ Inside(queue') # {} => runningJobs' = Concurrency
           /\ Cardinality(Inside(queue')) <= Cardinality(Inside(q))
           /\ \A r, s \in Objs : q[s] > q[r] /\ queue'[r] > 0 => queue'[s] > queue'[r]
           /\ \A r \in Objs : queue'[r] > 0 => q[r] > 0
           /\ \A r, s \in Objs : queue'[r] > 0 /\ job'[s].execution
                => j[s].execution \/ (q[s] > 0 /\ q[s] < q[r])
<1> DEFINE n == Slots(q, run)
           W == Cardinality(Inside(q))
           D == {r \in Objs : q[r] \in 1..n}
<1>1. W \in Nat /\ Concurrency \in Nat BY InsideIsFinite, LimitAssumption
<1>2. /\ n \in Nat /\ n <= W /\ run + n <= Concurrency
      /\ ~closing /\ n < W => run + n = Concurrency
  BY <1>1 DEF Slots, Inside
<1> HIDE DEF n
<1>3. /\ job' = [r \in Objs |-> IF q[r] \in 1..n THEN Started(j[r]) ELSE j[r]]
      /\ queue' = [r \in Objs |-> IF q[r] > n THEN q[r] - n ELSE 0]
      /\ runningJobs' = run + n
  BY DEF StartNext, n
<1>4. q \in [Objs -> Nat] /\ Packed(q) /\ Inside(q) = QueuedIn(js, j) BY DEF Line
<1>5. /\ queue' \in [Objs -> Nat] /\ Packed(queue')
      /\ Inside(queue') = {r \in Objs : q[r] > n}
      /\ Cardinality(Inside(queue')) = W - n
      /\ \A r, s \in Objs : q[s] > q[r] /\ queue'[r] > 0 => queue'[s] > queue'[r]
  BY <1>2, <1>3, <1>4, RestMovesUp
<1>6. \A r \in Objs : job'[r] = IF r \in D THEN Started(j[r]) ELSE j[r] BY <1>3
<1>7. \A r \in Objs : Started(j[r]).execution = TRUE /\ Started(j[r]).state = "running"
  BY DEF Started, JobRecord
<1>8. \A r \in D : j[r].state = "queued" /\ ~j[r].execution
  BY <1>2, <1>4 DEF QueuedIn, Inside, RecordIsConsistent
<1>9. QueuedIn(js, job') = Inside(queue')
  <2>1. ASSUME NEW r \in QueuedIn(js, job') PROVE r \in Inside(queue')
    <3>1. r \in Objs /\ r \notin D /\ job'[r] = j[r] BY <1>6, <1>7, <2>1 DEF QueuedIn
    <3>2. r \in Inside(q) BY <1>4, <2>1, <3>1 DEF QueuedIn
    <3> QED BY <1>2, <1>4, <1>5, <3>1, <3>2 DEF Inside
  <2>2. ASSUME NEW r \in Inside(queue') PROVE r \in QueuedIn(js, job')
    <3>1. r \in Objs /\ q[r] > n BY <1>5, <2>2
    <3>2. r \in Inside(q) /\ r \notin D BY <1>2, <1>4, <3>1 DEF Inside
    <3> QED BY <1>4, <1>6, <3>1, <3>2 DEF QueuedIn
  <2> QED BY <2>1, <2>2
<1>10. Executing(job') = Executing(j) \cup D BY <1>6, <1>7 DEF Executing
<1>11. Executing(j) \cap D = {} BY <1>8 DEF Executing
<1>12. IsFiniteSet(Executing(j)) BY IdsAssumption, FS_Subset DEF Executing
<1>13. IsFiniteSet(D) /\ Cardinality(D) = n BY <1>2, <1>4, HeadOfLine
<1>14. Cardinality(Executing(job')) = run + n
  <2> HIDE DEF D
  <2>1. Cardinality(Executing(j) \cup D)
            = Cardinality(Executing(j)) + Cardinality(D) - Cardinality({})
    BY <1>11, <1>12, <1>13, FS_Union
  <2> QED BY <1>2, <1>10, <1>13, <2>1, FS_EmptySet
<1>15. Inside(queue') # {} => n < W
  <2>1. Inside(queue') # {} => Cardinality(Inside(queue')) # 0
    BY InsideIsFinite, FS_EmptySet
  <2> QED BY <1>1, <1>2, <1>5, <2>1
<1>16. \A r, s \in Objs : queue'[r] > 0 /\ job'[s].execution
            => j[s].execution \/ (q[s] > 0 /\ q[s] < q[r])
  BY <1>2, <1>3, <1>4, <1>6
<1>17. \A r \in Objs : queue'[r] > 0 => q[r] > 0 BY <1>2, <1>3, <1>4
<1> QED BY <1>1, <1>2, <1>3, <1>5, <1>9, <1>14, <1>15, <1>16, <1>17 DEF Line

-----------------------------------------------------------------------------
(* Steps that let nothing new into the queue *)

\* The inductive invariant.
QueueInvariant ==
    /\ ScopePurgeInvariant
    /\ Line(jobs, job, queue)
    /\ LimitsAreExact

\* What StartsInOrder says of one step.
InOrder ==
    \A r, s \in Objs :
        queue[r] > 0 /\ queue[s] > queue[r] /\ queue'[r] > 0
        => \/ queue'[s] > queue'[r]
           \/ queue'[s] = 0 /\ ~job'[s].execution

\* No record enters the queue, and no runner starts or stops.
Thins ==
    /\ Line(jobs', job', queue')
    /\ Thinner(queue, queue')
    /\ Current(jobs') \subseteq Current(jobs)
    /\ \A r \in Objs : job'[r].execution = job[r].execution
    /\ runningJobs' = runningJobs
    /\ closing => closing'

\* Such a step keeps the limits and the order.
LEMMA ThinningIsOrderly ==
    ASSUME QueueInvariant, Thins
    PROVE  Line(jobs', job', queue') /\ LimitsAreExact' /\ InOrder
<1>1. Executing(job') = Executing(job) BY DEF Thins, Executing
<1>2. SlotsAreAccounted'
  BY <1>1 DEF QueueInvariant, LimitsAreExact, SlotsAreAccounted, Thins, Executing
<1>3. Inside(queue') \subseteq Inside(queue) BY DEF Thins, Thinner, Inside
<1>4. NoSlotIsWasted'
  BY <1>3 DEF QueueInvariant, LimitsAreExact, NoSlotIsWasted, Thins, Inside
<1>5. RecordsAreBounded'
  <2>1. Cardinality(Inside(queue')) <= Cardinality(Inside(queue))
        /\ Cardinality(Inside(queue')) \in Nat /\ Cardinality(Inside(queue)) \in Nat
    BY <1>3, InsideIsFinite, FS_Subset
  <2>2. IsFiniteSet(Current(jobs))
    <3>1. Current(jobs) \subseteq Objs
      BY DEF QueueInvariant, ScopePurgeInvariant, TypeOK, Current
    <3> QED BY <3>1, IdsAssumption, FS_Subset
  <2>3. Cardinality(Current(jobs')) <= Cardinality(Current(jobs))
        /\ Cardinality(Current(jobs')) \in Nat /\ Cardinality(Current(jobs)) \in Nat
    BY <2>2, FS_Subset, FS_CardinalityType DEF Thins
  <2>4. QueueLimit \in Nat /\ RecordLimit \in Nat BY LimitAssumption
  <2>5. /\ Cardinality(Current(jobs)) <= RecordLimit
        /\ Cardinality(Inside(queue)) <= QueueLimit
    BY DEF QueueInvariant, LimitsAreExact, RecordsAreBounded, Waiting, Inside
  <2>6. /\ Cardinality(Current(jobs')) <= RecordLimit
        /\ Cardinality(Inside(queue')) <= QueueLimit
    BY <2>1, <2>3, <2>4, <2>5
  <2> QED BY <2>6 DEF RecordsAreBounded, Waiting, Inside
<1>6. InOrder
  <2> SUFFICES ASSUME NEW r \in Objs, NEW s \in Objs,
                      queue[r] > 0, queue[s] > queue[r], queue'[r] > 0
               PROVE  queue'[s] > queue'[r] \/ (queue'[s] = 0 /\ ~job'[s].execution)
    BY DEF InOrder
  <2>1. queue[r] \in Nat /\ queue[s] \in Nat BY DEF QueueInvariant, Line
  <2>2. queue[s] > 0 BY <2>1
  <2>3. job[s].state = "queued" /\ RecordIsConsistent(job[s])
    BY <2>2 DEF QueueInvariant, ScopePurgeInvariant, QueueHoldsQueued
  <2>4. ~job'[s].execution BY <2>3 DEF RecordIsConsistent, Thins
  <2>5. queue'[s] > queue'[r] \/ queue'[s] = 0 BY DEF Thins, Thinner
  <2> QED BY <2>4, <2>5
<1> QED BY <1>2, <1>4, <1>5, <1>6 DEF Thins, LimitsAreExact

\* The collector does not see the line.
LEMMA CollectingKeepsLine ==
    ASSUME NEW js, NEW j \in [Objs -> JobRecord], NEW q, Line(js, j, q),
           Current(js) \subseteq Objs
    PROVE  /\ Line(js, Collected(js, j), q)
           /\ \A r \in Objs : Calm(j[r], Collected(js, j)[r])
<1>1. \A r \in Objs : /\ Calm(j[r], Collected(js, j)[r])
                      /\ r \in Current(js) => Collected(js, j)[r] = j[r]
  BY CollectedIsCalm
<1>2. QueuedIn(js, Collected(js, j)) = QueuedIn(js, j) BY <1>1 DEF QueuedIn
<1> QED BY <1>1, <1>2 DEF Line

\* evictExpired thins the line.
LEMMA EvictingThins ==
    ASSUME QueueInvariant
    PROVE  /\ Line(KeptJobs, KeptRecords, KeptQueue)
           /\ Thinner(queue, KeptQueue)
           /\ Current(KeptJobs) \subseteq Current(jobs) /\ Current(jobs) \subseteq Objs
           /\ \A r \in Objs : KeptRecords[r].execution = job[r].execution
           /\ KeptRecords \in [Objs -> JobRecord]
<1>1. /\ jobs \in [Ids -> Objs \cup {NoObj}] /\ job \in [Objs -> JobRecord]
      /\ Line(jobs, job, queue)
  BY DEF QueueInvariant, ScopePurgeInvariant, TypeOK
<1>2. Current(jobs) \subseteq Objs BY <1>1 DEF Current
<1>3. Current(KeptJobs) \subseteq Current(jobs) BY DEF KeptJobs, Current
<1>4. /\ ReapObserverLeases \in [Objs -> JobRecord]
      /\ \A r \in Objs : Calm(job[r], ReapObserverLeases[r])
  BY <1>1, ReapTouches, TouchesIsCalm
<1>5. /\ Line(KeptJobs, ReapObserverLeases, KeptQueue)
      /\ Thinner(queue, KeptQueue)
  <2>1. \A r \in Current(KeptJobs) :
            ReapObserverLeases[r].state = "queued" => job[r].state = "queued"
    BY <1>2, <1>3, <1>4 DEF Calm
  <2> QED BY <1>1, <1>2, <1>3, <2>1, ThinningKeepsLine DEF KeptQueue
<1>6. /\ Line(KeptJobs, KeptRecords, KeptQueue)
      /\ \A r \in Objs : Calm(ReapObserverLeases[r], KeptRecords[r])
  BY <1>2, <1>3, <1>4, <1>5, CollectingKeepsLine DEF KeptRecords
<1>7. KeptRecords \in [Objs -> JobRecord] BY <1>4, CollectedType DEF KeptRecords
<1> QED BY <1>2, <1>3, <1>4, <1>5, <1>6, <1>7 DEF Calm

\* A handler that evicts, then changes records without touching the queue.
LEMMA EvictThenStill ==
    ASSUME QueueInvariant, jobs' = KeptJobs, queue' = KeptQueue,
           \A r \in Objs : Still(KeptRecords[r], job'[r]),
           UNCHANGED <<runningJobs, closing>>
    PROVE  Thins
<1>1. /\ Line(KeptJobs, KeptRecords, KeptQueue)
      /\ Thinner(queue, KeptQueue)
      /\ Current(KeptJobs) \subseteq Current(jobs) /\ Current(jobs) \subseteq Objs
      /\ \A r \in Objs : KeptRecords[r].execution = job[r].execution
  BY EvictingThins
<1>2. Line(KeptJobs, job', KeptQueue)
  <2>1. \A r \in Current(KeptJobs) :
            job'[r].state = "queued" <=> KeptRecords[r].state = "queued"
    BY <1>1 DEF Still
  <2> QED BY <1>1, <2>1, StillKeepsLine
<1> QED BY <1>1, <1>2 DEF Thins, Still

\* The same without an eviction.
LEMMA StillThins ==
    ASSUME QueueInvariant, jobs' = jobs, queue' = queue,
           \A r \in Objs : Still(job[r], job'[r]),
           UNCHANGED runningJobs, closing => closing'
    PROVE  Thins
<1>1. Current(jobs) \subseteq Objs
  BY DEF QueueInvariant, ScopePurgeInvariant, TypeOK, Current
<1>2. Line(jobs, job', queue) /\ Thinner(queue, queue)
  <2>1. \A r \in Current(jobs) : job'[r].state = "queued" <=> job[r].state = "queued"
    BY <1>1 DEF Still
  <2> QED BY <1>1, <2>1, StillKeepsLine DEF QueueInvariant
<1> QED BY <1>2 DEF Thins, Still

\* And when the collector runs after the change.
LEMMA StillThenCollectedThins ==
    ASSUME QueueInvariant, jobs' = jobs, queue' = queue,
           NEW j \in [Objs -> JobRecord], job' = Collected(jobs, j),
           \A r \in Objs : Still(job[r], j[r]),
           UNCHANGED <<runningJobs, closing>>
    PROVE  Thins
<1>1. Current(jobs) \subseteq Objs
  BY DEF QueueInvariant, ScopePurgeInvariant, TypeOK, Current
<1>2. Line(jobs, j, queue) /\ Thinner(queue, queue)
  <2>1. \A r \in Current(jobs) : j[r].state = "queued" <=> job[r].state = "queued"
    BY <1>1 DEF Still
  <2> QED BY <1>1, <2>1, StillKeepsLine DEF QueueInvariant
<1>3. Line(jobs, job', queue) /\ \A r \in Objs : Calm(j[r], job'[r])
  BY <1>1, <1>2, CollectingKeepsLine
<1> QED BY <1>2, <1>3 DEF Thins, Still, Calm

\* A step that drops records from the map, collects and compacts.
LEMMA DroppingThins ==
    ASSUME QueueInvariant, NEW j, j \in [Objs -> JobRecord],
           \A r \in Objs : Still(job[r], j[r]),
           NEW js, Current(js) \subseteq Current(jobs), jobs' = js,
           job' = Collected(js, j), queue' = CompactQueue(queue, js, job),
           UNCHANGED <<runningJobs, closing>>
    PROVE  Thins
<1>1. Current(jobs) \subseteq Objs
  BY DEF QueueInvariant, ScopePurgeInvariant, TypeOK, Current
<1>2. Line(js, job, queue') /\ Thinner(queue, queue')
  BY <1>1, ThinningKeepsLine DEF QueueInvariant
<1>3. Line(js, j, queue')
  <2>1. \A r \in Current(js) : j[r].state = "queued" <=> job[r].state = "queued"
    BY <1>1 DEF Still
  <2> QED BY <1>2, <2>1, StillKeepsLine
<1>4. Line(js, job', queue') /\ \A r \in Objs : Calm(j[r], job'[r])
  BY <1>1, <1>3, CollectingKeepsLine
<1> QED BY <1>2, <1>4 DEF Thins, Still, Calm

-----------------------------------------------------------------------------
(* Handlers *)

\* Changing one record as Still allows.
LEMMA OneIsStill ==
    ASSUME NEW j \in [Objs -> JobRecord], NEW r, NEW o,
           r \in Objs => Still(j[r], o)
    PROVE  \A s \in Objs : Still(j[s], [j EXCEPT ![r] = o][s])
<1> TAKE s \in Objs
<1>1. CASE s = r BY <1>1
<1>2. CASE s # r BY <1>2 DEF Still
<1> QED BY <1>1, <1>2

\* What the invariant says of types.
LEMMA QueueTypes ==
    ASSUME QueueInvariant
    PROVE  /\ job \in [Objs -> JobRecord] /\ queue \in [Objs -> Nat]
           /\ jobs \in [Ids -> Objs \cup {NoObj}]
           /\ Current(jobs) \subseteq Objs /\ runningJobs \in Int
           /\ KeptRecords \in [Objs -> JobRecord]
           /\ \A r \in Objs : RecordIsConsistent(job[r])
  BY EvictingThins DEF QueueInvariant, ScopePurgeInvariant, TypeOK

\* Answers that only evict.
LEMMA GetThins ==
    ASSUME QueueInvariant, Get
    PROVE  Thins
<1>1. \A r \in Objs : Still(KeptRecords[r], job'[r])
  BY DEF Get, EvictExpired, Still
<1> QED BY <1>1, EvictThenStill DEF Get, EvictExpired

\* An observer's lease.
LEMMA ObserveThins ==
    ASSUME QueueInvariant, NEW i \in Ids, NEW w \in Observers, Observe(i, w)
    PROVE  Thins
<1> DEFINE r == KeptJobs[i]
           o == KeptRecords[r]
           p == ScheduleObserverLeaseExpiry([o EXCEPT !.enforced = TRUE,
                    !.leases = @ \cup {w}, !.lapsed = @ \ {w}])
<1>1. ASSUME r \in Objs PROVE Still(o, p)
  <2>1. o \in JobRecord BY <1>1, QueueTypes
  <2> HIDE DEF o
  <2> QED BY <2>1 DEF Still, JobRecord, ScheduleObserverLeaseExpiry
<1>2. job' = [KeptRecords EXCEPT ![r] = p] BY DEF Observe
<1> HIDE DEF p
<1>3. \A s \in Objs : Still(KeptRecords[s], job'[s])
  BY <1>1, <1>2, QueueTypes, OneIsStill
<1> QED BY <1>3, EvictThenStill DEF Observe

\* A request for a completed artifact.
LEMMA RequestMediaThins ==
    ASSUME QueueInvariant, NEW x \in Readers, NEW i \in Ids,
           NEW kind \in {"media", "status"}, RequestMedia(x, i, kind)
    PROVE  Thins
<1> DEFINE r == KeptJobs[i]
           o == KeptRecords[r]
           p == [o EXCEPT !.verification = TRUE]
<1>1. ASSUME r \in Objs PROVE Still(o, p)
  <2>1. o \in JobRecord BY <1>1, QueueTypes
  <2> HIDE DEF o
  <2> QED BY <2>1 DEF Still, JobRecord
<1>2. job' = [KeptRecords EXCEPT ![r] = p]
  <2>1. job' = [KeptRecords EXCEPT ![r].verification = TRUE] BY DEF RequestMedia
  <2> QED BY <2>1
<1> HIDE DEF p
<1>3. \A s \in Objs : Still(KeptRecords[s], job'[s])
  BY <1>1, <1>2, QueueTypes, OneIsStill
<1> QED BY <1>3, EvictThenStill DEF RequestMedia

\* A purge that begins.
LEMMA PurgeThins ==
    ASSUME QueueInvariant, NEW i \in Ids, Purge(i)
    PROVE  Thins
<1> DEFINE r == KeptJobs[i]
           o == KeptRecords[r]
           p == [o EXCEPT !.purging = TRUE, !.purgeOperation = "draining"]
<1>1. ASSUME r \in Objs PROVE Still(o, p)
  <2>1. o \in JobRecord BY <1>1, QueueTypes
  <2> HIDE DEF o
  <2> QED BY <2>1 DEF Still, JobRecord
<1>2. job' = [KeptRecords EXCEPT ![r] = p]
  <2>1. job' = [KeptRecords EXCEPT ![r].purging = TRUE,
                                   ![r].purgeOperation = "draining"] BY DEF Purge
  <2> QED BY <2>1
<1> HIDE DEF p
<1>3. \A s \in Objs : Still(KeptRecords[s], job'[s])
  BY <1>1, <1>2, QueueTypes, OneIsStill
<1> QED BY <1>3, EvictThenStill DEF Purge

\* A scope purge that begins cancels the live jobs of its consumer.
LEMMA PurgeConsumerCacheThins ==
    ASSUME QueueInvariant, NEW i \in Ids, PurgeConsumerCache(i)
    PROVE  Thins
<1> DEFINE scope == ScopeJobs(ConsumerOf[i], KeptJobs, KeptRecords)
           Flagged(r) == [KeptRecords[r] EXCEPT !.consumerPurging = TRUE]
           Held(r) == FinalizeCancellation(Flagged(r), "user-requested")
           j == [r \in Objs |-> IF r \in scope THEN Held(r) ELSE KeptRecords[r]]
<1>1. /\ job' = j /\ jobs' = KeptJobs /\ UNCHANGED <<runningJobs, closing>>
      /\ queue' = CompactQueue(KeptQueue, KeptJobs, j)
  BY DEF PurgeConsumerCache
<1>2. /\ Line(KeptJobs, KeptRecords, KeptQueue)
      /\ Thinner(queue, KeptQueue)
      /\ Current(KeptJobs) \subseteq Current(jobs) /\ Current(jobs) \subseteq Objs
      /\ \A r \in Objs : KeptRecords[r].execution = job[r].execution
      /\ KeptRecords \in [Objs -> JobRecord]
  BY EvictingThins
<1>3. ASSUME NEW r \in Objs PROVE Calm(KeptRecords[r], Held(r))
  <2>1. /\ Flagged(r) \in JobRecord
        /\ Flagged(r).execution = KeptRecords[r].execution
        /\ Flagged(r).state = KeptRecords[r].state
    <3> DEFINE o == KeptRecords[r]
    <3>1. o \in JobRecord BY <1>2
    <3> HIDE DEF o
    <3>2. LET p == [o EXCEPT !.consumerPurging = TRUE] IN
          p \in JobRecord /\ p.execution = o.execution /\ p.state = o.state
      BY <3>1 DEF JobRecord
    <3> QED BY <3>2 DEF o
  <2> HIDE DEF Flagged
  <2>2. Touches(Flagged(r), Held(r)) BY <2>1, FinalizeTouches DEF Reasons
  <2>3. Calm(Flagged(r), Held(r)) BY <2>2, TouchesIsCalm
  <2> QED BY <2>1, <2>3 DEF Calm
<1> HIDE DEF Held, scope
<1>4. \A r \in Objs : Calm(KeptRecords[r], j[r]) BY <1>3 DEF Calm
<1> HIDE DEF j
<1>5. /\ Line(KeptJobs, j, CompactQueue(KeptQueue, KeptJobs, j))
      /\ Thinner(KeptQueue, CompactQueue(KeptQueue, KeptJobs, j))
  <2>1. Current(KeptJobs) \subseteq Objs BY <1>2
  <2>2. \A r \in Current(KeptJobs) :
            j[r].state = "queued" => KeptRecords[r].state = "queued"
    BY <1>4, <2>1 DEF Calm
  <2> QED BY <1>2, <2>1, <2>2, ThinningKeepsLine
<1>6. Thinner(queue, queue')
  BY <1>1, <1>2, <1>5, QueueTypes, ThinnerTwice DEF Line
<1> QED BY <1>1, <1>2, <1>4, <1>5, <1>6 DEF Thins, Calm

\* A handler that touches one record and compacts.
LEMMA UpdateJobThins ==
    ASSUME QueueInvariant, NEW r, NEW o, r \in Objs => Touches(job[r], o),
           UpdateJob(r, o)
    PROVE  Thins
<1> DEFINE j == [job EXCEPT ![r] = o]
<1>1. job \in [Objs -> JobRecord] /\ Line(jobs, job, queue)
      /\ Current(jobs) \subseteq Objs
  BY QueueTypes DEF QueueInvariant
<1>2. ASSUME NEW s \in Objs PROVE Calm(job[s], j[s])
  <2>1. CASE s = r BY <1>1, <2>1, TouchesIsCalm
  <2>2. CASE s # r BY <2>2 DEF Calm
  <2> QED BY <2>1, <2>2
<1>3. /\ job' = j /\ queue' = CompactQueue(queue, jobs, j)
      /\ UNCHANGED <<jobs, runningJobs, closing>>
  BY DEF UpdateJob
<1> HIDE DEF j
<1>4. Line(jobs, j, queue') /\ Thinner(queue, queue')
  <2>1. \A s \in Current(jobs) : j[s].state = "queued" => job[s].state = "queued"
    BY <1>1, <1>2 DEF Calm
  <2> QED BY <1>1, <1>3, <2>1, ThinningKeepsLine
<1> QED BY <1>2, <1>3, <1>4 DEF Thins, Calm

\* Renewing, expiring, cancelling and the deadline are such handlers.
LEMMA UpdatesThin ==
    ASSUME QueueInvariant,
           \/ \E i \in Ids : Cancel(i) \/ \E w \in Observers : RenewObserver(i, w)
           \/ \E r \in Objs : ObserverLeaseTimer(r) \/ ExecutionDeadline(r)
    PROVE  Thins
<1>1. job \in [Objs -> JobRecord] /\ jobs \in [Ids -> Objs \cup {NoObj}]
  BY QueueTypes
<1>2. ASSUME NEW i \in Ids, Cancel(i) PROVE Thins
  <2>1. jobs[i] \in Objs /\ job[jobs[i]] \in JobRecord BY <1>1, <1>2 DEF Cancel
  <2>2. Touches(job[jobs[i]], FinalizeCancellation(job[jobs[i]], "user-requested"))
    BY <2>1, FinalizeTouches DEF Reasons
  <2> QED BY <1>2, <2>2, UpdateJobThins DEF Cancel
<1>3. ASSUME NEW i \in Ids, NEW w \in Observers, RenewObserver(i, w) PROVE Thins
  <2> DEFINE r == jobs[i]
             o == ExpireObserverLeases(job[r])
             p == IF TerminalJob(o) \/ w \notin o.leases THEN o
                  ELSE ScheduleObserverLeaseExpiry(o)
  <2>1. r \in Objs /\ job[r] \in JobRecord BY <1>1, <1>3 DEF RenewObserver
  <2>2. Touches(job[r], o) BY <2>1, ExpireTouches
  <2>3. Touches(job[r], ScheduleObserverLeaseExpiry(o))
    BY <2>2, ScheduleTouches, TouchesIsTransitive DEF Touches
  <2>4. UpdateJob(r, p) BY <1>3 DEF RenewObserver
  <2> HIDE DEF o
  <2>5. Touches(job[r], p) BY <2>2, <2>3
  <2> QED BY <2>4, <2>5, UpdateJobThins
<1>4. ASSUME NEW r \in Objs, ObserverLeaseTimer(r) PROVE Thins
  <2> DEFINE o == [job[r] EXCEPT !.leaseTimer = FALSE]
             p == ScheduleObserverLeaseExpiry(ExpireObserverLeases(o))
  <2>1. job[r] \in JobRecord BY <1>1
  <2>2. o \in JobRecord /\ Touches(job[r], o) BY <2>1 DEF Touches, JobRecord
  <2>3. Touches(job[r], ExpireObserverLeases(o))
    BY <2>2, ExpireTouches, TouchesIsTransitive
  <2>4. Touches(job[r], p) BY <2>3, ScheduleTouches, TouchesIsTransitive DEF Touches
  <2>5. UpdateJob(r, p) BY <1>4 DEF ObserverLeaseTimer
  <2> QED BY <2>4, <2>5, UpdateJobThins
<1>5. ASSUME NEW r \in Objs, ExecutionDeadline(r) PROVE Thins
  <2> DEFINE o == [job[r] EXCEPT !.deadlineTimer = FALSE]
  <2>1. job[r] \in JobRecord BY <1>1
  <2>2. o \in JobRecord /\ Touches(job[r], o) BY <2>1 DEF Touches, JobRecord
  <2>3. Touches(job[r], FinalizeCancellation(o, "execution-deadline"))
    BY <2>2, FinalizeTouches, TouchesIsTransitive DEF Reasons
  <2> QED BY <1>5, <2>3, UpdateJobThins DEF ExecutionDeadline
<1> QED BY <1>2, <1>3, <1>4, <1>5

\* A record changed as Still allows, and nothing else of this module.
LEMMA OneThins ==
    ASSUME QueueInvariant, NEW r, NEW o,
           r \in Objs => Still(job[r], o), job' = [job EXCEPT ![r] = o],
           UNCHANGED <<jobs, queue, runningJobs, closing>>
    PROVE  Thins
  BY QueueTypes, OneIsStill, StillThins

\* The runner publishes.
LEMMA RunnerPublishesThins ==
    ASSUME QueueInvariant, NEW r \in Objs, RunnerPublishes(r)
    PROVE  Thins
<1> DEFINE o == job[r]
           p == [o EXCEPT !.published = TRUE]
<1>1. o \in JobRecord BY QueueTypes
<1>2. job' = [job EXCEPT ![r] = p] BY DEF RunnerPublishes
<1>3. Still(o, p)
  <2> HIDE DEF o
  <2> QED BY <1>1 DEF Still, JobRecord
<1> HIDE DEF p
<1> QED BY <1>2, <1>3, OneThins DEF RunnerPublishes

\* The steps of a purge that leave the map alone.
LEMMA PurgeRecordThins ==
    ASSUME QueueInvariant, NEW r \in Objs,
           \/ PurgeDrained(r) \/ PurgeDrainTimeout(r) \/ PurgeVerified(r)
           \/ PurgeUnlinkFails(r) \/ PurgeUnlinks(r)
    PROVE  Thins
<1> DEFINE o == job[r]
           verifying == [o EXCEPT !.verification = TRUE, !.purgeOperation = "verifying"]
           unlinking == [o EXCEPT !.purgeOperation = "unlinking"]
           unlinked == [o EXCEPT !.purgeOperation = "unlinked"]
           givenUp == PurgeGivesUp(o)
<1>1. o \in JobRecord BY QueueTypes
<1>2. /\ Still(o, verifying) /\ Still(o, unlinking) /\ Still(o, unlinked)
      /\ Still(o, givenUp)
  <2> HIDE DEF o
  <2> QED BY <1>1 DEF Still, JobRecord, PurgeGivesUp
<1>3. PICK p \in {verifying, unlinking, unlinked, givenUp} : job' = [job EXCEPT ![r] = p]
  <2>1. PurgeUnlinks(r) => job' = [job EXCEPT ![r] = unlinked]
    <3>1. PurgeUnlinks(r) => job' = [job EXCEPT ![r].purgeOperation = "unlinked"]
      BY DEF PurgeUnlinks
    <3> QED BY <3>1
  <2>2. PurgeDrained(r) =>
            job' = [job EXCEPT ![r] = verifying] \/ job' = [job EXCEPT ![r] = givenUp]
    BY Zenon DEF PurgeDrained, PurgeStep
  <2>3. PurgeVerified(r) =>
            job' = [job EXCEPT ![r] = unlinking] \/ job' = [job EXCEPT ![r] = givenUp]
    BY Zenon DEF PurgeVerified, PurgeStep
  <2>4. PurgeDrainTimeout(r) \/ PurgeUnlinkFails(r) => job' = [job EXCEPT ![r] = givenUp]
    BY Zenon DEF PurgeDrainTimeout, PurgeUnlinkFails, PurgeStep
  <2> HIDE DEF verifying, unlinking, unlinked, givenUp
  <2> QED BY <2>1, <2>2, <2>3, <2>4
<1>4. UNCHANGED <<jobs, queue, runningJobs, closing>>
  BY DEF PurgeDrained, PurgeDrainTimeout, PurgeVerified, PurgeUnlinkFails,
         PurgeUnlinks, PurgeStep
<1> HIDE DEF verifying, unlinking, unlinked, givenUp
<1>5. Still(o, p) BY <1>2
<1> QED BY <1>3, <1>4, <1>5, OneThins

\* A purge that completes drops its record.
LEMMA PurgeCompletesThins ==
    ASSUME QueueInvariant, NEW r \in Objs, PurgeCompletes(r)
    PROVE  Thins
<1> DEFINE o == job[r]
           p == [o EXCEPT !.purgeOperation = "none"]
           j == [job EXCEPT ![r] = p]
           js == [jobs EXCEPT ![job[r].id] = NoObj]
<1>1. job \in [Objs -> JobRecord] /\ o \in JobRecord
      /\ jobs \in [Ids -> Objs \cup {NoObj}]
  BY QueueTypes
<1>2. p \in JobRecord /\ Still(o, p)
  <2> HIDE DEF o
  <2> QED BY <1>1 DEF Still, JobRecord
<1>3. [job EXCEPT ![r].purgeOperation = "none"] = j OBVIOUS
<1>4. /\ jobs' = js /\ job' = Collected(js, j) /\ queue' = CompactQueue(queue, js, job)
      /\ UNCHANGED <<runningJobs, closing>>
  BY <1>3 DEF PurgeCompletes
<1>5. Current(js) \subseteq Current(jobs) BY <1>1 DEF Current
<1> HIDE DEF p, js
<1>6. j \in [Objs -> JobRecord] BY <1>1, <1>2
<1>7. \A s \in Objs : Still(job[s], j[s]) BY <1>1, <1>2, OneIsStill
<1> HIDE DEF j
<1> QED BY <1>4, <1>5, <1>6, <1>7, DroppingThins

\* A verification that settles was of a record that had finished.
LEMMA VerificationThins ==
    ASSUME QueueInvariant, NEW r \in Objs, NEW ok \in BOOLEAN,
           VerificationSettles(r, ok)
    PROVE  Thins
<1> DEFINE v == job[r]
           o == [v EXCEPT !.verification = FALSE,
                    !.purgeOperation = IF @ = "verifying" THEN "verified" ELSE @]
           p == IF ok THEN o ELSE Invalidated(o)
           j == [job EXCEPT ![r] = p]
<1>1. v \in JobRecord /\ RecordIsConsistent(v) /\ v.verification
      /\ job \in [Objs -> JobRecord]
  BY QueueTypes DEF VerificationSettles
<1>2. p \in JobRecord /\ Still(v, p)
  <2> HIDE DEF v
  <2>1. /\ o \in JobRecord /\ o.execution = v.execution /\ o.state = v.state
        /\ v.state # "queued"
    BY <1>1 DEF JobRecord, RecordIsConsistent
  <2> HIDE DEF o
  <2>2. /\ Invalidated(o) \in JobRecord /\ Invalidated(o).execution = o.execution
        /\ Invalidated(o).state = "failed"
    BY <2>1 DEF Invalidated, JobRecord, Terminal
  <2> QED BY <2>1, <2>2 DEF Still
<1>3. /\ jobs' = jobs /\ queue' = queue /\ job' = Collected(jobs, j)
      /\ UNCHANGED <<runningJobs, closing>>
  BY DEF VerificationSettles
<1> HIDE DEF p
<1>4. j \in [Objs -> JobRecord] /\ \A s \in Objs : Still(job[s], j[s])
  BY <1>1, <1>2, OneIsStill
<1> HIDE DEF j
<1> QED BY <1>3, <1>4, StillThenCollectedThins

\* A reader's step changes one record and collects.
LEMMA ReaderStepThins ==
    ASSUME QueueInvariant, NEW x \in Readers, NEW o, NEW next, ReaderStep(x, o, next),
           reader[x].obj \in Objs => o \in JobRecord /\ Still(job[reader[x].obj], o)
    PROVE  Thins
<1> DEFINE r == reader[x].obj
           j == [job EXCEPT ![r] = o]
<1>1. job \in [Objs -> JobRecord] BY QueueTypes
<1>2. j \in [Objs -> JobRecord] BY <1>1
<1>3. \A s \in Objs : Still(job[s], j[s]) BY <1>1, OneIsStill
<1>4. /\ jobs' = jobs /\ queue' = queue /\ job' = Collected(jobs, j)
      /\ UNCHANGED <<runningJobs, closing>>
  BY DEF ReaderStep
<1> HIDE DEF j
<1> QED BY <1>2, <1>3, <1>4, StillThenCollectedThins

\* All three of them.
LEMMA ReadersThin ==
    ASSUME QueueInvariant, NEW x \in Readers,
           AcquireMedia(x) \/ StatusAnswers(x) \/ ReleaseMedia(x)
    PROVE  Thins
<1> DEFINE r == reader[x].obj
           o == job[r]
           fresh == [o EXCEPT !.outlived = FALSE]
           touched == IF o.state = "completed" THEN fresh ELSE o
           read == [touched EXCEPT !.reads = @ + 1]
           released == [o EXCEPT !.reads = IF @ > 0 THEN @ - 1 ELSE 0]
<1>1. ASSUME r \in Objs
      PROVE  \A p \in {o, fresh, touched, read, released} : p \in JobRecord /\ Still(o, p)
  <2>1. o \in JobRecord BY <1>1, QueueTypes
  <2> HIDE DEF o
  <2>2. fresh \in JobRecord /\ Still(o, fresh) /\ Still(o, o)
    BY <2>1 DEF JobRecord, Still
  <2>3. released \in JobRecord /\ Still(o, released) BY <2>1 DEF JobRecord, Still
  <2> HIDE DEF fresh
  <2>4. touched \in JobRecord /\ Still(o, touched) BY <2>1, <2>2
  <2> HIDE DEF touched
  <2>5. read \in JobRecord /\ Still(o, read) BY <2>4 DEF JobRecord, Still
  <2> QED BY <2>1, <2>2, <2>3, <2>4, <2>5
<1>2. PICK p \in {o, fresh, touched, read, released} : \E next : ReaderStep(x, p, next)
  <2>1. AcquireMedia(x) => \/ ReaderStep(x, read, [reader[x] EXCEPT !.pc = "reading"])
                           \/ ReaderStep(x, touched, IdleReader)
    BY DEF AcquireMedia
  <2>2. StatusAnswers(x) => ReaderStep(x, fresh, IdleReader) \/ ReaderStep(x, o, IdleReader)
    BY DEF StatusAnswers
  <2>3. ReleaseMedia(x) =>
            \/ ReaderStep(x, released, [reader[x] EXCEPT !.pc = "released"])
            \/ ReaderStep(x, o, IdleReader)
    BY DEF ReleaseMedia
  <2> HIDE DEF o, fresh, touched, read, released
  <2> QED BY <2>1, <2>2, <2>3
<1>3. PICK next : ReaderStep(x, p, next) BY <1>2
<1> HIDE DEF o, fresh, touched, read, released
<1>4. r \in Objs => p \in JobRecord /\ Still(o, p) BY <1>1
<1> QED BY <1>3, <1>4, ReaderStepThins DEF o

\* The purge of a scope, up to the removal of its records.
LEMMA ScopePurgeThins ==
    ASSUME QueueInvariant, NEW c \in Consumers, ScopePurgeStep(c)
    PROVE  Thins
<1>0. job \in [Objs -> JobRecord] BY QueueTypes
<1>1. CASE \/ ScopeExecutionsSettle(c) \/ ScopeReadsDrain(c) \/ ScopeVerified(c)
           \/ ScopeScavenges(c) \/ ScopeDetaches(c)
  <2>1. UNCHANGED <<jobs, job, queue, runningJobs, closing>>
    BY <1>1 DEF ScopeExecutionsSettle, ScopeReadsDrain, ScopeVerified,
                ScopeScavenges, ScopeDetaches, scopeRest
  <2>2. \A r \in Objs : Still(job[r], job'[r]) BY <2>1 DEF Still
  <2> QED BY <2>1, <2>2, StillThins
<1>2. CASE ScopeVerifies(c)
  <2> DEFINE r == scopeOp[c].job
             v == job[r]
             o == [v EXCEPT !.verification = TRUE]
  <2>1. job' = [job EXCEPT ![r] = o] /\ UNCHANGED <<jobs, queue, runningJobs, closing>>
    <3>1. job' = [job EXCEPT ![r].verification = TRUE] BY <1>2 DEF ScopeVerifies
    <3> QED BY <1>2, <3>1 DEF ScopeVerifies, scopeRest
  <2>2. r \in Objs => Still(v, o)
    <3>1. r \in Objs => v \in JobRecord BY <1>0
    <3> HIDE DEF v, r
    <3> QED BY <3>1 DEF Still, JobRecord
  <2> HIDE DEF o
  <2> QED BY <2>1, <2>2, OneThins
<1>3. CASE ScopeTimeout(c) \/ ScopeInvalid(c) \/ ScopeFilesFail(c)
  <2>1. ScopeGivesUp(c) BY <1>3 DEF ScopeTimeout, ScopeInvalid, ScopeFilesFail
  <2>2. \A r \in Objs : Still(job[r], job'[r])
    <3> TAKE r \in Objs
    <3> DEFINE o == job[r]
    <3>1. o \in JobRecord BY <1>0
    <3>2. job'[r] = [o EXCEPT !.consumerPurging = FALSE] \/ job'[r] = o
      BY <2>1 DEF ScopeGivesUp
    <3> HIDE DEF o
    <3>3. Still(o, job'[r]) BY <3>1, <3>2 DEF Still, JobRecord
    <3> QED BY <3>3 DEF o
  <2> QED BY <2>1, <2>2, StillThins DEF ScopeGivesUp
<1>4. ASSUME NEW ok \in BOOLEAN, ScopeRemoved(c, ok) PROVE Thins
  <2> DEFINE js == [i \in Ids |-> IF jobs[i] \in scopeOp[c].scope THEN NoObj ELSE jobs[i]]
  <2>1. /\ jobs' = js /\ job' = Collected(js, job)
        /\ queue' = CompactQueue(queue, js, job)
        /\ UNCHANGED <<runningJobs, closing>>
    BY <1>4 DEF ScopeRemoved
  <2>2. Current(js) \subseteq Current(jobs) BY DEF Current
  <2>3. \A r \in Objs : Still(job[r], job[r]) BY DEF Still
  <2> HIDE DEF js
  <2> QED BY <1>0, <2>1, <2>2, <2>3, DroppingThins
<1> QED BY <1>1, <1>2, <1>3, <1>4 DEF ScopePurgeStep

\* Time changes no record's state.
LEMMA TimeThins ==
    ASSUME QueueInvariant, TimeStep
    PROVE  Thins
<1>0. job \in [Objs -> JobRecord] BY QueueTypes
<1>1. ASSUME NEW r \in Objs, Outlive(r) PROVE Thins
  <2> DEFINE v == job[r]
             o == [v EXCEPT !.outlived = TRUE]
  <2>1. job' = [job EXCEPT ![r] = o] BY <1>1 DEF Outlive
  <2>2. Still(v, o)
    <3>1. v \in JobRecord BY <1>0
    <3> HIDE DEF v
    <3> QED BY <3>1 DEF Still, JobRecord
  <2> HIDE DEF o
  <2> QED BY <1>1, <2>1, <2>2, OneThins DEF Outlive, timeRest
<1>2. ASSUME NEW r \in Objs, NEW w \in Observers, LeaseLapses(r, w) PROVE Thins
  <2> DEFINE v == job[r]
             o == [v EXCEPT !.lapsed = @ \cup {w}]
  <2>1. job' = [job EXCEPT ![r] = o] BY <1>2 DEF LeaseLapses
  <2>2. Still(v, o)
    <3>1. v \in JobRecord BY <1>0
    <3> HIDE DEF v
    <3> QED BY <3>1 DEF Still, JobRecord
  <2> HIDE DEF o
  <2> QED BY <1>2, <2>1, <2>2, OneThins DEF LeaseLapses, timeRest
<1>3. ASSUME NEW i \in Ids, TombstoneOutlives(i) PROVE Thins
  <2>1. UNCHANGED <<jobs, job, queue, runningJobs, closing>>
    BY <1>3 DEF TombstoneOutlives, timeRest
  <2>2. \A r \in Objs : Still(job[r], job'[r]) BY <2>1 DEF Still
  <2> QED BY <2>1, <2>2, StillThins
<1> QED BY <1>1, <1>2, <1>3 DEF TimeStep

\* Shutdown cancels all that waits.
LEMMA CloseThins ==
    ASSUME QueueInvariant, Close
    PROVE  Thins
<1> DEFINE Final(r) == FinalizeCancellation(job[r], "engine-shutdown")
           Stopped(r) == [Final(r) EXCEPT !.deadlineTimer = FALSE]
<1>1. /\ job \in [Objs -> JobRecord] /\ Current(jobs) \subseteq Objs
      /\ \A r \in Objs : RecordIsConsistent(job[r])
  BY QueueTypes
<1>2. ASSUME NEW r \in Objs
      PROVE  /\ Touches(job[r], FinishObserverLeases(Stopped(r)))
             /\ FinishObserverLeases(Stopped(r)).state # "queued"
  <2> DEFINE o == job[r]
             ended == [o EXCEPT !.cancellation = "engine-shutdown",
                          !.state = "cancelled", !.deadlineTimer = FALSE,
                          !.outlived = FALSE]
  <2>1. o \in JobRecord /\ RecordIsConsistent(o) BY <1>1
  <2>2. Touches(o, Final(r)) /\ Final(r) \in JobRecord
    BY <2>1, FinalizeTouches DEF Reasons, Touches
  <2>3. Final(r).state # "queued"
    <3>1. CASE TerminalJob(o) \/ o.cancellation # "none"
      <4>1. Final(r) = o BY <3>1 DEF FinalizeCancellation
      <4> HIDE DEF o
      <4> QED BY <2>1, <3>1, <4>1 DEF TerminalJob, Terminal, RecordIsConsistent
    <3>2. CASE ~(TerminalJob(o) \/ o.cancellation # "none")
      <4>1. Final(r) = FinishObserverLeases(ended) BY <3>2 DEF FinalizeCancellation
      <4> HIDE DEF o
      <4>2. ended \in JobRecord /\ ended.state = "cancelled"
        BY <2>1 DEF JobRecord, Terminal, Reasons
      <4> HIDE DEF ended
      <4>3. FinishObserverLeases(ended).state = "cancelled"
        BY <4>2 DEF FinishObserverLeases, JobRecord
      <4> QED BY <4>1, <4>3
    <3> QED BY <3>1, <3>2
  <2> HIDE DEF Final, o
  <2>4. /\ Touches(Final(r), Stopped(r)) /\ Stopped(r) \in JobRecord
        /\ Stopped(r).state = Final(r).state
    BY <2>2 DEF Touches, JobRecord
  <2> HIDE DEF Stopped
  <2>5. /\ Touches(Stopped(r), FinishObserverLeases(Stopped(r)))
        /\ FinishObserverLeases(Stopped(r)).state = Stopped(r).state
    BY <2>4, FinishTouches DEF FinishObserverLeases, JobRecord
  <2>6. Touches(o, FinishObserverLeases(Stopped(r)))
    BY <2>2, <2>4, <2>5, TouchesIsTransitive
  <2> QED BY <2>3, <2>4, <2>5, <2>6 DEF o
<1>3. /\ job' = [r \in Objs |-> IF r \in Current(jobs)
                                THEN FinishObserverLeases(Stopped(r)) ELSE job[r]]
      /\ jobs' = jobs /\ runningJobs' = runningJobs /\ closing'
      /\ queue' = [r \in Objs |-> 0]
  BY DEF Close
<1> HIDE DEF Final, Stopped
<1>4. \A r \in Objs : job'[r].execution = job[r].execution
  BY <1>2, <1>3 DEF Touches
<1>5. QueuedIn(jobs', job') = {} BY <1>1, <1>2, <1>3 DEF QueuedIn
<1>6. queue' \in [Objs -> Nat] /\ \A r \in Objs : queue'[r] = 0 BY <1>3
<1>7. Inside(queue') = {} BY <1>6 DEF Inside
<1>8. Packed(queue') BY <1>7, FS_EmptySet DEF Packed
<1>9. Thinner(queue, queue') BY <1>6 DEF Thinner
<1> QED BY <1>3, <1>4, <1>5, <1>6, <1>7, <1>8, <1>9 DEF Thins, Line

\* Nothing at all.
LEMMA IdleThins ==
    ASSUME QueueInvariant,
           UNCHANGED vars \/ \E S \in SUBSET Consumers : Scavenge(S)
    PROVE  Thins
<1>1. UNCHANGED <<jobs, job, queue, runningJobs, closing>> BY DEF vars, Scavenge
<1>2. \A r \in Objs : Still(job[r], job'[r]) BY <1>1 DEF Still
<1> QED BY <1>1, <1>2, StillThins

-----------------------------------------------------------------------------
(* Steps that start jobs *)

\* The room create makes, or finds.
LEMMA RoomierThins ==
    ASSUME QueueInvariant, NEW js \in Roomier
    PROVE  LET j == Collected(js, KeptRecords)
               q == CompactQueue(KeptQueue, js, KeptRecords)
           IN  /\ Line(js, j, q) /\ Thinner(queue, q)
               /\ Current(js) \subseteq Current(jobs) /\ Current(jobs) \subseteq Objs
               /\ j \in [Objs -> JobRecord]
               /\ \A r \in Objs : j[r].execution = job[r].execution
<1> DEFINE j == Collected(js, KeptRecords)
           q == CompactQueue(KeptQueue, js, KeptRecords)
<1>1. /\ Line(KeptJobs, KeptRecords, KeptQueue)
      /\ Thinner(queue, KeptQueue)
      /\ Current(KeptJobs) \subseteq Current(jobs) /\ Current(jobs) \subseteq Objs
      /\ \A r \in Objs : KeptRecords[r].execution = job[r].execution
      /\ KeptRecords \in [Objs -> JobRecord]
  BY EvictingThins
<1>2. Current(js) \subseteq Current(KeptJobs)
  <2>1. \A k \in Ids : js[k] = KeptJobs[k] \/ js[k] = NoObj
    BY RoomierIsGood DEF QueueInvariant
  <2> QED BY <2>1 DEF Current
<1>3. Line(js, KeptRecords, q) /\ Thinner(KeptQueue, q)
  BY <1>1, <1>2, ThinningKeepsLine
<1>4. /\ Line(js, j, q)
      /\ \A r \in Objs : Calm(KeptRecords[r], j[r])
  BY <1>1, <1>2, <1>3, CollectingKeepsLine
<1>5. j \in [Objs -> JobRecord] BY <1>1, CollectedType
<1> HIDE DEF j, q
<1>6. Thinner(queue, q) BY <1>1, <1>3, QueueTypes, ThinnerTwice DEF Line
<1>7. \A r \in Objs : j[r].execution = job[r].execution BY <1>1, <1>4 DEF Calm
<1> QED BY <1>1, <1>2, <1>4, <1>5, <1>6, <1>7 DEF j, q

\* A refusal that still made room.
LEMMA CreateRefusedThins ==
    ASSUME QueueInvariant, NEW i \in Ids, CreateRefused(i)
    PROVE  Thins
<1>1. PICK js \in Roomier :
        /\ jobs' = js
        /\ job' = Collected(js, KeptRecords)
        /\ queue' = CompactQueue(KeptQueue, js, KeptRecords)
  BY DEF CreateRefused
<1>2. runningJobs' = runningJobs /\ closing' = closing BY DEF CreateRefused
<1> QED BY <1>1, <1>2, RoomierThins DEF Thins

\* A runner that settles gives its slot to the head of the line.
LEMMA RunnerSettlesIsOrderly ==
    ASSUME QueueInvariant, NEW r \in Objs,
           NEW outcome \in {"completed", "failed"}, RunnerSettles(r, outcome)
    PROVE  Line(jobs', job', queue') /\ LimitsAreExact' /\ InOrder
<1> DEFINE o == Settled(job[r], outcome)
           j == [job EXCEPT ![r] = o]
           run == runningJobs - 1
<1>1. /\ job \in [Objs -> JobRecord] /\ Current(jobs) \subseteq Objs
      /\ \A s \in Objs : RecordIsConsistent(job[s])
      /\ runningJobs \in Int /\ Line(jobs, job, queue) /\ queue \in [Objs -> Nat]
      /\ LimitsAreExact
  BY QueueTypes DEF QueueInvariant
<1>2. job[r].execution /\ UNCHANGED <<jobs, closing>> /\ StartNext(j, queue, run)
  BY DEF RunnerSettles
<1>3. /\ Keeps(job[r], o) /\ job[r].state # "queued" /\ ~o.execution
      /\ o.state # "queued"
  <2>1. Keeps(job[r], o) /\ job[r].state # "queued" /\ ~o.execution /\ TerminalJob(o)
    BY <1>1, <1>2, SettledKeeps
  <2> HIDE DEF o
  <2> QED BY <2>1 DEF TerminalJob, Terminal
<1> HIDE DEF o
<1>4. /\ j \in [Objs -> JobRecord] /\ \A s \in Objs : RecordIsConsistent(j[s])
      /\ j[r] = o /\ \A s \in Objs \ {r} : j[s] = job[s]
  BY <1>1, <1>3 DEF Keeps
<1> HIDE DEF j
<1>5. Line(jobs, j, queue)
  <2>1. \A s \in Current(jobs) : j[s].state = "queued" <=> job[s].state = "queued"
    BY <1>1, <1>3, <1>4
  <2> QED BY <1>1, <2>1, StillKeepsLine
<1>6. run = Cardinality(Executing(j)) /\ run <= Concurrency /\ run \in Int
  <2>1. Executing(j) = Executing(job) \ {r} /\ r \in Executing(job)
    BY <1>2, <1>3, <1>4 DEF Executing
  <2>2. IsFiniteSet(Executing(job)) BY IdsAssumption, FS_Subset DEF Executing
  <2>3. Cardinality(Executing(j)) = Cardinality(Executing(job)) - 1
    BY <2>1, <2>2, FS_RemoveElement
  <2>4. runningJobs = Cardinality(Executing(job)) /\ runningJobs <= Concurrency
    BY <1>1 DEF LimitsAreExact, SlotsAreAccounted, Executing
  <2> QED BY <1>1, <2>3, <2>4, LimitAssumption
<1> HIDE DEF run
<1>7. /\ Line(jobs, job', queue')
      /\ runningJobs' = Cardinality(Executing(job')) /\ runningJobs' <= Concurrency
      /\ ~closing /\ Inside(queue') # {} => runningJobs' = Concurrency
      /\ Cardinality(Inside(queue')) <= Cardinality(Inside(queue))
      /\ \A s, t \in Objs : queue[t] > queue[s] /\ queue'[s] > 0
                                => queue'[t] > queue'[s]
  BY <1>1, <1>2, <1>4, <1>5, <1>6, StartingIsOrderly
<1>8. SlotsAreAccounted' BY <1>7 DEF SlotsAreAccounted, Executing
<1>9. NoSlotIsWasted' BY <1>2, <1>7 DEF NoSlotIsWasted, Inside
<1>10. RecordsAreBounded'
  <2>1. /\ Cardinality(Inside(queue)) \in Nat /\ Cardinality(Inside(queue')) \in Nat
        /\ QueueLimit \in Nat
    BY InsideIsFinite, LimitAssumption
  <2>2. /\ Cardinality(Current(jobs)) <= RecordLimit
        /\ Cardinality(Inside(queue)) <= QueueLimit
    BY <1>1 DEF LimitsAreExact, RecordsAreBounded, Waiting, Inside
  <2>3. Cardinality(Inside(queue')) <= QueueLimit BY <1>7, <2>1, <2>2
  <2> QED BY <1>2, <2>2, <2>3 DEF RecordsAreBounded, Waiting, Inside
<1>11. InOrder BY <1>7 DEF InOrder
<1> QED BY <1>2, <1>7, <1>8, <1>9, <1>10, <1>11 DEF LimitsAreExact

\* A new record goes to the end of the line.
LEMMA JoiningTheLine ==
    ASSUME NEW q \in [Objs -> Nat], Packed(q), NEW r \in Objs, q[r] = 0,
           NEW q2, q2 = [q EXCEPT ![r] = Cardinality(Inside(q)) + 1]
    PROVE  /\ q2 \in [Objs -> Nat] /\ Packed(q2)
           /\ Inside(q2) = Inside(q) \cup {r}
           /\ Cardinality(Inside(q2)) = Cardinality(Inside(q)) + 1
<1> DEFINE n == Cardinality(Inside(q))
<1>1. IsFiniteSet(Inside(q)) /\ n \in Nat /\ r \notin Inside(q)
  BY InsideIsFinite DEF Inside
<1>2. Untied(q) /\ \A s \in Objs : q[s] <= n BY PackedIsUntied
<1>3. Cardinality(Inside(q) \cup {r}) = n + 1 BY <1>1, FS_AddElement
<1> HIDE DEF n
<1>4. /\ q2 \in [Objs -> Nat] /\ q2[r] = n + 1
      /\ \A s \in Objs \ {r} : q2[s] = q[s]
  BY <1>1 DEF n
<1>5. Inside(q2) = Inside(q) \cup {r} BY <1>1, <1>4 DEF Inside
<1>6. Cardinality(Inside(q2)) = n + 1 BY <1>3, <1>5
<1>7. Untied(q2)
  <2> SUFFICES ASSUME NEW s \in Objs, NEW t \in Objs, q2[s] > 0, q2[s] = q2[t]
               PROVE  s = t
    BY DEF Untied
  <2>1. CASE s # r /\ t # r BY <1>2, <1>4, <2>1 DEF Untied
  <2>2. CASE s = r /\ t # r
    <3>1. q[t] = n + 1 /\ q[t] <= n BY <1>2, <1>4, <2>2
    <3> QED BY <1>1, <3>1
  <2>3. CASE s # r /\ t = r
    <3>1. q[s] = n + 1 /\ q[s] <= n BY <1>2, <1>4, <2>3
    <3> QED BY <1>1, <3>1
  <2> QED BY <2>1, <2>2, <2>3
<1>8. \A s \in Objs : q2[s] <= n + 1 BY <1>1, <1>2, <1>4
<1>9. Packed(q2) BY <1>4, <1>6, <1>7, <1>8, UntiedIsPacked
<1> QED BY <1>4, <1>5, <1>6, <1>9 DEF n

\* The records of create: the line grows by the new one, and no runner starts.
LEMMA CreatingJoins ==
    ASSUME QueueInvariant, NEW i \in Ids, MayCreate(i), NEW js \in Roomier,
           NEW r \in Objs, job[r].state = "free"
    PROVE  LET roomy == Collected(js, KeptRecords)
               q  == CompactQueue(KeptQueue, js, KeptRecords)
               j2 == [js EXCEPT ![i] = r]
               j  == Collected(j2, [roomy EXCEPT ![r] = NewJob(i)])
               q2 == [q EXCEPT ![r] = Waiting(q) + 1]
           IN  /\ Line(j2, j, q2)
               /\ j \in [Objs -> JobRecord] /\ \A s \in Objs : RecordIsConsistent(j[s])
               /\ Current(j2) \subseteq Current(js) \cup {r}
               /\ \A s \in Objs : j[s].execution = job[s].execution
               /\ q \in [Objs -> Nat] /\ q[r] = 0 /\ Thinner(queue, q)
               /\ Cardinality(Inside(q2)) = Cardinality(Inside(q)) + 1
<1> DEFINE roomy == Collected(js, KeptRecords)
           q  == CompactQueue(KeptQueue, js, KeptRecords)
           j2 == [js EXCEPT ![i] = r]
           j1 == [roomy EXCEPT ![r] = NewJob(i)]
           j  == Collected(j2, j1)
           q2 == [q EXCEPT ![r] = Waiting(q) + 1]
<1>1. /\ Good(js, roomy, q, scopeOp) /\ r \notin Current(js)
      /\ js[i] # NoObj => ~roomy[js[i]].execution /\ TerminalJob(roomy[js[i]])
      /\ Good(j2, j, q2, scopeOp)
  BY CreatingIsGood DEF QueueInvariant
<1>2. /\ Line(js, roomy, q) /\ Thinner(queue, q)
      /\ Current(js) \subseteq Objs
      /\ roomy \in [Objs -> JobRecord]
      /\ \A s \in Objs : roomy[s].execution = job[s].execution
  BY RoomierThins
<1>3. /\ j \in [Objs -> JobRecord] /\ \A s \in Objs : RecordIsConsistent(j[s])
      /\ js \in [Ids -> Objs \cup {NoObj}] /\ MapOK(js, roomy)
  BY <1>1 DEF Good, Types
<1> HIDE DEF roomy, q
<1>4. q \in [Objs -> Nat] /\ Packed(q) /\ Inside(q) = QueuedIn(js, roomy) /\ q[r] = 0
  <2>1. q \in [Objs -> Nat] /\ Packed(q) /\ Inside(q) = QueuedIn(js, roomy)
    BY <1>2 DEF Line
  <2>2. r \notin Inside(q) BY <1>1, <2>1 DEF QueuedIn
  <2> QED BY <2>1, <2>2 DEF Inside
<1>5. /\ q2 \in [Objs -> Nat] /\ Packed(q2) /\ Inside(q2) = Inside(q) \cup {r}
      /\ Cardinality(Inside(q2)) = Cardinality(Inside(q)) + 1
  <2>1. Waiting(q) = Cardinality(Inside(q)) BY DEF Waiting, Inside
  <2>2. q2 = [q EXCEPT ![r] = Cardinality(Inside(q)) + 1] BY <2>1
  <2> HIDE DEF q2
  <2> QED BY <1>4, <2>2, JoiningTheLine
<1>6. /\ j1 \in [Objs -> JobRecord] /\ j1[r] = NewJob(i)
      /\ \A s \in Objs \ {r} : j1[s] = roomy[s]
  BY <1>2, NewJobIsRecord
<1>7. /\ Current(j2) \subseteq Current(js) \cup {r} /\ r \in Current(j2)
      /\ \A s \in Current(js) : s \in Current(j2) \/ s = js[i]
  <2>1. /\ j2[i] = r /\ r # NoObj
        /\ \A k \in Ids \ {i} : j2[k] = js[k]
    BY <1>3, IdsAssumption
  <2> HIDE DEF j2
  <2> QED BY <2>1 DEF Current
<1> HIDE DEF j1, j2, q2
<1>8. QueuedIn(j2, j1) = QueuedIn(js, roomy) \cup {r}
  <2>1. ASSUME NEW s \in QueuedIn(j2, j1), s # r PROVE s \in QueuedIn(js, roomy)
    BY <1>2, <1>6, <1>7, <2>1 DEF QueuedIn
  <2>2. ASSUME NEW s \in QueuedIn(js, roomy) PROVE s \in QueuedIn(j2, j1)
    <3>1. s \in Current(js) /\ roomy[s].state = "queued" /\ s \in Objs /\ s # NoObj
      BY <1>2, <2>2, IdsAssumption DEF QueuedIn
    <3>2. s # js[i] BY <1>1, <3>1 DEF TerminalJob, Terminal
    <3>3. s # r BY <1>1, <3>1
    <3> QED BY <1>6, <1>7, <3>1, <3>2, <3>3 DEF QueuedIn
  <2>3. r \in QueuedIn(j2, j1) BY <1>6, <1>7, NewJobIsRecord DEF QueuedIn
  <2> QED BY <2>1, <2>2, <2>3
<1>9. Line(j2, j1, q2) BY <1>4, <1>5, <1>8 DEF Line
<1>10. /\ Line(j2, j, q2)
       /\ \A s \in Objs : Calm(j1[s], j[s])
  BY <1>2, <1>6, <1>7, <1>9, CollectingKeepsLine
<1>11. ASSUME NEW s \in Objs PROVE j[s].execution = job[s].execution
  <2>1. j[s].execution = j1[s].execution BY <1>10 DEF Calm
  <2>2. CASE s # r BY <1>2, <1>6, <2>1, <2>2
  <2>3. CASE s = r
    <3>1. ~job[r].execution /\ job[r].execution \in BOOLEAN
      BY QueueTypes DEF RecordIsConsistent, JobRecord
    <3>2. ~NewJob(i).execution /\ NewJob(i).execution \in BOOLEAN
      BY NewJobIsRecord DEF JobRecord
    <3> QED BY <1>6, <2>1, <2>3, <3>1, <3>2
  <2> QED BY <2>2, <2>3
<1> QED BY <1>2, <1>3, <1>4, <1>5, <1>7, <1>10, <1>11 DEF roomy, q, j1, j2, q2

\* create joins the line, then starts whatever finds a slot.
LEMMA CreateIsOrderly ==
    ASSUME QueueInvariant, NEW i \in Ids, Create(i)
    PROVE  Line(jobs', job', queue') /\ LimitsAreExact' /\ InOrder
<1>1. PICK js \in Roomier, r \in Objs :
        LET roomy == Collected(js, KeptRecords)
            q     == CompactQueue(KeptQueue, js, KeptRecords)
            js2   == [js EXCEPT ![i] = r]
        IN  /\ HasRoom(js)
            /\ job[r].state = "free"
            /\ jobs' = js2
            /\ StartNext(Collected(js2, [roomy EXCEPT ![r] = NewJob(i)]),
                         [q EXCEPT ![r] = Waiting(q) + 1], runningJobs)
  BY DEF Create
<1> DEFINE roomy == Collected(js, KeptRecords)
           q     == CompactQueue(KeptQueue, js, KeptRecords)
           j2    == [js EXCEPT ![i] = r]
           j     == Collected(j2, [roomy EXCEPT ![r] = NewJob(i)])
           q2    == [q EXCEPT ![r] = Waiting(q) + 1]
<1>2. /\ Line(j2, j, q2)
      /\ j \in [Objs -> JobRecord] /\ \A s \in Objs : RecordIsConsistent(j[s])
      /\ Current(j2) \subseteq Current(js) \cup {r}
      /\ \A s \in Objs : j[s].execution = job[s].execution
      /\ q \in [Objs -> Nat] /\ q[r] = 0 /\ Thinner(queue, q)
      /\ Cardinality(Inside(q2)) = Cardinality(Inside(q)) + 1
  BY <1>1, CreatingJoins DEF Create
<1>3. MayCreate(i) /\ closing' = closing BY DEF Create
<1>4. /\ Current(js) \subseteq Current(jobs) /\ Current(jobs) \subseteq Objs
      /\ runningJobs \in Int /\ queue \in [Objs -> Nat]
      /\ \A s \in Objs : RecordIsConsistent(job[s])
  BY RoomierThins, QueueTypes
<1>5. /\ Cardinality(Current(js)) < RecordLimit
      /\ Cardinality(Inside(q)) < QueueLimit
  BY <1>1 DEF HasRoom, Waiting, Inside
<1>6. jobs' = j2 /\ StartNext(j, q2, runningJobs) BY <1>1
<1>7. q2 \in [Objs -> Nat] /\ \A s \in Objs \ {r} : q2[s] = q[s]
  BY <1>2 DEF Line
<1> HIDE DEF q, j2, j, q2
<1>8. runningJobs = Cardinality(Executing(j)) /\ runningJobs <= Concurrency
  <2>1. Executing(j) = Executing(job) BY <1>2 DEF Executing
  <2> QED BY <2>1 DEF QueueInvariant, LimitsAreExact, SlotsAreAccounted, Executing
<1>9. /\ Line(j2, job', queue')
      /\ runningJobs' = Cardinality(Executing(job')) /\ runningJobs' <= Concurrency
      /\ ~closing /\ Inside(queue') # {} => runningJobs' = Concurrency
      /\ Cardinality(Inside(queue')) <= Cardinality(Inside(q2))
      /\ \A s, t \in Objs : q2[t] > q2[s] /\ queue'[s] > 0 => queue'[t] > queue'[s]
      /\ \A s \in Objs : queue'[s] > 0 => q2[s] > 0
      /\ \A s, t \in Objs : queue'[s] > 0 /\ job'[t].execution
            => j[t].execution \/ (q2[t] > 0 /\ q2[t] < q2[s])
  <2>1. Current(j2) \subseteq Objs BY <1>2, <1>4
  <2> QED BY <1>2, <1>4, <1>6, <1>8, <2>1, StartingIsOrderly
<1>10. SlotsAreAccounted' BY <1>9 DEF SlotsAreAccounted, Executing
<1>11. NoSlotIsWasted' BY <1>3, <1>9 DEF NoSlotIsWasted, Inside
<1>12. RecordsAreBounded'
  <2>1. /\ Cardinality(Inside(q)) \in Nat /\ Cardinality(Inside(q2)) \in Nat
        /\ Cardinality(Inside(queue')) \in Nat
        /\ QueueLimit \in Nat /\ RecordLimit \in Nat
    BY InsideIsFinite, LimitAssumption
  <2>2. Cardinality(Inside(queue')) <= QueueLimit BY <1>2, <1>5, <1>9, <2>1
  <2>3. IsFiniteSet(Current(js)) /\ Cardinality(Current(js)) \in Nat
    BY <1>4, IdsAssumption, FS_Subset, FS_CardinalityType
  <2>4. /\ IsFiniteSet(Current(js) \cup {r})
        /\ Cardinality(Current(js) \cup {r}) \in Nat
        /\ Cardinality(Current(js) \cup {r}) <= Cardinality(Current(js)) + 1
    <3> DEFINE S == Current(js)
    <3> HIDE DEF S
    <3>1. IsFiniteSet(S) /\ Cardinality(S) \in Nat BY <2>3 DEF S
    <3>2. /\ IsFiniteSet(S \cup {r})
          /\ Cardinality(S \cup {r}) = IF r \in S THEN Cardinality(S)
                                        ELSE Cardinality(S) + 1
      BY <3>1, FS_AddElement
    <3> QED BY <3>1, <3>2 DEF S
  <2>5. /\ Cardinality(Current(j2)) <= Cardinality(Current(js) \cup {r})
        /\ Cardinality(Current(j2)) \in Nat
    BY <1>2, <2>4, FS_Subset, FS_CardinalityType
  <2>6. Cardinality(Current(j2)) <= RecordLimit
    BY <1>5, <2>1, <2>3, <2>4, <2>5
  <2> QED BY <1>6, <2>2, <2>6 DEF RecordsAreBounded, Waiting, Inside
<1>13. InOrder
  <2> SUFFICES ASSUME NEW a \in Objs, NEW b \in Objs,
                      queue[a] > 0, queue[b] > queue[a], queue'[a] > 0
               PROVE  queue'[b] > queue'[a] \/ (queue'[b] = 0 /\ ~job'[b].execution)
    BY DEF InOrder
  <2>1. queue[a] \in Nat /\ queue[b] \in Nat /\ queue[b] > 0 BY <1>4
  <2>2. /\ a \in Current(jobs) /\ job[a].state = "queued"
        /\ b \in Current(jobs) /\ job[b].state = "queued"
    BY <2>1 DEF QueueInvariant, ScopePurgeInvariant, QueueHoldsQueued
  <2>3. a # r /\ b # r BY <1>1, <2>2
  <2>4. q2[a] = q[a] /\ q2[b] = q[b] BY <1>7, <2>3
  <2>5. q[a] > 0 BY <1>9, <2>4
  <2>6. q[b] > q[a] \/ q[b] = 0 BY <2>5, <1>2 DEF Thinner
  <2>7. CASE q[b] > q[a] BY <1>9, <2>4, <2>7
  <2>8. CASE q[b] = 0
    <3>1. queue' \in [Objs -> Nat] BY <1>9 DEF Line
    <3>2. queue'[b] = 0 BY <1>9, <2>4, <2>8, <3>1
    <3>3. ~j[b].execution BY <1>2, <1>4, <2>2 DEF RecordIsConsistent
    <3>4. ~job'[b].execution BY <1>9, <2>4, <2>8, <3>3
    <3> QED BY <3>2, <3>4
  <2> QED BY <2>6, <2>7, <2>8
<1> QED BY <1>6, <1>9, <1>10, <1>11, <1>12, <1>13 DEF LimitsAreExact

\* A process that starts has nothing in its queue and all its slots.
LEMMA EmptyIsOrderly ==
    ASSUME NEW js, NEW j, NEW q, js = [i \in Ids |-> NoObj],
           j = [r \in Objs |-> Blank], q = [r \in Objs |-> 0]
    PROVE  /\ Line(js, j, q) /\ Current(js) = {} /\ Inside(q) = {}
           /\ Executing(j) = {}
<1>1. Current(js) = {} BY DEF Current
<1>2. Inside(q) = {} BY DEF Inside
<1>3. Packed(q) BY <1>2, FS_EmptySet DEF Packed
<1>4. Executing(j) = {}
  <2>1. \A r \in Objs : j[r] = Blank OBVIOUS
  <2>2. ~Blank.execution BY BlankIsRecord
  <2> QED BY <2>1, <2>2, Zenon DEF Executing
<1>5. q \in [Objs -> Nat] OBVIOUS
<1> QED BY <1>1, <1>2, <1>3, <1>4, <1>5 DEF Line, QueuedIn

-----------------------------------------------------------------------------
(* The theorems *)

\* A starting engine satisfies the invariant.
LEMMA InitIsOrderly == Init => QueueInvariant
<1> SUFFICES ASSUME Init PROVE QueueInvariant OBVIOUS
<1>1. ScopePurgeInvariant BY InitEstablishes
<1>2. /\ Line(jobs, job, queue) /\ Current(jobs) = {} /\ Inside(queue) = {}
      /\ Executing(job) = {} /\ runningJobs = 0
  BY EmptyIsOrderly DEF Init
<1>3. SlotsAreAccounted
  BY <1>2, FS_EmptySet, LimitAssumption DEF SlotsAreAccounted, Executing
<1>4. NoSlotIsWasted BY <1>2 DEF NoSlotIsWasted, Inside
<1>5. RecordsAreBounded
  BY <1>2, FS_EmptySet, LimitAssumption DEF RecordsAreBounded, Waiting, Inside
<1> QED BY <1>1, <1>2, <1>3, <1>4, <1>5 DEF QueueInvariant, LimitsAreExact

\* So does one that starts again.
LEMMA RestartIsOrderly ==
    ASSUME Restart
    PROVE  Line(jobs', job', queue') /\ LimitsAreExact' /\ InOrder
<1>1. /\ Line(jobs', job', queue') /\ Current(jobs') = {} /\ Inside(queue') = {}
      /\ Executing(job') = {} /\ runningJobs' = 0
  BY EmptyIsOrderly DEF Restart
<1>2. SlotsAreAccounted'
  BY <1>1, FS_EmptySet, LimitAssumption DEF SlotsAreAccounted, Executing
<1>3. NoSlotIsWasted' BY <1>1 DEF NoSlotIsWasted, Inside
<1>4. RecordsAreBounded'
  BY <1>1, FS_EmptySet, LimitAssumption DEF RecordsAreBounded, Waiting, Inside
<1>5. InOrder BY <1>1 DEF InOrder, Inside
<1> QED BY <1>1, <1>2, <1>3, <1>4, <1>5 DEF LimitsAreExact

\* Every step keeps the line, the limits and the order.
LEMMA NextIsOrderly ==
    ASSUME QueueInvariant, [Next]_vars
    PROVE  QueueInvariant' /\ InOrder
<1> DEFINE Goal == Line(jobs', job', queue') /\ LimitsAreExact' /\ InOrder
<1>1. ScopePurgeInvariant' BY NextKeeps DEF QueueInvariant
<1>2. Thins => Goal BY ThinningIsOrderly
<1> SUFFICES Goal BY <1>1 DEF Goal, QueueInvariant
<1> HIDE DEF Goal
<1>3. CASE ClientStep
  <2>1. ASSUME NEW i \in Ids, Create(i) \/ CreateRefused(i) \/ Cancel(i) PROVE Goal
    BY <1>2, <2>1, CreateIsOrderly, CreateRefusedThins, UpdatesThin DEF Goal
  <2>2. ASSUME NEW i \in Ids, NEW w \in Observers, Observe(i, w) \/ RenewObserver(i, w)
        PROVE  Goal
    BY <1>2, <2>2, ObserveThins, UpdatesThin
  <2>3. ASSUME NEW x \in Readers,
               \/ \E i \in Ids, kind \in {"media", "status"} : RequestMedia(x, i, kind)
               \/ AcquireMedia(x) \/ StatusAnswers(x) \/ ReleaseMedia(x)
        PROVE  Goal
    BY <1>2, <2>3, RequestMediaThins, ReadersThin
  <2>4. ASSUME NEW i \in Ids, Purge(i) \/ PurgeConsumerCache(i) PROVE Goal
    BY <1>2, <2>4, PurgeThins, PurgeConsumerCacheThins
  <2> QED BY <1>2, <1>3, <2>1, <2>2, <2>3, <2>4, GetThins, BoundAssumption
      DEF ClientStep
<1>4. ASSUME NEW r \in Objs, RecordStep(r) PROVE Goal
  <2>1. ObserverLeaseTimer(r) \/ ExecutionDeadline(r) => Goal BY <1>2, UpdatesThin
  <2>2. RunnerPublishes(r) => Goal BY <1>2, RunnerPublishesThins
  <2>3. ASSUME NEW outcome \in {"completed", "failed"}, RunnerSettles(r, outcome)
        PROVE  Goal
    BY <2>3, RunnerSettlesIsOrderly DEF Goal
  <2>4. ASSUME NEW ok \in BOOLEAN, VerificationSettles(r, ok) PROVE Goal
    BY <1>2, <2>4, VerificationThins
  <2>5. \/ PurgeDrained(r) \/ PurgeDrainTimeout(r) \/ PurgeVerified(r)
        \/ PurgeUnlinks(r) \/ PurgeUnlinkFails(r)
        => Goal
    BY <1>2, PurgeRecordThins
  <2>6. PurgeCompletes(r) => Goal BY <1>2, PurgeCompletesThins
  <2> QED BY <1>4, <2>1, <2>2, <2>3, <2>4, <2>5, <2>6 DEF RecordStep
<1>5. ASSUME NEW c \in Consumers, ScopePurgeStep(c) PROVE Goal
  BY <1>2, <1>5, ScopePurgeThins
<1>6. CASE TimeStep BY <1>2, <1>6, TimeThins
<1>7. CASE EngineStep
  BY <1>2, <1>7, CloseThins, RestartIsOrderly, IdleThins DEF EngineStep, Goal
<1>8. CASE UNCHANGED vars BY <1>2, <1>8, IdleThins
<1> QED BY <1>3, <1>4, <1>5, <1>6, <1>7, <1>8 DEF Next

\* The FIFO, its limits and the map hold in every reachable state.
THEOREM QueueInvariantHolds == Spec => []QueueInvariant
<1>1. QueueInvariant /\ [Next]_vars => QueueInvariant' BY NextIsOrderly
<1> QED BY <1>1, InitIsOrderly, PTL DEF Spec

\* The FIFO holds exactly the current queued records, without gaps or ties.
THEOREM QueueStaysExact == Spec => []QueueIsExact
<1>1. QueueInvariant => QueueIsExact
  BY DEF QueueInvariant, Line, Packed, Inside, QueuedIn, QueueIsExact
<1> QED BY <1>1, QueueInvariantHolds, PTL

\* The slot counter is true and within its limit, no slot stays free in front
\* of a waiting job, and neither the map nor the queue exceeds its size.
THEOREM LimitsStayExact == Spec => []LimitsAreExact
<1>1. QueueInvariant => LimitsAreExact BY DEF QueueInvariant
<1> QED BY <1>1, QueueInvariantHolds, PTL

\* Jobs start in the order in which they were queued.
THEOREM JobsStartInOrder == Spec => StartsInOrder
<1>1. QueueInvariant /\ [Next]_vars =>
        [\A r, s \in Objs :
            queue[r] > 0 /\ queue[s] > queue[r] /\ queue'[r] > 0
            => \/ queue'[s] > queue'[r]
               \/ queue'[s] = 0 /\ ~job'[s].execution]_vars
  BY NextIsOrderly DEF InOrder
<1> QED BY <1>1, QueueInvariantHolds, PTL DEF Spec, StartsInOrder
=============================================================================
