---------------------------- MODULE VodJobProofs ----------------------------
(***************************************************************************)
(* Proofs about the VOD job manager: the inductive invariant under which a  *)
(* scope purge detaches only a directory nobody writes to or reads from,    *)
(* for any number of requests, records, sessions, files and readers.        *)
(*                                                                          *)
(* The map, the heap, the queue and the scope purges are passed to the      *)
(* lemmas as values, because most handlers evict first and then work on     *)
(* what eviction left.                                                      *)
(***************************************************************************)
EXTENDS VodJobProperties, FiniteSetTheorems, TLAPS

Operations ==
    [Consumers -> [pc : {"idle", "settling", "draining", "awaiting", "verifying",
                         "verified", "queued", "inspecting", "removing"},
                   job : Objs \cup {NoObj}, scope : SUBSET Objs]]

Types(js, j, q, ops) ==
    /\ js \in [Ids -> Objs \cup {NoObj}]
    /\ j \in [Objs -> JobRecord]
    /\ q \in [Objs -> Nat]
    /\ ops \in Operations

MapOK(js, j) ==
    \A i \in Ids : js[i] # NoObj => j[js[i]].id = i /\ j[js[i]].state # "free"

QueueOK(js, j, q) ==
    \A r \in Objs : q[r] > 0 => r \in Current(js) /\ j[r].state = "queued"

LiveOK(js, j) == \A r \in Objs : j[r].execution => js[j[r].id] = r

HeldOK(js, j, ops) ==
    \A c \in Consumers : ops[c].pc # "idle" =>
        /\ \A r \in ops[c].scope :
            /\ js[j[r].id] = r /\ Consumer(j[r]) = c
            /\ j[r].consumerPurging /\ j[r].purgeOperation = "none"
        /\ \A r \in Current(js) : Consumer(j[r]) = c => TerminalJob(j[r])

QuietOK(j, ops) ==
    \A c \in Consumers :
        /\ ops[c].pc \notin {"idle", "settling"} =>
            \A r \in Objs : j[r].execution => Consumer(j[r]) # c
        /\ ops[c].pc \notin {"idle", "settling", "draining"} =>
            \A r \in ops[c].scope : j[r].reads = 0

\* The part of the invariant that speaks of the map, the heap, the queue and
\* the scope purges.
Good(js, j, q, ops) ==
    /\ Types(js, j, q, ops)
    /\ \A r \in Objs : RecordIsConsistent(j[r])
    /\ MapOK(js, j)
    /\ QueueOK(js, j, q)
    /\ LiveOK(js, j)
    /\ HeldOK(js, j, ops)
    /\ QuietOK(j, ops)

OtherTypes ==
    /\ runningJobs \in Int
    /\ reader \in [Readers -> [pc : {"idle", "media", "status", "resolved",
                                     "answering", "reading", "released"},
                               id : Ids, obj : Objs \cup {NoObj}]]
    /\ purgeTombstones \in [Ids -> {"none", "fresh", "outlived"}]
    /\ consumerPurgeTombstones \in [Ids -> {"none", "fresh", "outlived"}]
    /\ quarantineTail \in Seq(Consumers \cup {Boot})
    /\ closing \in BOOLEAN
    /\ file \in [Artifacts -> {"present", "absent"}]
    /\ quarantined \in [Consumers -> Int]

\* The invariant is its two parts.
LEMMA InvariantParts ==
    ScopePurgeInvariant <=>
        OtherTypes /\ runningJobs <= Concurrency /\ Good(jobs, job, queue, scopeOp)
  BY DEF ScopePurgeInvariant, TypeOK, OtherTypes, Good, Types, Operations, MapOK,
         MapIsConsistent, QueueOK, QueueHoldsQueued, LiveOK, LiveRunnersAreCurrent,
         HeldOK, ScopeIsHeld, QuietOK, ScopeIsQuiescent

LEMMA InvariantPartsPrime ==
    ScopePurgeInvariant' <=>
        /\ OtherTypes' /\ runningJobs' <= Concurrency
        /\ Good(jobs', job', queue', scopeOp')
  BY DEF ScopePurgeInvariant, TypeOK, OtherTypes, Good, Types, Operations, MapOK,
         MapIsConsistent, QueueOK, QueueHoldsQueued, LiveOK, LiveRunnersAreCurrent,
         HeldOK, ScopeIsHeld, QuietOK, ScopeIsQuiescent

-----------------------------------------------------------------------------
(* Records *)

\* What lease expiry and cancellation do to a record, as far as the invariant
\* can tell: a live record may become cancelled, and nothing else changes.
Touches(o, p) ==
    /\ p \in JobRecord
    /\ p.id = o.id /\ p.execution = o.execution /\ p.reads = o.reads
    /\ p.verification = o.verification /\ p.purgeOperation = o.purgeOperation
    /\ p.consumerPurging = o.consumerPurging /\ p.purging = o.purging
    /\ \/ p.state = o.state /\ p.cancellation = o.cancellation
       \/ ~TerminalJob(o) /\ p.state = "cancelled"

LEMMA BlankIsRecord ==
    /\ Blank \in JobRecord /\ RecordIsConsistent(Blank)
    /\ ~Blank.execution /\ Blank.state = "free" /\ Blank.reads = 0
<1>1. (CHOOSE i \in Ids : TRUE) \in Ids BY IdsAssumption
<1>2. Blank \in JobRecord BY <1>1 DEF Blank, JobRecord
<1> QED BY <1>2 DEF Blank, RecordIsConsistent

LEMMA NewJobIsRecord ==
    ASSUME NEW i \in Ids
    PROVE  /\ NewJob(i) \in JobRecord /\ RecordIsConsistent(NewJob(i))
           /\ NewJob(i).id = i /\ NewJob(i).state = "queued"
           /\ ~NewJob(i).execution
<1>1. NewJob(i) \in JobRecord BY BlankIsRecord DEF NewJob, JobRecord
<1> QED BY <1>1, BlankIsRecord DEF NewJob, Blank, RecordIsConsistent

LEMMA TouchesIsReflexive ==
    ASSUME NEW o \in JobRecord
    PROVE  Touches(o, o)
  BY DEF Touches

LEMMA TouchesIsTransitive ==
    ASSUME NEW o, NEW p, NEW s, Touches(o, p), Touches(p, s)
    PROVE  Touches(o, s)
  BY DEF Touches, TerminalJob, Terminal

LEMMA TouchesKeepsConsistency ==
    ASSUME NEW o, NEW p, Touches(o, p), RecordIsConsistent(o)
    PROVE  RecordIsConsistent(p)
  BY DEF Touches, RecordIsConsistent, TerminalJob, Terminal

LEMMA FinishTouches ==
    ASSUME NEW o \in JobRecord
    PROVE  Touches(o, FinishObserverLeases(o))
  BY DEF Touches, FinishObserverLeases, JobRecord

LEMMA FinalizeTouches ==
    ASSUME NEW o \in JobRecord, NEW reason \in Reasons
    PROVE  Touches(o, FinalizeCancellation(o, reason))
<1>1. CASE TerminalJob(o) \/ o.cancellation # "none"
  BY <1>1, TouchesIsReflexive DEF FinalizeCancellation
<1>2. CASE ~(TerminalJob(o) \/ o.cancellation # "none")
  <2> DEFINE p == [o EXCEPT !.cancellation = reason, !.state = "cancelled",
                            !.deadlineTimer = FALSE, !.outlived = FALSE]
  <2>1. p \in JobRecord BY DEF JobRecord, Terminal
  <2>2. Touches(o, p) BY <1>2, <2>1 DEF Touches, JobRecord
  <2>3. Touches(o, FinishObserverLeases(p))
    BY <2>1, <2>2, FinishTouches, TouchesIsTransitive
  <2> QED BY <1>2, <2>3 DEF FinalizeCancellation
<1> QED BY <1>1, <1>2

LEMMA AbandonTouches ==
    ASSUME NEW o \in JobRecord
    PROVE  Touches(o, CancelAbandonedJob(o))
<1>1. Touches(o, FinishObserverLeases(o)) BY FinishTouches
<1>2. Touches(o, FinalizeCancellation(o, "queued-observer-expired"))
  BY FinalizeTouches DEF Reasons
<1>3. Touches(o, FinalizeCancellation(o, "ephemeral-observer-expired"))
  BY FinalizeTouches DEF Reasons
<1>4. Touches(o, [o EXCEPT !.leaseTimer = FALSE]) BY DEF Touches, JobRecord
<1> QED BY <1>1, <1>2, <1>3, <1>4 DEF CancelAbandonedJob, TerminalJob, Terminal

LEMMA ExpireTouches ==
    ASSUME NEW o \in JobRecord
    PROVE  Touches(o, ExpireObserverLeases(o))
<1> DEFINE kept == [o EXCEPT !.leases = o.leases \ o.lapsed, !.lapsed = {}]
<1>1. kept \in JobRecord /\ Touches(o, kept) BY DEF Touches, JobRecord
<1>2. Touches(o, CancelAbandonedJob(kept))
  BY <1>1, AbandonTouches, TouchesIsTransitive
<1> HIDE DEF kept
<1>3. Touches(o, IF kept.leases = {} THEN CancelAbandonedJob(kept) ELSE kept)
  BY <1>1, <1>2
<1>4. CASE TerminalJob(o) BY <1>4, FinishTouches DEF ExpireObserverLeases
<1>5. CASE ~TerminalJob(o) /\ ~o.enforced
  BY <1>5, TouchesIsReflexive DEF ExpireObserverLeases
<1>6. CASE ~TerminalJob(o) /\ o.enforced
  BY <1>3, <1>6 DEF ExpireObserverLeases, kept
<1> QED BY <1>4, <1>5, <1>6

LEMMA ScheduleTouches ==
    ASSUME NEW o \in JobRecord
    PROVE  Touches(o, ScheduleObserverLeaseExpiry(o))
  BY DEF Touches, ScheduleObserverLeaseExpiry, JobRecord

LEMMA ReapTouches ==
    ASSUME job \in [Objs -> JobRecord]
    PROVE  /\ ReapObserverLeases \in [Objs -> JobRecord]
           /\ \A r \in Objs : Touches(job[r], ReapObserverLeases[r])
<1> SUFFICES ASSUME NEW r \in Objs
             PROVE  Touches(job[r], ReapObserverLeases[r])
  BY DEF ReapObserverLeases, Touches
<1>1. Touches(job[r], ExpireObserverLeases(job[r])) BY ExpireTouches
<1>2. Touches(job[r], ScheduleObserverLeaseExpiry(ExpireObserverLeases(job[r])))
  BY <1>1, ScheduleTouches, TouchesIsTransitive DEF Touches
<1> QED BY <1>2, TouchesIsReflexive DEF ReapObserverLeases

-----------------------------------------------------------------------------
(* The queue *)

LEMMA CompactType ==
    ASSUME NEW q, NEW keep \in SUBSET Objs
    PROVE  /\ Compact(q, keep) \in [Objs -> Nat]
           /\ \A r \in Objs : Compact(q, keep)[r] > 0 => r \in keep
<1> SUFFICES ASSUME NEW r \in Objs
             PROVE  Compact(q, keep)[r] \in Nat
                    /\ (Compact(q, keep)[r] > 0 => r \in keep)
  BY DEF Compact
<1> DEFINE ahead == {s \in keep : q[s] > 0 /\ q[s] <= q[r]}
<1>1. Cardinality(ahead) \in Nat
  <2>1. ahead \subseteq Objs OBVIOUS
  <2>2. IsFiniteSet(ahead) BY <2>1, IdsAssumption, FS_Subset
  <2> QED BY <2>2, FS_CardinalityType
<1> HIDE DEF ahead
<1>2. Compact(q, keep)[r] = IF r \in keep /\ q[r] > 0 THEN Cardinality(ahead) ELSE 0
  BY DEF Compact, ahead
<1> QED BY <1>1, <1>2

LEMMA CompactQueueType ==
    ASSUME NEW q, NEW js \in [Ids -> Objs \cup {NoObj}], NEW j
    PROVE  /\ CompactQueue(q, js, j) \in [Objs -> Nat]
           /\ QueueOK(js, j, CompactQueue(q, js, j))
<1>1. Current(js) \subseteq Objs BY DEF Current
<1>2. {r \in Current(js) : j[r].state = "queued"} \in SUBSET Objs BY <1>1
<1> QED BY <1>2, CompactType DEF CompactQueue, QueueOK

LEMMA WaitingType ==
    ASSUME NEW q
    PROVE  Cardinality({r \in Objs : q[r] > 0}) \in Nat
<1>1. IsFiniteSet({r \in Objs : q[r] > 0}) BY IdsAssumption, FS_Subset
<1> QED BY <1>1, FS_CardinalityType

LEMMA SlotsType ==
    ASSUME NEW q, NEW run \in Int, run <= Concurrency
    PROVE  Slots(q, run) \in Nat /\ run + Slots(q, run) <= Concurrency
<1> DEFINE waiting == Cardinality({r \in Objs : q[r] > 0})
<1>1. waiting \in Nat BY WaitingType
<1> HIDE DEF waiting
<1>2. Slots(q, run) =
        LET free == IF closing THEN 0 ELSE Concurrency - run
        IN  IF waiting < free THEN waiting ELSE free
  BY DEF Slots, waiting
<1>3. Concurrency \in Nat BY LimitAssumption
<1> QED BY <1>1, <1>2, <1>3

-----------------------------------------------------------------------------
(* What the handlers do to the map, the heap and the queue *)

\* Every record of a good heap that is current is the one its id names.
LEMMA CurrentIsNamed ==
    ASSUME NEW js, NEW j, js \in [Ids -> Objs \cup {NoObj}], MapOK(js, j),
           NEW r \in Current(js)
    PROVE  r \in Objs /\ js[j[r].id] = r /\ j[r].id \in Ids /\ j[r].state # "free"
  BY DEF Current, MapOK

\* What a step may do to a record without the map, the queue and the scope
\* purges noticing.
Keeps(o, p) ==
    /\ p \in JobRecord /\ RecordIsConsistent(p)
    /\ p.id = o.id
    /\ p.execution => o.execution
    /\ o.state # "free" => p.state # "free"
    /\ TerminalJob(o) => TerminalJob(p)
    /\ o.consumerPurging =>
        /\ p.consumerPurging
        /\ o.purgeOperation = "none" => p.purgeOperation = "none"
        /\ o.reads = 0 => p.reads = 0

LEMMA TouchesKeeps ==
    ASSUME NEW o, NEW p, Touches(o, p), RecordIsConsistent(o)
    PROVE  Keeps(o, p)
  BY TouchesKeepsConsistency DEF Touches, Keeps, TerminalJob, Terminal

LEMMA KeepingIsGood ==
    ASSUME NEW js, NEW j, NEW q, NEW ops, Good(js, j, q, ops),
           NEW j2, j2 \in [Objs -> JobRecord],
           \A r \in Objs : Keeps(j[r], j2[r]),
           NEW q2, q2 \in [Objs -> Nat], QueueOK(js, j2, q2)
    PROVE  Good(js, j2, q2, ops)
<1> USE DEF Good, Types, Keeps
<1>1. \A r \in Objs : RecordIsConsistent(j2[r]) OBVIOUS
<1>3. MapOK(js, j2) BY DEF MapOK
<1>4. LiveOK(js, j2) BY DEF LiveOK
<1>a. \A c \in Consumers : ops[c].scope \subseteq Objs BY DEF Operations
<1>b. Current(js) \subseteq Objs BY DEF Current
<1>5. HeldOK(js, j2, ops)
  <2> SUFFICES ASSUME NEW c \in Consumers, ops[c].pc # "idle"
      PROVE /\ \A r \in ops[c].scope :
                /\ js[j2[r].id] = r /\ Consumer(j2[r]) = c
                /\ j2[r].consumerPurging /\ j2[r].purgeOperation = "none"
            /\ \A r \in Current(js) : Consumer(j2[r]) = c => TerminalJob(j2[r])
    BY DEF HeldOK
  <2> QED BY <1>a, <1>b DEF HeldOK, Consumer
<1>6. QuietOK(j2, ops)
  <2>1. \A c \in Consumers : ops[c].pc \notin {"idle", "settling"} =>
            \A r \in Objs : j2[r].execution => Consumer(j2[r]) # c
    BY DEF QuietOK, Consumer
  <2>2. ASSUME NEW c \in Consumers, ops[c].pc \notin {"idle", "settling", "draining"},
               NEW r \in ops[c].scope
        PROVE  j2[r].reads = 0
    BY <2>2, <1>a DEF QuietOK, HeldOK
  <2> QED BY <2>1, <2>2 DEF QuietOK
<1> QED BY <1>1, <1>3, <1>4, <1>5, <1>6

\* Expiring leases and cancelling jobs.
LEMMA TouchingIsGood ==
    ASSUME NEW js, NEW j, NEW q, NEW ops, Good(js, j, q, ops),
           NEW j2, j2 \in [Objs -> JobRecord],
           \A r \in Objs : Touches(j[r], j2[r]),
           NEW q2, q2 \in [Objs -> Nat], QueueOK(js, j2, q2)
    PROVE  Good(js, j2, q2, ops)
<1>1. \A r \in Objs : Keeps(j[r], j2[r]) BY TouchesKeeps DEF Good
<1> QED BY <1>1, KeepingIsGood

\* The collector takes away only records without a runner.
LEMMA CollectedType ==
    ASSUME NEW js, NEW j \in [Objs -> JobRecord]
    PROVE  /\ Collected(js, j) \in [Objs -> JobRecord]
           /\ \A r \in Objs : \/ Collected(js, j)[r] = j[r]
                              \/ /\ Collected(js, j)[r] = Blank
                                 /\ r \notin Current(js) /\ ~j[r].execution
                                 /\ j[r].purgeOperation = "none"
  BY BlankIsRecord DEF Collected

\* Records leave the map once nothing runs in them and no scope purge holds them.
LEMMA DroppingIsGood ==
    ASSUME NEW js, NEW j, NEW q, NEW ops, Good(js, j, q, ops),
           NEW js2 \in [Ids -> Objs \cup {NoObj}],
           \A i \in Ids : \/ js2[i] = js[i]
                          \/ /\ js2[i] = NoObj
                             /\ js[i] # NoObj
                             /\ ~j[js[i]].execution
                             /\ \A c \in Consumers :
                                    ops[c].pc # "idle" => js[i] \notin ops[c].scope,
           NEW q2 \in [Objs -> Nat], QueueOK(js2, j, q2)
    PROVE  Good(js2, Collected(js2, j), q2, ops)
<1> USE DEF Good, Types
<1> DEFINE j2 == Collected(js2, j)
<1>1. /\ j2 \in [Objs -> JobRecord]
      /\ \A r \in Objs : \/ j2[r] = j[r]
                         \/ j2[r] = Blank /\ r \notin Current(js2) /\ ~j[r].execution
  BY CollectedType
<1> HIDE DEF j2
<1>2. ASSUME NEW r \in Objs PROVE RecordIsConsistent(j2[r])
  <2>1. CASE j2[r] = j[r] BY <2>1
  <2>2. CASE j2[r] = Blank
    <3>1. RecordIsConsistent(Blank) BY BlankIsRecord
    <3> QED BY <2>2, <3>1, Zenon
  <2> QED BY <1>1, <2>1, <2>2
<1>3. Current(js2) \subseteq Current(js) /\ Current(js) \subseteq Objs
  BY DEF Current
<1>4. \A r \in Current(js2) : j2[r] = j[r] BY <1>1, <1>3
<1>5. MapOK(js2, j2)
  <2>1. \A i \in Ids : js2[i] # NoObj => js2[i] = js[i] /\ js2[i] \in Current(js2)
    BY DEF Current
  <2> QED BY <1>4, <2>1 DEF MapOK
<1>6. QueueOK(js2, j2, q2) BY <1>4 DEF QueueOK
<1>7. LiveOK(js2, j2)
  <2> SUFFICES ASSUME NEW r \in Objs, j2[r].execution PROVE js2[j2[r].id] = r
    BY DEF LiveOK
  <2>1. j2[r] = j[r] BY <1>1, BlankIsRecord
  <2>2. js[j[r].id] = r /\ j[r].id \in Ids BY <2>1 DEF LiveOK, JobRecord
  <2> QED BY <2>1, <2>2
<1>8. HeldOK(js2, j2, ops)
  <2> SUFFICES ASSUME NEW c \in Consumers, ops[c].pc # "idle"
      PROVE /\ \A r \in ops[c].scope :
                /\ js2[j2[r].id] = r /\ Consumer(j2[r]) = c
                /\ j2[r].consumerPurging /\ j2[r].purgeOperation = "none"
            /\ \A r \in Current(js2) : Consumer(j2[r]) = c => TerminalJob(j2[r])
    BY DEF HeldOK
  <2>1. ASSUME NEW r \in ops[c].scope
        PROVE  /\ js2[j2[r].id] = r /\ Consumer(j2[r]) = c
               /\ j2[r].consumerPurging /\ j2[r].purgeOperation = "none"
    <3>1. r \in Objs
      <4>1. ops[c].scope \in SUBSET Objs BY DEF Operations
      <4> QED BY <4>1
    <3>2. /\ js[j[r].id] = r /\ Consumer(j[r]) = c
          /\ j[r].consumerPurging /\ j[r].purgeOperation = "none"
      BY DEF HeldOK
    <3>3. j[r].id \in Ids BY <3>1 DEF JobRecord
    <3>4. js2[j[r].id] = r BY <3>2, <3>3
    <3>5. r \in Current(js2) BY <3>1, <3>3, <3>4, IdsAssumption DEF Current
    <3> QED BY <1>4, <3>2, <3>4, <3>5
  <2>2. ASSUME NEW r \in Current(js2), Consumer(j2[r]) = c
        PROVE  TerminalJob(j2[r])
    BY <1>3, <1>4, <2>2 DEF HeldOK
  <2> QED BY <2>1, <2>2
<1>9. QuietOK(j2, ops)
  <2>1. \A r \in Objs : j2[r].execution => j2[r] = j[r] BY <1>1, BlankIsRecord
  <2>2. \A r \in Objs : j[r].reads = 0 => j2[r].reads = 0 BY <1>1, BlankIsRecord
  <2>3. \A c \in Consumers : ops[c].scope \subseteq Objs BY DEF Operations
  <2> QED BY <2>1, <2>2, <2>3 DEF QuietOK
<1> QED BY <1>1, <1>2, <1>5, <1>6, <1>7, <1>8, <1>9 DEF j2

LEMMA StartedIsRecord ==
    ASSUME NEW o \in JobRecord
    PROVE  /\ Started(o) \in JobRecord
           /\ Started(o).id = o.id /\ Started(o).reads = o.reads
           /\ Started(o).consumerPurging = o.consumerPurging
           /\ Started(o).purgeOperation = o.purgeOperation
           /\ Started(o).verification = o.verification
           /\ Started(o).cancellation = o.cancellation
           /\ Started(o).state = "running" /\ Started(o).execution
  BY DEF Started, JobRecord

\* startNext only runs queued records, and none of a consumer under purge.
LEMMA StartingIsGood ==
    ASSUME NEW js, NEW j, NEW q, NEW ops, Good(js, j, q, ops),
           NEW run \in Int, run <= Concurrency, StartNext(j, q, run)
    PROVE  Good(js, job', queue', ops) /\ runningJobs' \in Int
           /\ runningJobs' <= Concurrency
<1> USE DEF Good, Types
<1> DEFINE n == Slots(q, run)
<1>1. n \in Nat /\ run + n <= Concurrency BY SlotsType
<1> HIDE DEF n
<1>2. /\ job' = [r \in Objs |-> IF q[r] \in 1..n THEN Started(j[r]) ELSE j[r]]
      /\ queue' = [r \in Objs |-> IF q[r] > n THEN q[r] - n ELSE 0]
      /\ runningJobs' = run + n
  BY DEF StartNext, n
<1>3. \A r \in Objs : Started(j[r]) \in JobRecord BY StartedIsRecord
<1>4. job' \in [Objs -> JobRecord] BY <1>2, <1>3
<1>5. queue' \in [Objs -> Nat] BY <1>1, <1>2
<1>6. ASSUME NEW r \in Objs
      PROVE  \/ job'[r] = j[r] /\ ~(q[r] \in 1..n)
             \/ /\ q[r] \in 1..n /\ job'[r] = Started(j[r])
                /\ r \in Current(js) /\ j[r].state = "queued"
  BY <1>1, <1>2 DEF QueueOK
<1>7. ASSUME NEW r \in Objs
      PROVE  /\ job'[r].id = j[r].id /\ job'[r].reads = j[r].reads
             /\ job'[r].consumerPurging = j[r].consumerPurging
             /\ job'[r].purgeOperation = j[r].purgeOperation
             /\ job'[r].verification = j[r].verification
             /\ job'[r].cancellation = j[r].cancellation
             /\ j[r].state # "free" => job'[r].state # "free"
             /\ TerminalJob(j[r]) => TerminalJob(job'[r])
             /\ \/ job'[r].execution = j[r].execution /\ job'[r].state = j[r].state
                \/ /\ r \in Current(js) /\ j[r].state = "queued"
                   /\ job'[r].state = "running"
  <2>1. CASE job'[r] = j[r] BY <2>1
  <2>2. CASE job'[r] = Started(j[r]) /\ r \in Current(js) /\ j[r].state = "queued"
    BY <2>2, StartedIsRecord DEF TerminalJob, Terminal
  <2> QED BY <1>6, <2>1, <2>2
<1>8. \A r \in Objs : RecordIsConsistent(job'[r]) BY <1>7 DEF RecordIsConsistent
<1>9. MapOK(js, job') BY <1>7 DEF MapOK
<1>10. QueueOK(js, job', queue')
  <2> SUFFICES ASSUME NEW r \in Objs, queue'[r] > 0
               PROVE  r \in Current(js) /\ job'[r].state = "queued"
    BY DEF QueueOK
  <2>1. q[r] > n /\ q[r] > 0 BY <1>1, <1>2
  <2>2. job'[r] = j[r] BY <1>1, <1>6, <2>1
  <2> QED BY <2>1, <2>2 DEF QueueOK
<1>11. LiveOK(js, job')
  <2> SUFFICES ASSUME NEW r \in Objs, job'[r].execution PROVE js[j[r].id] = r
    BY <1>7 DEF LiveOK
  <2>1. CASE j[r].execution BY <2>1 DEF LiveOK
  <2>2. CASE r \in Current(js) BY <2>2, CurrentIsNamed
  <2> QED BY <1>7, <2>1, <2>2
<1>12. HeldOK(js, job', ops)
  <2>1. \A c \in Consumers : ops[c].scope \subseteq Objs BY DEF Operations
  <2>2. Current(js) \subseteq Objs BY DEF Current
  <2> QED BY <1>7, <2>1, <2>2 DEF HeldOK, Consumer
<1>13. QuietOK(job', ops)
  <2> SUFFICES ASSUME NEW c \in Consumers
      PROVE  /\ ops[c].pc \notin {"idle", "settling"} =>
                    \A r \in Objs : job'[r].execution => Consumer(job'[r]) # c
             /\ ops[c].pc \notin {"idle", "settling", "draining"} =>
                    \A r \in ops[c].scope : job'[r].reads = 0
    BY DEF QuietOK
  <2>1. ASSUME NEW r \in Objs, ops[c].pc \notin {"idle", "settling"},
               job'[r].execution, Consumer(job'[r]) = c
        PROVE  FALSE
    <3>1. CASE j[r].execution BY <1>7, <2>1, <3>1 DEF QuietOK, Consumer
    <3>2. CASE r \in Current(js) /\ j[r].state = "queued"
      BY <1>7, <2>1, <3>2 DEF HeldOK, Consumer, TerminalJob, Terminal
    <3> QED BY <1>7, <2>1, <3>1, <3>2
  <2>2. ops[c].scope \subseteq Objs BY DEF Operations
  <2> QED BY <1>7, <2>1, <2>2 DEF QuietOK
<1>14. runningJobs' \in Int /\ runningJobs' <= Concurrency BY <1>1, <1>2
<1> QED BY <1>4, <1>5, <1>8, <1>9, <1>10, <1>11, <1>12, <1>13, <1>14

\* A step of one scope purge.
LEMMA ScopeStepIsGood ==
    ASSUME NEW js, NEW j, NEW q, NEW ops, Good(js, j, q, ops),
           NEW c \in Consumers, NEW op,
           op \in [pc : {"idle", "settling", "draining", "awaiting", "verifying",
                         "verified", "queued", "inspecting", "removing"},
                   job : Objs \cup {NoObj}, scope : SUBSET Objs],
           op.pc # "idle" => ops[c].pc # "idle" /\ op.scope = ops[c].scope,
           op.pc \notin {"idle", "settling"} =>
                \A r \in Objs : j[r].execution => Consumer(j[r]) # c,
           op.pc \notin {"idle", "settling", "draining"} =>
                \A r \in op.scope : j[r].reads = 0
    PROVE  Good(js, j, q, [ops EXCEPT ![c] = op])
<1> USE DEF Good, Types
<1> DEFINE ops2 == [ops EXCEPT ![c] = op]
<1>1. ops2 \in Operations BY DEF Operations
<1>2. ops2[c] = op /\ \A d \in Consumers \ {c} : ops2[d] = ops[d] BY DEF Operations
<1> HIDE DEF ops2
<1>3. HeldOK(js, j, ops2)
  <2> SUFFICES ASSUME NEW d \in Consumers, ops2[d].pc # "idle"
      PROVE /\ \A r \in ops2[d].scope :
                /\ js[j[r].id] = r /\ Consumer(j[r]) = d
                /\ j[r].consumerPurging /\ j[r].purgeOperation = "none"
            /\ \A r \in Current(js) : Consumer(j[r]) = d => TerminalJob(j[r])
    BY DEF HeldOK
  <2>1. ops[d].pc # "idle" /\ ops2[d].scope = ops[d].scope BY <1>2
  <2> QED BY <2>1 DEF HeldOK
<1>4. QuietOK(j, ops2)
  <2> SUFFICES ASSUME NEW d \in Consumers
      PROVE  /\ ops2[d].pc \notin {"idle", "settling"} =>
                    \A r \in Objs : j[r].execution => Consumer(j[r]) # d
             /\ ops2[d].pc \notin {"idle", "settling", "draining"} =>
                    \A r \in ops2[d].scope : j[r].reads = 0
    BY DEF QuietOK
  <2>1. CASE d = c BY <1>2, <2>1
  <2>2. CASE d # c BY <1>2, <2>2 DEF QuietOK
  <2> QED BY <2>1, <2>2
<1> QED BY <1>1, <1>3, <1>4 DEF ops2

\* evictExpired keeps the invariant, whatever the handler does next.
LEMMA EvictingIsGood ==
    ASSUME ScopePurgeInvariant
    PROVE  /\ Good(KeptJobs, KeptRecords, KeptQueue, scopeOp)
           /\ \A i \in Ids : KeptJobs[i] = jobs[i] \/ KeptJobs[i] = NoObj
<1>1. Good(jobs, job, queue, scopeOp) BY InvariantParts
<1> DEFINE reaped == ReapObserverLeases
<1>2. reaped \in [Objs -> JobRecord] /\ \A r \in Objs : Touches(job[r], reaped[r])
  BY <1>1, ReapTouches DEF Good, Types
<1> DEFINE q == CompactQueue(queue, jobs, reaped)
<1>3. q \in [Objs -> Nat] /\ QueueOK(jobs, reaped, q)
  BY <1>1, CompactQueueType DEF Good, Types
<1>4. Good(jobs, reaped, q, scopeOp) BY <1>1, <1>2, <1>3, TouchingIsGood
<1>5. KeptJobs \in [Ids -> Objs \cup {NoObj}] BY <1>1 DEF KeptJobs, Good, Types
<1>6. ASSUME NEW i \in Ids
      PROVE  \/ KeptJobs[i] = jobs[i]
             \/ /\ KeptJobs[i] = NoObj /\ jobs[i] # NoObj
                /\ ~reaped[jobs[i]].execution
                /\ \A c \in Consumers :
                       scopeOp[c].pc # "idle" => jobs[i] \notin scopeOp[c].scope
  <2>1. KeptJobs[i] = jobs[i] \/ /\ KeptJobs[i] = NoObj /\ jobs[i] # NoObj
                                 /\ EvictableTerminalJob(reaped[jobs[i]])
    BY DEF KeptJobs
  <2>2. EvictableTerminalJob(reaped[jobs[i]]) =>
            ~reaped[jobs[i]].execution /\ ~reaped[jobs[i]].consumerPurging
    BY DEF EvictableTerminalJob
  <2> QED BY <1>4, <2>1, <2>2 DEF Good, HeldOK
<1>7. KeptQueue \in [Objs -> Nat] /\ QueueOK(KeptJobs, reaped, KeptQueue)
  BY <1>5, CompactQueueType DEF KeptQueue
<1> HIDE DEF q, reaped
<1>8. Good(KeptJobs, Collected(KeptJobs, reaped), KeptQueue, scopeOp)
  BY <1>4, <1>5, <1>6, <1>7, DroppingIsGood
<1> QED BY <1>6, <1>8 DEF KeptRecords, reaped

LEMMA TombstoneTypes ==
    ASSUME ScopePurgeInvariant
    PROVE  /\ Unexpired(purgeTombstones) \in [Ids -> {"none", "fresh", "outlived"}]
           /\ Unexpired(consumerPurgeTombstones)
                \in [Ids -> {"none", "fresh", "outlived"}]
  BY DEF ScopePurgeInvariant, TypeOK, Unexpired

-----------------------------------------------------------------------------
(* Handlers that evict first *)

LEMMA GetStep ==
    ASSUME ScopePurgeInvariant, Get
    PROVE  ScopePurgeInvariant'
<1>1. Good(jobs', job', queue', scopeOp')
  BY EvictingIsGood DEF Get, EvictExpired
<1>2. OtherTypes' /\ runningJobs' <= Concurrency
  BY InvariantParts, TombstoneTypes
  DEF Get, EvictExpired, EvictTombstones, OtherTypes
<1> QED BY <1>1, <1>2, InvariantPartsPrime

LEMMA ObserveStep ==
    ASSUME ScopePurgeInvariant, NEW i \in Ids, NEW w \in Observers, Observe(i, w)
    PROVE  ScopePurgeInvariant'
<1> DEFINE r == KeptJobs[i]
           o == KeptRecords[r]
           p == [o EXCEPT !.enforced = TRUE, !.leases = @ \cup {w},
                          !.lapsed = @ \ {w}]
<1>1. Good(KeptJobs, KeptRecords, KeptQueue, scopeOp) BY EvictingIsGood
<1>2. r \in Objs BY <1>1 DEF Observe, Good, Types
<1>3. o \in JobRecord /\ RecordIsConsistent(o) BY <1>1, <1>2 DEF Good, Types
<1>4. p \in JobRecord /\ Touches(o, p) BY <1>3 DEF JobRecord, Touches
<1>5. Touches(o, ScheduleObserverLeaseExpiry(p))
  BY <1>4, ScheduleTouches, TouchesIsTransitive
<1>6. /\ job' = [KeptRecords EXCEPT ![r] = ScheduleObserverLeaseExpiry(p)]
      /\ jobs' = KeptJobs /\ queue' = KeptQueue /\ scopeOp' = scopeOp
  BY DEF Observe
<1> HIDE DEF r, o, p
<1>7. o = KeptRecords[r] BY DEF o
<1>8. job' \in [Objs -> JobRecord] /\ \A s \in Objs : Touches(KeptRecords[s], job'[s])
  BY <1>1, <1>2, <1>5, <1>6, <1>7, TouchesIsReflexive DEF Good, Types, Touches
<1>9. ScheduleObserverLeaseExpiry(p).state = o.state
  BY <1>4 DEF ScheduleObserverLeaseExpiry, p, JobRecord
<1>10. QueueOK(jobs', job', queue')
  BY <1>1, <1>2, <1>6, <1>7, <1>9 DEF QueueOK, Good, Types
<1>11. Good(jobs', job', queue', scopeOp')
  BY <1>1, <1>6, <1>8, <1>10, TouchingIsGood DEF Good, Types
<1>12. OtherTypes' /\ runningJobs' <= Concurrency
  BY InvariantParts, TombstoneTypes DEF Observe, EvictTombstones, OtherTypes
<1> QED BY <1>11, <1>12, InvariantPartsPrime

\* A change of one record of a good heap that Keeps allows and that leaves a
\* queued record queued.
LEMMA OneRecordIsGood ==
    ASSUME NEW js, NEW j, NEW q, NEW ops, Good(js, j, q, ops),
           NEW r, NEW o,
           r \in Objs => Keeps(j[r], o) /\ (j[r].state = "queued" => o.state = "queued")
    PROVE  Good(js, [j EXCEPT ![r] = o], q, ops)
<1> DEFINE j2 == [j EXCEPT ![r] = o]
<1>1. j2 \in [Objs -> JobRecord] BY DEF Good, Types, Keeps
<1>2. \A s \in Objs : Keeps(j[s], j2[s])
  <2> SUFFICES ASSUME NEW s \in Objs PROVE Keeps(j[s], j2[s])
    OBVIOUS
  <2>1. CASE s = r BY <2>1 DEF Good, Types
  <2>2. CASE s # r
    <3>1. j2[s] = j[s] BY <2>2 DEF Good, Types
    <3>2. Touches(j[s], j[s]) BY TouchesIsReflexive DEF Good, Types
    <3> QED BY <3>1, <3>2, TouchesKeeps DEF Good
  <2> QED BY <2>1, <2>2
<1>3. QueueOK(js, j2, q) BY DEF QueueOK, Good, Types
<1> HIDE DEF j2
<1>4. Good(js, j2, q, ops) BY <1>1, <1>2, <1>3, KeepingIsGood DEF Good, Types
<1> QED BY <1>4 DEF j2

LEMMA RequestMediaStep ==
    ASSUME ScopePurgeInvariant, NEW x \in Readers, NEW i \in Ids,
           NEW kind \in {"media", "status"}, RequestMedia(x, i, kind)
    PROVE  ScopePurgeInvariant'
<1> DEFINE r == KeptJobs[i]
           o == KeptRecords[r]
           p == [o EXCEPT !.verification = TRUE]
<1>1. Good(KeptJobs, KeptRecords, KeptQueue, scopeOp) BY EvictingIsGood
<1>2. r \in Objs BY <1>1 DEF RequestMedia, Good, Types
<1>3. o \in JobRecord /\ RecordIsConsistent(o) BY <1>1, <1>2 DEF Good, Types
<1>4. o.state = "completed" BY DEF RequestMedia
<1>5. Keeps(o, p) BY <1>3, <1>4 DEF JobRecord, Keeps, RecordIsConsistent, TerminalJob
<1>6. /\ job' = [KeptRecords EXCEPT ![r] = p]
      /\ jobs' = KeptJobs /\ queue' = KeptQueue /\ scopeOp' = scopeOp
  BY <1>1, <1>2 DEF RequestMedia, Good, Types
<1>7. Good(jobs', job', queue', scopeOp')
  BY <1>1, <1>4, <1>5, <1>6, OneRecordIsGood
<1>8. OtherTypes' /\ runningJobs' <= Concurrency
  <2>1. reader' = [reader EXCEPT ![x] = [pc |-> kind, id |-> i, obj |-> r]]
    BY DEF RequestMedia
  <2> HIDE DEF r
  <2> QED BY <1>2, <2>1, InvariantParts, TombstoneTypes
      DEF RequestMedia, EvictTombstones, OtherTypes
<1> QED BY <1>7, <1>8, InvariantPartsPrime

LEMMA PurgeRequestStep ==
    ASSUME ScopePurgeInvariant, NEW i \in Ids, Purge(i)
    PROVE  ScopePurgeInvariant'
<1> DEFINE r == KeptJobs[i]
           o == KeptRecords[r]
           p == [o EXCEPT !.purging = TRUE, !.purgeOperation = "draining"]
<1>1. Good(KeptJobs, KeptRecords, KeptQueue, scopeOp) BY EvictingIsGood
<1>2. r \in Objs BY <1>1 DEF Purge, Good, Types
<1>3. o \in JobRecord /\ RecordIsConsistent(o) BY <1>1, <1>2 DEF Good, Types
<1>4. o.state = "completed" /\ ~o.consumerPurging BY DEF Purge
<1>5. Keeps(o, p) BY <1>3, <1>4 DEF JobRecord, Keeps, RecordIsConsistent, TerminalJob
<1>6. /\ job' = [KeptRecords EXCEPT ![r] = p]
      /\ jobs' = KeptJobs /\ queue' = KeptQueue /\ scopeOp' = scopeOp
  BY <1>1, <1>2 DEF Purge, Good, Types
<1>7. Good(jobs', job', queue', scopeOp')
  BY <1>1, <1>4, <1>5, <1>6, OneRecordIsGood
<1>8. OtherTypes' /\ runningJobs' <= Concurrency
  BY InvariantParts, TombstoneTypes DEF Purge, EvictTombstones, OtherTypes
<1> QED BY <1>7, <1>8, InvariantPartsPrime

\* Making room drops at most evictable records.
LEMMA RoomierIsGood ==
    ASSUME ScopePurgeInvariant, NEW js \in Roomier
    PROVE  /\ Good(js, Collected(js, KeptRecords),
                   CompactQueue(KeptQueue, js, KeptRecords), scopeOp)
           /\ \A i \in Ids : js[i] = KeptJobs[i] \/ js[i] = NoObj
<1> DEFINE q == CompactQueue(KeptQueue, js, KeptRecords)
<1>1. Good(KeptJobs, KeptRecords, KeptQueue, scopeOp) BY EvictingIsGood
<1>2. \/ js = KeptJobs
      \/ \E k \in Ids : /\ KeptJobs[k] # NoObj
                        /\ EvictableTerminalJob(KeptRecords[KeptJobs[k]])
                        /\ js = [KeptJobs EXCEPT ![k] = NoObj]
  BY DEF Roomier
<1>3. js \in [Ids -> Objs \cup {NoObj}] BY <1>1, <1>2 DEF Good, Types
<1>4. ASSUME NEW i \in Ids
      PROVE  \/ js[i] = KeptJobs[i]
             \/ /\ js[i] = NoObj /\ KeptJobs[i] # NoObj
                /\ ~KeptRecords[KeptJobs[i]].execution
                /\ \A c \in Consumers :
                       scopeOp[c].pc # "idle" => KeptJobs[i] \notin scopeOp[c].scope
  <2>1. \/ js[i] = KeptJobs[i]
        \/ /\ js[i] = NoObj /\ KeptJobs[i] # NoObj
           /\ EvictableTerminalJob(KeptRecords[KeptJobs[i]])
    BY <1>1, <1>2 DEF Good, Types
  <2>2. EvictableTerminalJob(KeptRecords[KeptJobs[i]]) =>
            /\ ~KeptRecords[KeptJobs[i]].execution
            /\ ~KeptRecords[KeptJobs[i]].consumerPurging
    BY DEF EvictableTerminalJob
  <2> QED BY <1>1, <2>1, <2>2 DEF Good, HeldOK
<1>5. q \in [Objs -> Nat] /\ QueueOK(js, KeptRecords, q) BY <1>3, CompactQueueType
<1> HIDE DEF q
<1>6. Good(js, Collected(js, KeptRecords), q, scopeOp)
  BY <1>1, <1>3, <1>4, <1>5, DroppingIsGood
<1> QED BY <1>4, <1>6 DEF q

LEMMA CreateRefusedStep ==
    ASSUME ScopePurgeInvariant, NEW i \in Ids, CreateRefused(i)
    PROVE  ScopePurgeInvariant'
<1>1. Good(jobs', job', queue', scopeOp')
  BY RoomierIsGood DEF CreateRefused
<1>2. OtherTypes' /\ runningJobs' <= Concurrency
  BY InvariantParts, TombstoneTypes
  DEF CreateRefused, ForgetTombstones, OtherTypes
<1> QED BY <1>1, <1>2, InvariantPartsPrime

\* A new record takes the place of one that is failed or has stopped.
LEMMA InsertingIsGood ==
    ASSUME NEW js, NEW j, NEW q, NEW ops, Good(js, j, q, ops),
           NEW i \in Ids, NEW r \in Objs, r \notin Current(js),
           ops[ConsumerOf[i]].pc = "idle",
           js[i] # NoObj => ~j[js[i]].execution /\ TerminalJob(j[js[i]]),
           NEW n \in Nat
    PROVE  LET js2 == [js EXCEPT ![i] = r] IN
           Good(js2, Collected(js2, [j EXCEPT ![r] = NewJob(i)]),
                [q EXCEPT ![r] = n], ops)
<1> USE DEF Good, Types
<1> DEFINE js2 == [js EXCEPT ![i] = r]
           j1 == [j EXCEPT ![r] = NewJob(i)]
           j2 == Collected(js2, j1)
           q2 == [q EXCEPT ![r] = n]
<1>1. j1 \in [Objs -> JobRecord] /\ j1[r] = NewJob(i)
      /\ \A s \in Objs \ {r} : j1[s] = j[s]
  BY NewJobIsRecord
<1>2. js2 \in [Ids -> Objs \cup {NoObj}] /\ js2[i] = r
      /\ \A k \in Ids \ {i} : js2[k] = js[k]
  OBVIOUS
<1>3. q2 \in [Objs -> Nat] /\ \A s \in Objs \ {r} : q2[s] = q[s] OBVIOUS
<1> HIDE DEF js2, j1, q2
<1>4. /\ j2 \in [Objs -> JobRecord]
      /\ \A s \in Objs : \/ j2[s] = j1[s]
                         \/ j2[s] = Blank /\ s \notin Current(js2) /\ ~j1[s].execution
  BY <1>1, CollectedType
<1> HIDE DEF j2
<1>5. r # NoObj BY IdsAssumption
<1>6. r \in Current(js2) /\ j2[r] = NewJob(i)
  BY <1>1, <1>2, <1>4, <1>5 DEF Current
<1>7. \A s \in Current(js2) \ {r} : s \in Current(js) /\ j2[s] = j[s]
  BY <1>1, <1>2, <1>4 DEF Current
<1>8. ASSUME NEW s \in Objs, j2[s].execution
      PROVE  s # r /\ j2[s] = j[s] /\ s \in Current(js2)
  <2>1. s # r BY <1>6, <1>8, NewJobIsRecord
  <2>2. j2[s] = j[s] BY <1>1, <1>4, <1>8, <2>1, BlankIsRecord
  <2>3. js[j[s].id] = s /\ j[s].id \in Ids BY <1>8, <2>2 DEF LiveOK, JobRecord
  <2>4. s # NoObj BY IdsAssumption
  <2>5. j[s].id # i BY <1>8, <2>2, <2>3, <2>4
  <2>6. js2[j[s].id] = s BY <1>2, <2>3, <2>5
  <2> QED BY <2>1, <2>2, <2>3, <2>4, <2>6 DEF Current
<1>9. ASSUME NEW s \in Objs PROVE RecordIsConsistent(j2[s])
  <2>1. RecordIsConsistent(Blank) BY BlankIsRecord
  <2>2. RecordIsConsistent(NewJob(i)) BY NewJobIsRecord
  <2>3. CASE s = r BY <1>6, <2>2, <2>3
  <2>4. CASE s # r /\ j2[s] = j[s] BY <2>4
  <2>5. CASE j2[s] = Blank BY <2>1, <2>5, Zenon
  <2> QED BY <1>1, <1>4, <2>3, <2>4, <2>5
<1>10. MapOK(js2, j2)
  <2> SUFFICES ASSUME NEW k \in Ids, js2[k] # NoObj
      PROVE  j2[js2[k]].id = k /\ j2[js2[k]].state # "free"
    BY DEF MapOK
  <2>1. CASE k = i BY <1>2, <1>6, <2>1, NewJobIsRecord
  <2>2. CASE k # i
    <3>1. js2[k] = js[k] /\ js[k] \in Current(js) BY <1>2, <2>2 DEF Current
    <3>2. js[k] # r BY <3>1
    <3>3. js[k] \in Current(js2) BY <3>1 DEF Current
    <3> QED BY <1>7, <3>1, <3>2, <3>3 DEF MapOK
  <2> QED BY <2>1, <2>2
<1>11. QueueOK(js2, j2, q2)
  <2> SUFFICES ASSUME NEW s \in Objs, q2[s] > 0
      PROVE  s \in Current(js2) /\ j2[s].state = "queued"
    BY DEF QueueOK
  <2>1. CASE s = r BY <1>6, <2>1, NewJobIsRecord
  <2>2. CASE s # r
    <3>1. s \in Current(js) /\ j[s].state = "queued" BY <1>3, <2>2 DEF QueueOK
    <3>2. js[j[s].id] = s /\ j[s].id \in Ids BY <3>1, CurrentIsNamed
    <3>3. j[s].id # i
      BY <3>1, <3>2, IdsAssumption DEF TerminalJob, Terminal
    <3>4. s \in Current(js2) BY <1>2, <3>2, <3>3, IdsAssumption DEF Current
    <3> QED BY <1>7, <2>2, <3>1, <3>4
  <2> QED BY <2>1, <2>2
<1>12. LiveOK(js2, j2)
  <2> SUFFICES ASSUME NEW s \in Objs, j2[s].execution PROVE js2[j2[s].id] = s
    BY DEF LiveOK
  <2>1. s \in Current(js2) /\ s # r /\ j2[s] = j[s] BY <1>8
  <2> QED BY <1>2, <1>10, <2>1, CurrentIsNamed
<1>13. HeldOK(js2, j2, ops)
  <2> SUFFICES ASSUME NEW c \in Consumers, ops[c].pc # "idle"
      PROVE /\ \A s \in ops[c].scope :
                /\ js2[j2[s].id] = s /\ Consumer(j2[s]) = c
                /\ j2[s].consumerPurging /\ j2[s].purgeOperation = "none"
            /\ \A s \in Current(js2) : Consumer(j2[s]) = c => TerminalJob(j2[s])
    BY DEF HeldOK
  <2>0. ConsumerOf[i] # c OBVIOUS
  <2>1. ASSUME NEW s \in ops[c].scope
        PROVE  /\ js2[j2[s].id] = s /\ Consumer(j2[s]) = c
               /\ j2[s].consumerPurging /\ j2[s].purgeOperation = "none"
    <3>1. s \in Objs
      <4>1. ops[c].scope \in SUBSET Objs BY DEF Operations
      <4> QED BY <4>1
    <3>2. /\ js[j[s].id] = s /\ Consumer(j[s]) = c
          /\ j[s].consumerPurging /\ j[s].purgeOperation = "none"
      BY DEF HeldOK
    <3>3. j[s].id \in Ids /\ j[s].id # i
      BY <2>0, <3>1, <3>2 DEF JobRecord, Consumer
    <3>4. js2[j[s].id] = s BY <1>2, <3>2, <3>3
    <3>5. s \in Current(js) BY <3>1, <3>2, <3>3, IdsAssumption DEF Current
    <3>6. s \in Current(js2) BY <3>1, <3>3, <3>4, IdsAssumption DEF Current
    <3> QED BY <1>7, <3>2, <3>4, <3>5, <3>6
  <2>2. ASSUME NEW s \in Current(js2), Consumer(j2[s]) = c
        PROVE  TerminalJob(j2[s])
    <3>1. s # r BY <1>6, <2>0, <2>2, NewJobIsRecord DEF Consumer
    <3> QED BY <1>7, <2>2, <3>1 DEF HeldOK
  <2> QED BY <2>1, <2>2
<1>14. QuietOK(j2, ops)
  <2> SUFFICES ASSUME NEW c \in Consumers
      PROVE  /\ ops[c].pc \notin {"idle", "settling"} =>
                    \A s \in Objs : j2[s].execution => Consumer(j2[s]) # c
             /\ ops[c].pc \notin {"idle", "settling", "draining"} =>
                    \A s \in ops[c].scope : j2[s].reads = 0
    BY DEF QuietOK
  <2>1. ASSUME NEW s \in Objs, j2[s].execution, ops[c].pc \notin {"idle", "settling"}
        PROVE  Consumer(j2[s]) # c
    BY <1>8, <2>1 DEF QuietOK
  <2>2. ASSUME ops[c].pc \notin {"idle", "settling", "draining"},
               NEW s \in ops[c].scope
        PROVE  j2[s].reads = 0
    <3>1. s \in Objs
      <4>1. ops[c].scope \in SUBSET Objs BY DEF Operations
      <4> QED BY <4>1
    <3>2. j[s].reads = 0 BY <2>2 DEF QuietOK
    <3>3. js[j[s].id] = s /\ j[s].id \in Ids
      BY <2>2, <3>1 DEF HeldOK, JobRecord
    <3>4. s # r BY <3>1, <3>3, IdsAssumption DEF Current
    <3> QED BY <1>1, <1>4, <3>1, <3>2, <3>4, BlankIsRecord
  <2> QED BY <2>1, <2>2
<1> QED BY <1>2, <1>3, <1>4, <1>9, <1>10, <1>11, <1>12, <1>13, <1>14
    DEF js2, j1, j2, q2

\* What create inserts its record into, and what comes out of it.
LEMMA CreatingIsGood ==
    ASSUME ScopePurgeInvariant, NEW i \in Ids, MayCreate(i),
           NEW js \in Roomier, NEW r \in Objs, job[r].state = "free"
    PROVE  LET roomy == Collected(js, KeptRecords)
               q     == CompactQueue(KeptQueue, js, KeptRecords)
               js2   == [js EXCEPT ![i] = r]
           IN  /\ Good(js, roomy, q, scopeOp) /\ r \notin Current(js)
               /\ js[i] # NoObj => ~roomy[js[i]].execution /\ TerminalJob(roomy[js[i]])
               /\ Good(js2, Collected(js2, [roomy EXCEPT ![r] = NewJob(i)]),
                       [q EXCEPT ![r] = Waiting(q) + 1], scopeOp)
<1> DEFINE roomy == Collected(js, KeptRecords)
           q     == CompactQueue(KeptQueue, js, KeptRecords)
           js2   == [js EXCEPT ![i] = r]
<1>2. Good(jobs, job, queue, scopeOp) BY InvariantParts
<1>3. Good(KeptJobs, KeptRecords, KeptQueue, scopeOp)
      /\ \A k \in Ids : KeptJobs[k] = jobs[k] \/ KeptJobs[k] = NoObj
  BY EvictingIsGood
<1>4. Good(js, roomy, q, scopeOp)
      /\ \A k \in Ids : js[k] = KeptJobs[k] \/ js[k] = NoObj
  BY RoomierIsGood
<1>5. r \notin Current(js)
  <2>1. r \notin Current(jobs) BY <1>2, CurrentIsNamed DEF Good, Types
  <2> QED BY <1>3, <1>4, <2>1 DEF Current
<1>6. js[i] # NoObj => ~roomy[js[i]].execution /\ TerminalJob(roomy[js[i]])
  <2> SUFFICES ASSUME js[i] # NoObj
               PROVE  ~roomy[js[i]].execution /\ TerminalJob(roomy[js[i]])
    OBVIOUS
  <2> DEFINE s == js[i]
  <2>1. s = KeptJobs[i] BY <1>4
  <2>2. s \in Current(js) /\ s \in Current(KeptJobs) /\ s \in Objs
    BY <1>3, <1>4, <2>1 DEF Current, Good, Types
  <2>3. roomy[s] = KeptRecords[s]
    BY <1>3, <2>2, CollectedType DEF Good, Types
  <2>4. KeptRecords[s].id = i BY <1>3, <2>1 DEF Good, MapOK
  <2>5. KeptRecords[s].state \in {"failed", "cancelled"}
    BY <2>1 DEF MayCreate, MayReplace
  <2>6. KeptRecords[s].state = "cancelled" => ~KeptRecords[s].execution
    BY <2>2, <2>4 DEF MayCreate, CancelledWriterIn, Consumer
  <2>7. RecordIsConsistent(KeptRecords[s]) BY <1>3, <2>2 DEF Good
  <2>8. ~KeptRecords[s].execution BY <2>5, <2>6, <2>7 DEF RecordIsConsistent
  <2> QED BY <2>3, <2>5, <2>8 DEF TerminalJob, Terminal
<1>7. scopeOp[ConsumerOf[i]].pc = "idle" BY DEF MayCreate
<1>8. Waiting(q) + 1 \in Nat BY WaitingType DEF Waiting
<1> HIDE DEF roomy, q
<1>9. Good(js2, Collected(js2, [roomy EXCEPT ![r] = NewJob(i)]),
           [q EXCEPT ![r] = Waiting(q) + 1], scopeOp)
  BY <1>4, <1>5, <1>6, <1>7, <1>8, InsertingIsGood
<1> QED BY <1>4, <1>5, <1>6, <1>9 DEF roomy, q

LEMMA CreateStep ==
    ASSUME ScopePurgeInvariant, NEW i \in Ids, Create(i)
    PROVE  ScopePurgeInvariant'
<1>1. PICK js \in Roomier, r \in Objs :
        LET roomy == Collected(js, KeptRecords)
            q     == CompactQueue(KeptQueue, js, KeptRecords)
            js2   == [js EXCEPT ![i] = r]
        IN  /\ job[r].state = "free"
            /\ jobs' = js2
            /\ StartNext(Collected(js2, [roomy EXCEPT ![r] = NewJob(i)]),
                         [q EXCEPT ![r] = Waiting(q) + 1], runningJobs)
  BY DEF Create
<1> DEFINE roomy == Collected(js, KeptRecords)
           q     == CompactQueue(KeptQueue, js, KeptRecords)
           js2   == [js EXCEPT ![i] = r]
           j2    == Collected(js2, [roomy EXCEPT ![r] = NewJob(i)])
           q2    == [q EXCEPT ![r] = Waiting(q) + 1]
<1>2. runningJobs \in Int /\ runningJobs <= Concurrency
  BY InvariantParts DEF OtherTypes
<1>3. Good(js2, j2, q2, scopeOp) BY <1>1, CreatingIsGood DEF Create
<1>4. jobs' = js2 /\ StartNext(j2, q2, runningJobs) BY <1>1
<1> HIDE DEF js2, j2, q2
<1>5. /\ Good(js2, job', queue', scopeOp)
      /\ runningJobs' \in Int /\ runningJobs' <= Concurrency
  BY <1>2, <1>3, <1>4, StartingIsGood
<1>6. Good(jobs', job', queue', scopeOp') BY <1>4, <1>5 DEF Create
<1>7. OtherTypes'
  BY <1>5, InvariantParts, TombstoneTypes DEF Create, ForgetTombstones, OtherTypes
<1> QED BY <1>5, <1>6, <1>7, InvariantPartsPrime

LEMMA PurgeConsumerCacheStep ==
    ASSUME ScopePurgeInvariant, NEW i \in Ids, PurgeConsumerCache(i)
    PROVE  ScopePurgeInvariant'
<1> DEFINE c     == ConsumerOf[i]
           js    == KeptJobs
           j     == KeptRecords
           scope == ScopeJobs(c, js, j)
           Flagged(r) == [j[r] EXCEPT !.consumerPurging = TRUE]
           Held(r) == FinalizeCancellation(Flagged(r), "user-requested")
           op    == [pc |-> "settling", job |-> KeptJobs[i], scope |-> scope]
<1>1. Good(js, j, KeptQueue, scopeOp) BY EvictingIsGood
<1>2. /\ job' = [r \in Objs |-> IF r \in scope THEN Held(r) ELSE j[r]]
      /\ jobs' = js
      /\ queue' = CompactQueue(KeptQueue, js, job')
      /\ scopeOp' = [scopeOp EXCEPT ![c] = op]
      /\ scopeOp[c].pc = "idle" /\ js[i] # NoObj
      /\ \A r \in scope :
            /\ j[r].purgeOperation = "none"
            /\ j[r].state = "running" => j[r].execution
  BY DEF PurgeConsumerCache
<1>3. c \in Consumers BY OwnershipAssumption
<1>4. scope \subseteq Current(js) /\ Current(js) \subseteq Objs
  BY <1>1 DEF ScopeJobs, Current, Good, Types
<1>5. ASSUME NEW r \in scope
      PROVE  /\ Keeps(j[r], Held(r)) /\ Held(r).purgeOperation = "none"
             /\ Held(r).consumerPurging /\ TerminalJob(Held(r))
             /\ Held(r).id = j[r].id /\ Consumer(j[r]) = c
  <2>1. j[r] \in JobRecord /\ RecordIsConsistent(j[r]) /\ j[r].purgeOperation = "none"
    BY <1>1, <1>2, <1>4 DEF Good, Types
  <2>2. /\ Flagged(r) \in JobRecord /\ RecordIsConsistent(Flagged(r))
        /\ Flagged(r).consumerPurging /\ Flagged(r).purgeOperation = "none"
        /\ Flagged(r).id = j[r].id /\ Flagged(r).execution = j[r].execution
        /\ Flagged(r).state = j[r].state /\ Flagged(r).reads = j[r].reads
    BY <2>1 DEF JobRecord, RecordIsConsistent
  <2> HIDE DEF Flagged
  <2>3. Touches(Flagged(r), Held(r)) BY <2>2, FinalizeTouches DEF Reasons
  <2>4. TerminalJob(Held(r))
    <3>1. CASE TerminalJob(Flagged(r))
      BY <2>3, <3>1 DEF Touches, TerminalJob, Terminal
    <3>2. CASE Flagged(r).cancellation # "none"
      BY <2>2, <2>3, <3>2 DEF Touches, RecordIsConsistent, TerminalJob, Terminal
    <3>3. CASE ~(TerminalJob(Flagged(r)) \/ Flagged(r).cancellation # "none")
      BY <2>2, <3>3
      DEF FinalizeCancellation, FinishObserverLeases, TerminalJob, Terminal, JobRecord
    <3> QED BY <3>1, <3>2, <3>3
  <2>5. Keeps(Flagged(r), Held(r)) BY <2>2, <2>3, TouchesKeeps
  <2>6. Consumer(j[r]) = c BY DEF ScopeJobs
  <2>7. Held(r).purgeOperation = "none" /\ Held(r).consumerPurging
        /\ Held(r).id = j[r].id
    BY <2>2, <2>3 DEF Touches
  <2> HIDE DEF Held
  <2>8. Keeps(j[r], Held(r)) BY <2>2, <2>5, <2>7 DEF Keeps, TerminalJob
  <2> QED BY <2>4, <2>6, <2>7, <2>8
<1> HIDE DEF Held, Flagged
<1>6. job' \in [Objs -> JobRecord] /\ \A r \in Objs : Keeps(j[r], job'[r])
  <2>1. \A r \in Objs : Keeps(j[r], j[r])
    BY <1>1, TouchesIsReflexive, TouchesKeeps DEF Good, Types
  <2>2. \A r \in Objs : Keeps(j[r], IF r \in scope THEN Held(r) ELSE j[r])
    BY <1>5, <2>1
  <2> HIDE DEF scope, j
  <2>3. \A r \in Objs : job'[r] = IF r \in scope THEN Held(r) ELSE j[r] BY <1>2
  <2> QED BY <1>2, <2>2, <2>3 DEF Keeps
<1>7. queue' \in [Objs -> Nat] /\ QueueOK(js, job', queue')
  BY <1>1, <1>2, CompactQueueType DEF Good, Types
<1>8. Good(js, job', queue', scopeOp)
  BY <1>1, <1>6, <1>7, KeepingIsGood
<1>9. scopeOp' \in Operations
  <2>1. js[i] \in Objs \cup {NoObj} BY <1>1 DEF Good, Types
  <2>2. op \in [pc : {"idle", "settling", "draining", "awaiting", "verifying",
                      "verified", "queued", "inspecting", "removing"},
                job : Objs \cup {NoObj}, scope : SUBSET Objs]
    BY <1>4, <2>1
  <2> QED BY <1>1, <1>2, <1>3, <2>2 DEF Good, Types, Operations
<1>10. scopeOp'[c] = op /\ \A d \in Consumers \ {c} : scopeOp'[d] = scopeOp[d]
  BY <1>1, <1>2, <1>3 DEF Good, Types, Operations
<1> HIDE DEF scope
<1>11. HeldOK(js, job', scopeOp')
  <2> SUFFICES ASSUME NEW d \in Consumers, scopeOp'[d].pc # "idle"
      PROVE /\ \A r \in scopeOp'[d].scope :
                /\ js[job'[r].id] = r /\ Consumer(job'[r]) = d
                /\ job'[r].consumerPurging /\ job'[r].purgeOperation = "none"
            /\ \A r \in Current(js) : Consumer(job'[r]) = d => TerminalJob(job'[r])
    BY DEF HeldOK
  <2>1. CASE d # c BY <1>8, <1>10, <2>1 DEF Good, HeldOK
  <2>2. CASE d = c
    <3>1. scopeOp'[d].scope = scope BY <1>10, <2>2
    <3>2. \A r \in scope : job'[r] = Held(r) BY <1>2, <1>4
    <3>3. \A r \in scope : js[j[r].id] = r
      BY <1>1, <1>4, CurrentIsNamed DEF Good, Types
    <3>4. \A r \in scope :
            /\ js[job'[r].id] = r /\ Consumer(job'[r]) = c
            /\ job'[r].consumerPurging /\ job'[r].purgeOperation = "none"
      BY <1>5, <3>2, <3>3 DEF Consumer
    <3>5. ASSUME NEW r \in Current(js), Consumer(job'[r]) = c
          PROVE  TerminalJob(job'[r])
      <4>1. job'[r].id = j[r].id BY <1>4, <1>6 DEF Keeps
      <4>2. r \in scope BY <3>5, <4>1 DEF scope, ScopeJobs, Consumer
      <4> QED BY <1>5, <3>2, <4>2
    <3> QED BY <2>2, <3>1, <3>4, <3>5
  <2> QED BY <2>1, <2>2
<1>12. QuietOK(job', scopeOp')
  BY <1>8, <1>10 DEF Good, QuietOK
<1>13. Good(jobs', job', queue', scopeOp')
  BY <1>2, <1>8, <1>9, <1>11, <1>12 DEF Good, Types
<1>14. OtherTypes' /\ runningJobs' <= Concurrency
  BY InvariantParts, TombstoneTypes DEF PurgeConsumerCache, EvictTombstones, OtherTypes
<1> QED BY <1>13, <1>14, InvariantPartsPrime

-----------------------------------------------------------------------------
(* Handlers that change one record *)

\* A record is touched and the queue compacted after it.
LEMMA UpdateJobStep ==
    ASSUME ScopePurgeInvariant, NEW r, NEW o, r \in Objs => Touches(job[r], o),
           UpdateJob(r, o)
    PROVE  ScopePurgeInvariant'
<1>1. Good(jobs, job, queue, scopeOp) BY InvariantParts
<1>2. /\ job' = [job EXCEPT ![r] = o]
      /\ queue' = CompactQueue(queue, jobs, job')
      /\ UNCHANGED <<jobs, scopeOp>>
  BY DEF UpdateJob
<1>3. job' \in [Objs -> JobRecord] /\ \A s \in Objs : Touches(job[s], job'[s])
  BY <1>1, <1>2, TouchesIsReflexive DEF Good, Types, Touches
<1>4. queue' \in [Objs -> Nat] /\ QueueOK(jobs, job', queue')
  BY <1>1, <1>2, CompactQueueType DEF Good, Types
<1>5. Good(jobs', job', queue', scopeOp')
  BY <1>1, <1>2, <1>3, <1>4, TouchingIsGood
<1>6. OtherTypes' /\ runningJobs' <= Concurrency
  BY InvariantParts DEF UpdateJob, OtherTypes
<1> QED BY <1>5, <1>6, InvariantPartsPrime

LEMMA RenewObserverStep ==
    ASSUME ScopePurgeInvariant, NEW i \in Ids, NEW w \in Observers, RenewObserver(i, w)
    PROVE  ScopePurgeInvariant'
<1> DEFINE r == jobs[i]
           o == ExpireObserverLeases(job[r])
           p == IF TerminalJob(o) \/ w \notin o.leases THEN o
                ELSE ScheduleObserverLeaseExpiry(o)
<1>1. r \in Objs /\ job[r] \in JobRecord
  BY DEF RenewObserver, ScopePurgeInvariant, TypeOK
<1>2. Touches(job[r], o) BY <1>1, ExpireTouches
<1>3. Touches(job[r], ScheduleObserverLeaseExpiry(o))
  BY <1>2, ScheduleTouches, TouchesIsTransitive DEF Touches
<1>4. UpdateJob(r, p) BY DEF RenewObserver
<1> HIDE DEF o
<1>5. Touches(job[r], p) BY <1>2, <1>3
<1> QED BY <1>4, <1>5, UpdateJobStep

LEMMA ObserverLeaseTimerStep ==
    ASSUME ScopePurgeInvariant, NEW r \in Objs, ObserverLeaseTimer(r)
    PROVE  ScopePurgeInvariant'
<1> DEFINE o == [job[r] EXCEPT !.leaseTimer = FALSE]
           p == ScheduleObserverLeaseExpiry(ExpireObserverLeases(o))
<1>1. job[r] \in JobRecord BY DEF ScopePurgeInvariant, TypeOK
<1>2. o \in JobRecord /\ Touches(job[r], o) BY <1>1 DEF Touches, JobRecord
<1>3. Touches(job[r], ExpireObserverLeases(o))
  BY <1>2, ExpireTouches, TouchesIsTransitive
<1>4. Touches(job[r], p) BY <1>3, ScheduleTouches, TouchesIsTransitive DEF Touches
<1>5. UpdateJob(r, p) BY DEF ObserverLeaseTimer
<1> QED BY <1>4, <1>5, UpdateJobStep

LEMMA CancelStep ==
    ASSUME ScopePurgeInvariant, NEW i \in Ids, Cancel(i)
    PROVE  ScopePurgeInvariant'
<1>1. jobs[i] \in Objs /\ job[jobs[i]] \in JobRecord
  BY DEF Cancel, ScopePurgeInvariant, TypeOK
<1>2. Touches(job[jobs[i]], FinalizeCancellation(job[jobs[i]], "user-requested"))
  BY <1>1, FinalizeTouches DEF Reasons
<1> QED BY <1>2, UpdateJobStep DEF Cancel

LEMMA ExecutionDeadlineStep ==
    ASSUME ScopePurgeInvariant, NEW r \in Objs, ExecutionDeadline(r)
    PROVE  ScopePurgeInvariant'
<1> DEFINE o == [job[r] EXCEPT !.deadlineTimer = FALSE]
<1>1. job[r] \in JobRecord BY DEF ScopePurgeInvariant, TypeOK
<1>2. o \in JobRecord /\ Touches(job[r], o) BY <1>1 DEF Touches, JobRecord
<1>3. Touches(job[r], FinalizeCancellation(o, "execution-deadline"))
  BY <1>2, FinalizeTouches, TouchesIsTransitive DEF Reasons
<1> QED BY <1>3, UpdateJobStep DEF ExecutionDeadline

\* A record is changed as Keeps allows, without leaving the queue.
LEMMA RecordStep1 ==
    ASSUME ScopePurgeInvariant, NEW r, NEW o,
           r \in Objs => Keeps(job[r], o) /\ (job[r].state = "queued" => o.state = "queued"),
           job' = [job EXCEPT ![r] = o],
           UNCHANGED <<jobs, queue, scopeOp, runningJobs>>, OtherTypes'
    PROVE  ScopePurgeInvariant'
<1>1. Good(jobs, [job EXCEPT ![r] = o], queue, scopeOp)
  BY InvariantParts, OneRecordIsGood
<1> QED BY <1>1, InvariantParts, InvariantPartsPrime

LEMMA RunnerPublishesStep ==
    ASSUME ScopePurgeInvariant, NEW r \in Objs, RunnerPublishes(r)
    PROVE  ScopePurgeInvariant'
<1> DEFINE o == [job[r] EXCEPT !.published = TRUE]
<1>1. job[r] \in JobRecord /\ RecordIsConsistent(job[r]) /\ job \in [Objs -> JobRecord]
  BY DEF ScopePurgeInvariant, TypeOK
<1>2. Keeps(job[r], o) /\ job[r].state # "queued"
  BY <1>1 DEF Keeps, JobRecord, RecordIsConsistent, TerminalJob, RunnerPublishes
<1>3. job' = [job EXCEPT ![r] = o] BY <1>1 DEF RunnerPublishes
<1>4. OtherTypes' BY InvariantParts DEF RunnerPublishes, OtherTypes
<1>5. UNCHANGED <<jobs, queue, scopeOp, runningJobs>> BY DEF RunnerPublishes
<1> QED BY <1>2, <1>3, <1>4, <1>5, RecordStep1

\* Only what the purge of one record and the time may change: job.
LEMMA PurgeStepKeeps ==
    ASSUME ScopePurgeInvariant, NEW r \in Objs, NEW o, PurgeStep(r, o),
           Keeps(job[r], o), job[r].state # "queued"
    PROVE  ScopePurgeInvariant'
<1>1. OtherTypes' BY InvariantParts DEF PurgeStep, OtherTypes
<1> QED BY <1>1, RecordStep1 DEF PurgeStep

LEMMA GivingUpKeeps ==
    ASSUME NEW o \in JobRecord, RecordIsConsistent(o)
    PROVE  Keeps(o, PurgeGivesUp(o))
  BY DEF Keeps, PurgeGivesUp, JobRecord, RecordIsConsistent, TerminalJob

LEMMA PurgeRecordSteps ==
    ASSUME ScopePurgeInvariant, NEW r \in Objs,
           \/ PurgeDrained(r) \/ PurgeDrainTimeout(r) \/ PurgeVerified(r)
           \/ PurgeUnlinkFails(r)
    PROVE  ScopePurgeInvariant'
<1> DEFINE o == job[r]
<1>1. o \in JobRecord /\ RecordIsConsistent(o) BY DEF ScopePurgeInvariant, TypeOK
<1>2. Keeps(o, PurgeGivesUp(o)) BY <1>1, GivingUpKeeps
<1>3. o.purgeOperation # "none"
  BY DEF PurgeDrained, PurgeDrainTimeout, PurgeVerified, PurgeUnlinkFails
<1>4. o.state # "queued" BY <1>1, <1>3 DEF RecordIsConsistent
<1>5. CASE PurgeDrained(r)
  <2>1. Keeps(o, [o EXCEPT !.verification = TRUE, !.purgeOperation = "verifying"])
    BY <1>1, <1>3 DEF Keeps, JobRecord, RecordIsConsistent, TerminalJob
  <2>2. Keeps(o, IF o.state = "completed"
                 THEN [o EXCEPT !.verification = TRUE, !.purgeOperation = "verifying"]
                 ELSE PurgeGivesUp(o))
    BY <1>2, <2>1
  <2> QED BY <1>4, <1>5, <2>2, PurgeStepKeeps DEF PurgeDrained
<1>6. CASE PurgeVerified(r)
  <2>1. Keeps(o, [o EXCEPT !.purgeOperation = "unlinking"])
    BY <1>1, <1>3 DEF Keeps, JobRecord, RecordIsConsistent, TerminalJob
  <2>2. Keeps(o, IF o.state = "completed" /\ o.reads = 0
                 THEN [o EXCEPT !.purgeOperation = "unlinking"]
                 ELSE PurgeGivesUp(o))
    BY <1>2, <2>1
  <2> QED BY <1>4, <1>6, <2>2, PurgeStepKeeps DEF PurgeVerified
<1>7. CASE PurgeDrainTimeout(r)
  BY <1>2, <1>4, <1>7, PurgeStepKeeps DEF PurgeDrainTimeout
<1>8. CASE PurgeUnlinkFails(r)
  <2>1. OtherTypes' BY <1>8, InvariantParts DEF PurgeUnlinkFails, OtherTypes
  <2>2. /\ job' = [job EXCEPT ![r] = PurgeGivesUp(o)]
        /\ UNCHANGED <<jobs, queue, scopeOp, runningJobs>>
    BY <1>8 DEF PurgeUnlinkFails
  <2> QED BY <1>2, <1>4, <2>1, <2>2, RecordStep1
<1> QED BY <1>5, <1>6, <1>7, <1>8

LEMMA PurgeUnlinksStep ==
    ASSUME ScopePurgeInvariant, NEW r \in Objs, PurgeUnlinks(r)
    PROVE  ScopePurgeInvariant'
<1> DEFINE o == [job[r] EXCEPT !.purgeOperation = "unlinked"]
<1>1. job[r] \in JobRecord /\ RecordIsConsistent(job[r]) /\ job \in [Objs -> JobRecord]
  BY DEF ScopePurgeInvariant, TypeOK
<1>2. Keeps(job[r], o) /\ job[r].state # "queued"
  BY <1>1 DEF Keeps, JobRecord, RecordIsConsistent, TerminalJob, PurgeUnlinks
<1>3. job' = [job EXCEPT ![r] = o] BY <1>1 DEF PurgeUnlinks
<1>4. OtherTypes' BY InvariantParts DEF PurgeUnlinks, OtherTypes
<1>5. UNCHANGED <<jobs, queue, scopeOp, runningJobs>> BY DEF PurgeUnlinks
<1> QED BY <1>2, <1>3, <1>4, <1>5, RecordStep1

LEMMA PurgeCompletesStep ==
    ASSUME ScopePurgeInvariant, NEW r \in Objs, PurgeCompletes(r)
    PROVE  ScopePurgeInvariant'
<1> DEFINE o  == [job[r] EXCEPT !.purgeOperation = "none"]
           j  == [job EXCEPT ![r] = o]
           js == [jobs EXCEPT ![job[r].id] = NoObj]
<1>1. Good(jobs, job, queue, scopeOp) BY InvariantParts
<1>2. job[r] \in JobRecord /\ RecordIsConsistent(job[r]) /\ job \in [Objs -> JobRecord]
  BY <1>1 DEF Good, Types
<1>3. job[r].purgeOperation # "none" /\ jobs[job[r].id] = r /\ job[r].id \in Ids
  BY <1>2 DEF PurgeCompletes, JobRecord
<1>4. /\ Keeps(job[r], o)
      /\ job[r].state \notin {"queued", "running", "cancelled"}
  BY <1>2, <1>3 DEF Keeps, JobRecord, RecordIsConsistent, TerminalJob
<1>5. Good(jobs, j, queue, scopeOp) BY <1>1, <1>4, OneRecordIsGood
<1>6. ~j[r].execution
  BY <1>2, <1>4 DEF RecordIsConsistent, JobRecord
<1>7. \A c \in Consumers : scopeOp[c].pc # "idle" => r \notin scopeOp[c].scope
  BY <1>1, <1>3 DEF Good, HeldOK
<1>8. js \in [Ids -> Objs \cup {NoObj}] /\ r # NoObj
  BY <1>1, IdsAssumption DEF Good, Types
<1>9. \A i \in Ids : \/ js[i] = jobs[i]
                     \/ js[i] = NoObj /\ jobs[i] = r
  BY <1>1, <1>3 DEF Good, Types
<1>10. /\ jobs' = js /\ job' = Collected(js, j)
       /\ queue' = CompactQueue(queue, js, job) /\ scopeOp' = scopeOp
  BY <1>2 DEF PurgeCompletes
<1>11. queue' \in [Objs -> Nat] /\ QueueOK(js, job, queue')
  BY <1>8, <1>10, CompactQueueType
<1>12. QueueOK(js, j, queue')
  BY <1>2, <1>4, <1>11 DEF QueueOK
<1> HIDE DEF js, j
<1>13. Good(js, Collected(js, j), queue', scopeOp)
  BY <1>5, <1>6, <1>7, <1>8, <1>9, <1>11, <1>12, DroppingIsGood
<1>14. OtherTypes' /\ runningJobs' <= Concurrency
  BY InvariantParts DEF PurgeCompletes, OtherTypes
<1> QED BY <1>10, <1>13, <1>14, InvariantPartsPrime

\* What a record keeps when its runner stops.
Stops(o, p) ==
    /\ ~p.execution
    /\ p.id = o.id /\ p.reads = o.reads
    /\ p.state = o.state /\ p.cancellation = o.cancellation
    /\ p.purgeOperation = o.purgeOperation
    /\ p.consumerPurging = o.consumerPurging
    /\ p.verification = o.verification

\* Clearing the runner and its timers is a stop.
LEMMA StoppedIsRecord ==
    ASSUME NEW o \in JobRecord
    PROVE  LET p == [o EXCEPT !.execution = FALSE, !.deadlineTimer = FALSE,
                              !.outlived = FALSE]
           IN  p \in JobRecord /\ Stops(o, p)
  BY DEF JobRecord, Stops

\* A runner that stops leaves a record that is over.
LEMMA SettledKeeps ==
    ASSUME NEW o \in JobRecord, RecordIsConsistent(o), o.execution,
           NEW outcome \in {"completed", "failed"}
    PROVE  /\ Keeps(o, Settled(o, outcome)) /\ o.state # "queued"
           /\ ~Settled(o, outcome).execution /\ TerminalJob(Settled(o, outcome))
<1> DEFINE final == IF o.cancellation # "none" THEN o
                    ELSE [o EXCEPT !.state = outcome]
           p == [final EXCEPT !.execution = FALSE, !.deadlineTimer = FALSE,
                              !.outlived = FALSE]
<1>1. final \in JobRecord BY DEF JobRecord, Terminal
<1>2. /\ final.state # "free" /\ TerminalJob(final)
      /\ final.cancellation # "none" => final.state = "cancelled"
      /\ final.id = o.id /\ final.reads = o.reads
      /\ final.purgeOperation = o.purgeOperation
      /\ final.consumerPurging = o.consumerPurging
      /\ final.verification = o.verification
  BY DEF JobRecord, RecordIsConsistent, TerminalJob, Terminal
<1> HIDE DEF final
<1>a. ~o.verification /\ o.purgeOperation = "none" /\ o.reads = 0
  BY DEF RecordIsConsistent, JobRecord
<1>b. p \in JobRecord /\ Stops(final, p) BY <1>1, StoppedIsRecord
<1> HIDE DEF p
<1>3. p \in JobRecord /\ Keeps(o, p)
  BY <1>2, <1>a, <1>b DEF Stops, Keeps, RecordIsConsistent, TerminalJob
<1>4. Settled(o, outcome) = FinishObserverLeases(p) BY DEF Settled, final, p
<1>5. Touches(p, Settled(o, outcome)) BY <1>3, <1>4, FinishTouches
<1>6. Keeps(p, Settled(o, outcome)) BY <1>3, <1>5, TouchesKeeps DEF Keeps
<1>7. ~Settled(o, outcome).execution BY <1>b, <1>5 DEF Stops, Touches
<1>8. TerminalJob(Settled(o, outcome))
  BY <1>2, <1>b, <1>6 DEF Stops, Keeps, TerminalJob
<1> QED BY <1>3, <1>6, <1>7, <1>8 DEF Keeps, RecordIsConsistent

LEMMA RunnerSettlesStep ==
    ASSUME ScopePurgeInvariant, NEW r \in Objs,
           NEW outcome \in {"completed", "failed"}, RunnerSettles(r, outcome)
    PROVE  ScopePurgeInvariant'
<1> DEFINE o == Settled(job[r], outcome)
           j == [job EXCEPT ![r] = o]
<1>1. Good(jobs, job, queue, scopeOp) /\ runningJobs \in Int
      /\ runningJobs <= Concurrency
  BY InvariantParts DEF OtherTypes
<1>2. job[r] \in JobRecord /\ RecordIsConsistent(job[r]) /\ job[r].execution
  BY <1>1 DEF Good, Types, RunnerSettles
<1>3. Keeps(job[r], o) /\ job[r].state # "queued" BY <1>2, SettledKeeps
<1>4. Good(jobs, j, queue, scopeOp) BY <1>1, <1>3, OneRecordIsGood
<1>5. Concurrency \in Int BY LimitAssumption
<1>6. runningJobs - 1 \in Int /\ runningJobs - 1 <= Concurrency BY <1>1, <1>5
<1>7. StartNext(j, queue, runningJobs - 1) /\ jobs' = jobs /\ scopeOp' = scopeOp
  BY DEF RunnerSettles
<1> HIDE DEF j
<1>8. /\ Good(jobs', job', queue', scopeOp')
      /\ runningJobs' \in Int /\ runningJobs' <= Concurrency
  BY <1>4, <1>6, <1>7, StartingIsGood
<1>9. OtherTypes' BY <1>8, InvariantParts DEF RunnerSettles, OtherTypes
<1> QED BY <1>8, <1>9, InvariantPartsPrime

-----------------------------------------------------------------------------
(* Verifications and readers *)

LEMMA ConsistentKeepsItself ==
    ASSUME NEW o \in JobRecord, RecordIsConsistent(o)
    PROVE  Keeps(o, o)
  BY TouchesIsReflexive, TouchesKeeps

\* One record changes, then the collector runs over the unchanged map.
LEMMA CollectingIsGood ==
    ASSUME NEW js, NEW j, NEW q, NEW ops, Good(js, j, q, ops)
    PROVE  Good(js, Collected(js, j), q, ops)
  BY DroppingIsGood DEF Good, Types

LEMMA VerificationSettlesStep ==
    ASSUME ScopePurgeInvariant, NEW r \in Objs, NEW ok \in BOOLEAN,
           VerificationSettles(r, ok)
    PROVE  ScopePurgeInvariant'
<1> DEFINE o == [job[r] EXCEPT !.verification = FALSE,
                    !.purgeOperation = IF @ = "verifying" THEN "verified" ELSE @]
           p == IF ok THEN o ELSE Invalidated(o)
           j == [job EXCEPT ![r] = p]
<1>1. Good(jobs, job, queue, scopeOp) BY InvariantParts
<1>2. job[r] \in JobRecord /\ RecordIsConsistent(job[r]) /\ job[r].verification
  BY <1>1 DEF Good, Types, VerificationSettles
<1>3. job[r].state \in {"completed", "failed"} /\ ~job[r].execution
      /\ job[r].cancellation = "none"
  BY <1>2 DEF RecordIsConsistent, JobRecord
<1>4. /\ o \in JobRecord /\ RecordIsConsistent(o)
      /\ o.state = job[r].state /\ o.id = job[r].id /\ ~o.execution
      /\ o.cancellation = "none" /\ o.reads = job[r].reads
      /\ o.consumerPurging = job[r].consumerPurging
      /\ job[r].purgeOperation = "none" => o.purgeOperation = "none"
  BY <1>2, <1>3 DEF JobRecord, RecordIsConsistent
<1> HIDE DEF o
<1>5. Keeps(job[r], o) BY <1>2, <1>4 DEF Keeps, TerminalJob
<1>6. Keeps(job[r], Invalidated(o))
  <2>1. /\ Invalidated(o) \in JobRecord /\ Invalidated(o).state = "failed"
        /\ Invalidated(o).id = o.id /\ ~Invalidated(o).execution
        /\ Invalidated(o).cancellation = "none" /\ Invalidated(o).reads = o.reads
        /\ Invalidated(o).consumerPurging = o.consumerPurging
        /\ Invalidated(o).purgeOperation = o.purgeOperation
    BY <1>4 DEF Invalidated, JobRecord, Terminal
  <2> QED BY <1>3, <1>4, <2>1 DEF Keeps, RecordIsConsistent, TerminalJob, Terminal
<1>7. Keeps(job[r], p) /\ job[r].state # "queued" BY <1>3, <1>5, <1>6
<1>8. Good(jobs, j, queue, scopeOp) BY <1>1, <1>7, OneRecordIsGood
<1>9. job' = Collected(jobs, j) /\ jobs' = jobs /\ queue' = queue
  BY DEF VerificationSettles, o
<1>10. Good(jobs, job', queue, scopeOp) BY <1>8, <1>9, CollectingIsGood
<1> HIDE DEF j, p
<1>11. scopeOp' = [c \in Consumers |->
            IF scopeOp[c].pc = "verifying" /\ scopeOp[c].job = r
            THEN [scopeOp[c] EXCEPT !.pc = "verified"] ELSE scopeOp[c]]
  BY DEF VerificationSettles
<1>12. scopeOp' \in Operations BY <1>1, <1>11 DEF Good, Types, Operations
<1>13. \A c \in Consumers :
        /\ scopeOp'[c].scope = scopeOp[c].scope
        /\ \/ scopeOp'[c].pc = scopeOp[c].pc
           \/ scopeOp[c].pc = "verifying" /\ scopeOp'[c].pc = "verified"
  BY <1>1, <1>11 DEF Good, Types, Operations
<1>14. Good(jobs, job', queue, scopeOp')
  <2>1. HeldOK(jobs, job', scopeOp') BY <1>10, <1>13 DEF Good, HeldOK
  <2>2. QuietOK(job', scopeOp') BY <1>10, <1>13 DEF Good, QuietOK
  <2> QED BY <1>10, <1>12, <2>1, <2>2 DEF Good, Types
<1>15. OtherTypes' /\ runningJobs' <= Concurrency
  <2> DEFINE ReaderType == [pc : {"idle", "media", "status", "resolved",
                                  "answering", "reading", "released"},
                            id : Ids, obj : Objs \cup {NoObj}]
  <2>1. reader' \in [Readers -> ReaderType]
    <3>1. reader \in [Readers -> ReaderType] BY InvariantParts DEF OtherTypes
    <3>2. \A x \in Readers :
            /\ [reader[x] EXCEPT !.pc = "resolved"] \in ReaderType
            /\ [reader[x] EXCEPT !.pc = "answering"] \in ReaderType
      BY <3>1
    <3> HIDE DEF ReaderType
    <3> QED BY <3>1, <3>2 DEF VerificationSettles
  <2> QED BY <2>1, InvariantParts DEF VerificationSettles, OtherTypes
<1> QED BY <1>9, <1>14, <1>15, InvariantPartsPrime

LEMMA ReaderStepKeeps ==
    ASSUME ScopePurgeInvariant, NEW x \in Readers, NEW o, NEW next,
           ReaderStep(x, o, next),
           reader[x].obj \in Objs =>
                /\ Keeps(job[reader[x].obj], o)
                /\ job[reader[x].obj].state = "queued" => o.state = "queued",
           next \in [pc : {"idle", "media", "status", "resolved",
                           "answering", "reading", "released"},
                     id : Ids, obj : Objs \cup {NoObj}]
    PROVE  ScopePurgeInvariant'
<1> DEFINE j == [job EXCEPT ![reader[x].obj] = o]
<1>1. Good(jobs, job, queue, scopeOp) BY InvariantParts
<1>2. Good(jobs, j, queue, scopeOp) BY <1>1, OneRecordIsGood
<1>3. Good(jobs, Collected(jobs, j), queue, scopeOp) BY <1>2, CollectingIsGood
<1>4. Good(jobs', job', queue', scopeOp') BY <1>3 DEF ReaderStep
<1>5. OtherTypes' /\ runningJobs' <= Concurrency
  BY InvariantParts DEF ReaderStep, OtherTypes
<1> QED BY <1>4, <1>5, InvariantPartsPrime

LEMMA IdleReaderType ==
    IdleReader \in [pc : {"idle", "media", "status", "resolved",
                          "answering", "reading", "released"},
                    id : Ids, obj : Objs \cup {NoObj}]
<1>1. (CHOOSE i \in Ids : TRUE) \in Ids BY IdsAssumption
<1> QED BY <1>1 DEF IdleReader

LEMMA ReaderSteps ==
    ASSUME ScopePurgeInvariant, NEW x \in Readers,
           AcquireMedia(x) \/ StatusAnswers(x) \/ ReleaseMedia(x)
    PROVE  ScopePurgeInvariant'
<1> DEFINE r == reader[x].obj
           o == job[r]
           fresh == [o EXCEPT !.outlived = FALSE]
           touched == IF o.state = "completed" THEN fresh ELSE o
           read == [touched EXCEPT !.reads = @ + 1]
           released == [o EXCEPT !.reads = IF @ > 0 THEN @ - 1 ELSE 0]
           At(pc) == [reader[x] EXCEPT !.pc = pc]
           ReaderType == [pc : {"idle", "media", "status", "resolved",
                                "answering", "reading", "released"},
                          id : Ids, obj : Objs \cup {NoObj}]
<1>1. reader[x] \in ReaderType
  BY DEF ScopePurgeInvariant, TypeOK
<1>2. At("reading") \in ReaderType /\ At("released") \in ReaderType
  BY <1>1
<1>3. IdleReader \in ReaderType BY IdleReaderType
<1>4. ASSUME r \in Objs
      PROVE  /\ Keeps(o, o) /\ Keeps(o, touched)
             /\ Keeps(o, released)
             /\ o.state = "completed" /\ ~o.consumerPurging => Keeps(o, read)
             /\ touched.state = o.state /\ released.state = o.state
             /\ Keeps(o, fresh) /\ fresh.state = o.state
             /\ o.state = "completed" => read.state = o.state
  <2>1. o \in JobRecord /\ RecordIsConsistent(o)
    BY <1>4 DEF ScopePurgeInvariant, TypeOK
  <2>2. Touches(o, fresh) BY <2>1 DEF Touches, JobRecord
  <2>3. Keeps(o, o) /\ Keeps(o, fresh) BY <2>1, <2>2, ConsistentKeepsItself, TouchesKeeps
  <2>4. Keeps(o, released) /\ released.state = o.state
    BY <2>1 DEF Keeps, JobRecord, RecordIsConsistent, TerminalJob
  <2>5. fresh.state = o.state BY <2>1 DEF JobRecord
  <2>6. ASSUME o.state = "completed", ~o.consumerPurging
        PROVE  Keeps(o, read)
    <3>1. read = [fresh EXCEPT !.reads = @ + 1] BY <2>6
    <3>2. fresh \in JobRecord /\ RecordIsConsistent(fresh) BY <2>3 DEF Keeps
    <3>3. /\ fresh.state = "completed" /\ fresh.id = o.id
          /\ fresh.execution = o.execution
      BY <2>1, <2>6 DEF JobRecord
    <3> HIDE DEF fresh, read
    <3>4. /\ read \in JobRecord /\ read.state = "completed" /\ read.id = o.id
          /\ read.execution = o.execution /\ RecordIsConsistent(read)
      BY <3>1, <3>2, <3>3 DEF JobRecord, RecordIsConsistent
    <3> QED BY <2>1, <2>6, <3>4 DEF Keeps, TerminalJob, JobRecord
  <2>7. o.state = "completed" => read.state = o.state
    BY <2>1 DEF JobRecord
  <2> HIDE DEF read, released, fresh
  <2> QED BY <2>3, <2>4, <2>5, <2>6, <2>7
<1>5. CASE AcquireMedia(x)
  <2>1. CASE o.state = "completed" /\ Available(x)
    <3>1. ReaderStep(x, read, At("reading")) BY <1>5, <2>1 DEF AcquireMedia
    <3>2. ~o.consumerPurging BY <2>1 DEF Available
    <3> HIDE DEF read, released, touched, fresh, At
    <3> QED BY <1>2, <1>4, <2>1, <3>1, <3>2, ReaderStepKeeps
  <2>2. CASE ~(o.state = "completed" /\ Available(x))
    <3>1. ReaderStep(x, touched, IdleReader) BY <1>5, <2>2 DEF AcquireMedia
    <3> HIDE DEF read, released, touched, fresh, At
    <3> QED BY <1>3, <1>4, <3>1, ReaderStepKeeps
  <2> QED BY <2>1, <2>2
<1>6. CASE StatusAnswers(x)
  <2> DEFINE p == IF o.state = "completed" /\ Available(x) THEN fresh ELSE o
  <2>1. ReaderStep(x, p, IdleReader) BY <1>6 DEF StatusAnswers
  <2> HIDE DEF read, released, touched, fresh, At
  <2>2. r \in Objs => Keeps(o, p) /\ p.state = o.state BY <1>4
  <2> QED BY <1>3, <2>1, <2>2, ReaderStepKeeps
<1>7. CASE ReleaseMedia(x)
  <2>1. \/ ReaderStep(x, released, At("released"))
        \/ ReaderStep(x, o, IdleReader)
    BY <1>7 DEF ReleaseMedia
  <2> HIDE DEF read, released, touched, fresh, At
  <2> QED BY <1>2, <1>3, <1>4, <2>1, ReaderStepKeeps
<1> QED BY <1>5, <1>6, <1>7

-----------------------------------------------------------------------------
(* The purge of a scope *)

OpType == [pc : {"idle", "settling", "draining", "awaiting", "verifying",
                 "verified", "queued", "inspecting", "removing"},
           job : Objs \cup {NoObj}, scope : SUBSET Objs]

LEMMA ScopeOpTypes ==
    ASSUME ScopePurgeInvariant
    PROVE  /\ scopeOp \in [Consumers -> OpType] /\ Idle \in OpType
           /\ \A c \in Consumers : scopeOp[c].scope \subseteq Objs
  BY DEF ScopePurgeInvariant, TypeOK, OpType, Idle

\* A step that only moves the purge of one scope, with what it has seen.
LEMMA ScopeMoves ==
    ASSUME ScopePurgeInvariant, NEW c \in Consumers,
           NEW from \in {"settling", "draining", "awaiting", "verified", "queued",
                         "inspecting"},
           NEW to \in {"draining", "awaiting", "verifying", "queued", "inspecting",
                       "removing"},
           ScopeStep(c, from, to),
           from = "settling" => \A r \in scopeOp[c].scope : ~job[r].execution,
           from = "settling" => to = "draining",
           from = "draining" => \A r \in scopeOp[c].scope : job[r].reads = 0
    PROVE  Good(jobs, job, queue, scopeOp')
<1> DEFINE op == [scopeOp[c] EXCEPT !.pc = to]
<1>1. Good(jobs, job, queue, scopeOp) BY InvariantParts
<1>2. /\ scopeOp[c] \in OpType /\ op \in OpType
      /\ op.pc = to /\ op.scope = scopeOp[c].scope
  BY ScopeOpTypes DEF OpType
<1>3. scopeOp' = [scopeOp EXCEPT ![c] = op] BY DEF ScopeStep
<1>4. scopeOp[c].pc = from /\ CurrentScope(c) BY DEF ScopeStep
<1>5. \A r \in Objs : job[r].execution => Consumer(job[r]) # c
  <2>1. CASE from = "settling"
    <3> SUFFICES ASSUME NEW r \in Objs, job[r].execution, Consumer(job[r]) = c
                 PROVE  FALSE
      OBVIOUS
    <3>1. r \in Current(jobs)
      <4>1. jobs[job[r].id] = r /\ job[r].id \in Ids
        BY <1>1 DEF Good, LiveOK, Types, JobRecord
      <4> QED BY <4>1, IdsAssumption DEF Current
    <3>2. r \in scopeOp[c].scope BY <1>4, <3>1 DEF CurrentScope, ScopeJobs
    <3> QED BY <2>1, <3>2
  <2>2. CASE from # "settling" BY <1>1, <1>4, <2>2 DEF Good, QuietOK
  <2> QED BY <2>1, <2>2
<1>6. to \notin {"idle", "settling", "draining"} =>
            \A r \in scopeOp[c].scope : job[r].reads = 0
  <2>1. CASE from = "draining" BY <2>1
  <2>2. CASE from \notin {"settling", "draining"}
    BY <1>1, <1>4, <2>2 DEF Good, QuietOK
  <2>3. CASE from = "settling" BY <2>3
  <2> QED BY <2>1, <2>2, <2>3
<1> HIDE DEF op
<1>7. Good(jobs, job, queue, [scopeOp EXCEPT ![c] = op])
  BY <1>1, <1>2, <1>4, <1>5, <1>6, ScopeStepIsGood DEF OpType
<1> QED BY <1>3, <1>7

LEMMA ScopeMoveSteps ==
    ASSUME ScopePurgeInvariant, NEW c \in Consumers,
           \/ ScopeExecutionsSettle(c) \/ ScopeReadsDrain(c) \/ ScopeVerified(c)
           \/ ScopeScavenges(c) \/ ScopeDetaches(c)
    PROVE  ScopePurgeInvariant'
<1>1. /\ UNCHANGED <<jobs, job, queue, runningJobs, reader, purgeTombstones,
                     consumerPurgeTombstones, closing>>
      /\ Good(jobs, job, queue, scopeOp')
  <2>1. CASE ScopeExecutionsSettle(c)
    BY <2>1, ScopeMoves DEF ScopeExecutionsSettle, scopeRest
  <2>2. CASE ScopeReadsDrain(c) BY <2>2, ScopeMoves DEF ScopeReadsDrain, scopeRest
  <2>3. CASE ScopeVerified(c) BY <2>3, ScopeMoves DEF ScopeVerified, scopeRest
  <2>4. CASE ScopeScavenges(c) BY <2>4, ScopeMoves DEF ScopeScavenges, scopeRest
  <2>5. CASE ScopeDetaches(c) BY <2>5, ScopeMoves DEF ScopeDetaches
  <2> QED BY <2>1, <2>2, <2>3, <2>4, <2>5
<1>2. OtherTypes BY InvariantParts
<1>3. quarantineTail' \in Seq(Consumers \cup {Boot})
  <2>1. \/ quarantineTail' = quarantineTail
        \/ quarantineTail' = Append(quarantineTail, c)
    BY DEF ScopeExecutionsSettle, ScopeReadsDrain, ScopeVerified, ScopeScavenges,
           ScopeDetaches
  <2>2. quarantineTail \in Seq(Consumers \cup {Boot}) BY <1>2 DEF OtherTypes
  <2> QED BY <2>1, <2>2
<1>4. file' \in [Artifacts -> {"present", "absent"}]
  BY <1>2 DEF OtherTypes, ScopeExecutionsSettle, ScopeReadsDrain, ScopeVerified,
              ScopeScavenges, ScopeDetaches, scopeRest
<1>5. quarantined' \in [Consumers -> Int]
  BY <1>2 DEF OtherTypes, ScopeExecutionsSettle, ScopeReadsDrain, ScopeVerified,
              ScopeScavenges, ScopeDetaches
<1>6. OtherTypes' BY <1>1, <1>2, <1>3, <1>4, <1>5 DEF OtherTypes
<1> QED BY <1>1, <1>6, InvariantParts, InvariantPartsPrime

LEMMA ScopeVerifiesStep ==
    ASSUME ScopePurgeInvariant, NEW c \in Consumers, ScopeVerifies(c)
    PROVE  ScopePurgeInvariant'
<1> DEFINE r == scopeOp[c].job
           o == [job[r] EXCEPT !.verification = TRUE]
<1>1. Good(jobs, job, queue, scopeOp') BY ScopeMoves DEF ScopeVerifies
<1>2. job \in [Objs -> JobRecord] /\ \A s \in Objs : RecordIsConsistent(job[s])
  BY <1>1 DEF Good, Types
<1>3. r \in Objs => Keeps(job[r], o) /\ (job[r].state = "queued" => o.state = "queued")
  <2> SUFFICES ASSUME r \in Objs
               PROVE  Keeps(job[r], o) /\ (job[r].state = "queued" => o.state = "queued")
    OBVIOUS
  <2>1. job[r] \in JobRecord /\ RecordIsConsistent(job[r]) BY <1>2
  <2>2. job[r].state = "completed" BY DEF ScopeVerifies
  <2> HIDE DEF r
  <2> QED BY <2>1, <2>2 DEF Keeps, JobRecord, RecordIsConsistent, TerminalJob
<1>4. job' = [job EXCEPT ![r] = o] BY <1>2 DEF ScopeVerifies
<1>5. UNCHANGED <<jobs, queue>> BY DEF ScopeVerifies, scopeRest
<1> HIDE DEF r, o
<1>6. Good(jobs', job', queue', scopeOp')
  BY <1>1, <1>3, <1>4, <1>5, OneRecordIsGood
<1>7. OtherTypes' /\ runningJobs' <= Concurrency
  BY InvariantParts DEF ScopeVerifies, scopeRest, OtherTypes
<1> QED BY <1>6, <1>7, InvariantPartsPrime

\* A scope purge that gives up releases its records.
LEMMA ScopeGivesUpIsGood ==
    ASSUME ScopePurgeInvariant, NEW c \in Consumers, ScopeGivesUp(c),
           scopeOp[c].pc # "idle"
    PROVE  Good(jobs', job', queue', scopeOp')
<1> DEFINE scope == scopeOp[c].scope
           ops == [scopeOp EXCEPT ![c] = Idle]
<1>1. Good(jobs, job, queue, scopeOp) BY InvariantParts
<1>2. scopeOp' = ops /\ jobs' = jobs /\ queue' = queue BY DEF ScopeGivesUp
<1>3. /\ ops \in Operations /\ ops[c].pc = "idle"
      /\ \A d \in Consumers \ {c} : ops[d] = scopeOp[d]
  BY ScopeOpTypes DEF OpType, Operations, Idle
<1>4. job' = [s \in Objs |-> IF s \in scope \cap Current(jobs)
                             THEN [job[s] EXCEPT !.consumerPurging = FALSE]
                             ELSE job[s]]
  BY DEF ScopeGivesUp
<1>5. ASSUME NEW s \in Objs
      PROVE  [job[s] EXCEPT !.consumerPurging = FALSE] \in JobRecord
  <2>1. job[s] \in JobRecord BY <1>1 DEF Good, Types
  <2> QED BY <2>1 DEF JobRecord
<1>6. job' \in [Objs -> JobRecord] BY <1>1, <1>4, <1>5 DEF Good, Types
<1>7. ASSUME NEW s \in Objs
      PROVE  /\ job'[s].id = job[s].id /\ job'[s].state = job[s].state
             /\ job'[s].execution = job[s].execution
             /\ job'[s].cancellation = job[s].cancellation
             /\ job'[s].verification = job[s].verification
             /\ job'[s].reads = job[s].reads
             /\ job'[s].purgeOperation = job[s].purgeOperation
             /\ s \notin scope => job'[s] = job[s]
  BY <1>1, <1>4 DEF Good, Types, JobRecord
<1> HIDE DEF ops
<1>8. MapOK(jobs, job') BY <1>1, <1>7 DEF Good, Types, MapOK
<1>9. QueueOK(jobs, job', queue) BY <1>1, <1>7 DEF Good, QueueOK
<1>10. LiveOK(jobs, job') BY <1>1, <1>7 DEF Good, LiveOK
<1>11. \A s \in Objs : RecordIsConsistent(job'[s])
  BY <1>1, <1>7 DEF Good, RecordIsConsistent
<1>12. HeldOK(jobs, job', ops)
  <2> SUFFICES ASSUME NEW d \in Consumers, ops[d].pc # "idle"
      PROVE /\ \A r \in ops[d].scope :
                /\ jobs[job'[r].id] = r /\ Consumer(job'[r]) = d
                /\ job'[r].consumerPurging /\ job'[r].purgeOperation = "none"
            /\ \A r \in Current(jobs) : Consumer(job'[r]) = d => TerminalJob(job'[r])
    BY DEF HeldOK
  <2>1. d # c /\ ops[d] = scopeOp[d] /\ ops[d].scope \subseteq Objs
    BY <1>3, ScopeOpTypes
  <2>2. ASSUME NEW r \in ops[d].scope
        PROVE  /\ jobs[job'[r].id] = r /\ Consumer(job'[r]) = d
               /\ job'[r].consumerPurging /\ job'[r].purgeOperation = "none"
    <3>1. Consumer(job[r]) = d BY <1>1, <2>1 DEF Good, HeldOK
    <3>2. r \notin scope BY <1>1, <2>1, <3>1 DEF Good, HeldOK
    <3>3. job'[r] = job[r] BY <1>7, <2>1, <3>2
    <3> QED BY <1>1, <2>1, <3>3 DEF Good, HeldOK
  <2>3. Current(jobs) \subseteq Objs BY <1>1 DEF Good, Types, Current
  <2>4. \A r \in Current(jobs) : Consumer(job'[r]) = d => TerminalJob(job'[r])
    BY <1>1, <1>7, <2>1, <2>3 DEF Good, HeldOK, Consumer, TerminalJob
  <2> QED BY <2>2, <2>4
<1>13. QuietOK(job', ops)
  BY <1>1, <1>3, <1>7, ScopeOpTypes DEF Good, QuietOK, Consumer
<1> QED BY <1>1, <1>2, <1>3, <1>6, <1>8, <1>9, <1>10, <1>11, <1>12, <1>13
    DEF Good, Types

LEMMA ScopeGivesUpSteps ==
    ASSUME ScopePurgeInvariant, NEW c \in Consumers,
           ScopeTimeout(c) \/ ScopeInvalid(c) \/ ScopeFilesFail(c)
    PROVE  ScopePurgeInvariant'
<1>1. ScopeGivesUp(c) /\ scopeOp[c].pc # "idle"
  BY DEF ScopeTimeout, ScopeInvalid, ScopeFilesFail
<1>2. Good(jobs', job', queue', scopeOp') BY <1>1, ScopeGivesUpIsGood
<1>3. OtherTypes BY InvariantParts
<1>4. quarantineTail' \in Seq(Consumers \cup {Boot})
  <2>1. \/ quarantineTail' = quarantineTail
        \/ quarantineTail # <<>> /\ quarantineTail' = Tail(quarantineTail)
    BY DEF ScopeTimeout, ScopeInvalid, ScopeFilesFail
  <2>2. quarantineTail \in Seq(Consumers \cup {Boot}) BY <1>3 DEF OtherTypes
  <2> QED BY <2>1, <2>2
<1>5. OtherTypes' /\ runningJobs' <= Concurrency
  BY <1>1, <1>3, <1>4, InvariantParts DEF ScopeGivesUp, OtherTypes
<1> QED BY <1>2, <1>5, InvariantPartsPrime

LEMMA ScopeRemovedStep ==
    ASSUME ScopePurgeInvariant, NEW c \in Consumers, NEW ok \in BOOLEAN,
           ScopeRemoved(c, ok)
    PROVE  ScopePurgeInvariant'
<1> DEFINE js == [i \in Ids |-> IF jobs[i] \in scopeOp[c].scope THEN NoObj ELSE jobs[i]]
           ops == [scopeOp EXCEPT ![c] = Idle]
<1>1. Good(jobs, job, queue, scopeOp) /\ scopeOp[c].pc = "removing"
  BY InvariantParts DEF ScopeRemoved
<1>2. Good(jobs, job, queue, ops)
  <2>1. Idle \in OpType /\ Idle.pc = "idle" BY ScopeOpTypes DEF Idle
  <2> QED BY <1>1, <2>1, ScopeStepIsGood DEF OpType
<1>3. js \in [Ids -> Objs \cup {NoObj}] BY <1>1 DEF Good, Types
<1>4. NoObj \notin scopeOp[c].scope /\ scopeOp[c].scope \subseteq Objs
  BY ScopeOpTypes, IdsAssumption
<1>5. ops[c].pc = "idle" /\ \A d \in Consumers \ {c} : ops[d] = scopeOp[d]
  BY ScopeOpTypes DEF Idle
<1> HIDE DEF ops
<1>6. ASSUME NEW i \in Ids
      PROVE  \/ js[i] = jobs[i]
             \/ /\ js[i] = NoObj /\ jobs[i] # NoObj
                /\ ~job[jobs[i]].execution
                /\ \A d \in Consumers :
                       ops[d].pc # "idle" => jobs[i] \notin ops[d].scope
  <2> SUFFICES ASSUME jobs[i] \in scopeOp[c].scope
      PROVE  /\ jobs[i] # NoObj /\ ~job[jobs[i]].execution
             /\ \A d \in Consumers : ops[d].pc # "idle" => jobs[i] \notin ops[d].scope
    OBVIOUS
  <2> DEFINE r == jobs[i]
  <2>1. r \in Objs /\ r # NoObj BY <1>4
  <2>2. Consumer(job[r]) = c BY <1>1 DEF Good, HeldOK
  <2>3. ~job[r].execution BY <1>1, <2>1, <2>2 DEF Good, QuietOK
  <2>4. ASSUME NEW d \in Consumers, ops[d].pc # "idle", r \in ops[d].scope
        PROVE  FALSE
    <3>1. d # c /\ ops[d] = scopeOp[d] BY <1>5, <2>4
    <3>2. Consumer(job[r]) = d BY <1>1, <2>4, <3>1 DEF Good, HeldOK
    <3> QED BY <2>2, <3>1, <3>2
  <2> QED BY <2>1, <2>3, <2>4
<1>7. /\ jobs' = js /\ job' = Collected(js, job)
      /\ queue' = CompactQueue(queue, js, job)
      /\ scopeOp' = ops
  BY DEF ScopeRemoved, ops
<1> HIDE DEF js
<1>8. queue' \in [Objs -> Nat] /\ QueueOK(js, job, queue')
  BY <1>3, <1>7, CompactQueueType
<1>9. Good(js, Collected(js, job), queue', ops)
  BY <1>2, <1>3, <1>6, <1>8, DroppingIsGood
<1>10. OtherTypes BY InvariantParts
<1>11. quarantineTail' \in Seq(Consumers \cup {Boot})
  BY <1>10 DEF OtherTypes, ScopeRemoved
<1>12. quarantined' \in [Consumers -> Int] BY <1>10 DEF OtherTypes, ScopeRemoved
<1>13. consumerPurgeTombstones' \in [Ids -> {"none", "fresh", "outlived"}]
  BY <1>10 DEF OtherTypes, ScopeRemoved
<1>14. OtherTypes' /\ runningJobs' <= Concurrency
  BY <1>10, <1>11, <1>12, <1>13, InvariantParts DEF ScopeRemoved, OtherTypes
<1> QED BY <1>7, <1>9, <1>14, InvariantPartsPrime

-----------------------------------------------------------------------------
(* Time, shutdown and crash *)

LEMMA TimeSteps ==
    ASSUME ScopePurgeInvariant, TimeStep
    PROVE  ScopePurgeInvariant'
<1>1. ASSUME NEW r \in Objs, NEW o, Touches(job[r], o), o.state = job[r].state,
             job' = [job EXCEPT ![r] = o], UNCHANGED <<timeRest, purgeTombstones,
                                                        consumerPurgeTombstones>>
      PROVE  ScopePurgeInvariant'
  <2>1. RecordIsConsistent(job[r]) BY DEF ScopePurgeInvariant
  <2>2. Keeps(job[r], o) BY <1>1, <2>1, TouchesKeeps
  <2>3. OtherTypes' BY <1>1, InvariantParts DEF OtherTypes, timeRest
  <2> QED BY <1>1, <2>2, <2>3, RecordStep1 DEF timeRest
<1>2. ASSUME NEW r \in Objs, Outlive(r) PROVE ScopePurgeInvariant'
  <2> DEFINE o == [job[r] EXCEPT !.outlived = TRUE]
  <2>1. job \in [Objs -> JobRecord] /\ job[r] \in JobRecord
    BY DEF ScopePurgeInvariant, TypeOK
  <2>2. Touches(job[r], o) /\ o.state = job[r].state BY <2>1 DEF Touches, JobRecord
  <2>3. job' = [job EXCEPT ![r] = o] BY <1>2, <2>1 DEF Outlive
  <2> QED BY <1>1, <1>2, <2>2, <2>3 DEF Outlive
<1>3. ASSUME NEW r \in Objs, NEW w \in Observers, LeaseLapses(r, w)
      PROVE  ScopePurgeInvariant'
  <2> DEFINE o == [job[r] EXCEPT !.lapsed = @ \cup {w}]
  <2>1. job \in [Objs -> JobRecord] /\ job[r] \in JobRecord
    BY DEF ScopePurgeInvariant, TypeOK
  <2>2. Touches(job[r], o) /\ o.state = job[r].state BY <2>1 DEF Touches, JobRecord
  <2>3. job' = [job EXCEPT ![r] = o] BY <1>3, <2>1 DEF LeaseLapses
  <2> QED BY <1>1, <1>3, <2>2, <2>3 DEF LeaseLapses
<1>4. ASSUME NEW i \in Ids, TombstoneOutlives(i) PROVE ScopePurgeInvariant'
  <2>1. OtherTypes' BY <1>4, InvariantParts DEF TombstoneOutlives, timeRest, OtherTypes
  <2> QED BY <1>4, <2>1, InvariantParts, InvariantPartsPrime
      DEF TombstoneOutlives, timeRest
<1> QED BY <1>2, <1>3, <1>4 DEF TimeStep

LEMMA CloseStep ==
    ASSUME ScopePurgeInvariant, Close
    PROVE  ScopePurgeInvariant'
<1> DEFINE Final(r) == FinalizeCancellation(job[r], "engine-shutdown")
           Calm(r) == [Final(r) EXCEPT !.deadlineTimer = FALSE]
<1>1. Good(jobs, job, queue, scopeOp) BY InvariantParts
<1>2. ASSUME NEW r \in Objs PROVE Touches(job[r], FinishObserverLeases(Calm(r)))
  <2>1. job[r] \in JobRecord BY <1>1 DEF Good, Types
  <2>2. Touches(job[r], Final(r)) /\ Final(r) \in JobRecord
    BY <2>1, FinalizeTouches DEF Reasons, Touches
  <2> HIDE DEF Final
  <2>3. Touches(Final(r), Calm(r)) /\ Calm(r) \in JobRecord
    BY <2>2 DEF Touches, JobRecord
  <2>4. Touches(Calm(r), FinishObserverLeases(Calm(r))) BY <2>3, FinishTouches
  <2> HIDE DEF Calm
  <2> QED BY <2>2, <2>3, <2>4, TouchesIsTransitive
<1>3. job' = [r \in Objs |-> IF r \in Current(jobs) THEN FinishObserverLeases(Calm(r))
                             ELSE job[r]]
  BY DEF Close
<1> HIDE DEF Final, Calm
<1>4. \A r \in Objs : Touches(job[r], job[r])
  BY <1>1, TouchesIsReflexive DEF Good, Types
<1>5. job' \in [Objs -> JobRecord] /\ \A r \in Objs : Touches(job[r], job'[r])
  BY <1>2, <1>3, <1>4 DEF Touches
<1>6. queue' \in [Objs -> Nat] /\ QueueOK(jobs, job', queue') BY DEF Close, QueueOK
<1>7. Good(jobs', job', queue', scopeOp')
  BY <1>1, <1>5, <1>6, TouchingIsGood DEF Close
<1>8. OtherTypes' /\ runningJobs' <= Concurrency
  BY InvariantParts DEF Close, OtherTypes
<1> QED BY <1>7, <1>8, InvariantPartsPrime

\* A process that starts has no records.
LEMMA EmptyIsGood ==
    Good([i \in Ids |-> NoObj], [r \in Objs |-> Blank], [r \in Objs |-> 0],
         [c \in Consumers |-> Idle])
<1> DEFINE js == [i \in Ids |-> NoObj]
           j == [r \in Objs |-> Blank]
           q == [r \in Objs |-> 0]
           ops == [c \in Consumers |-> Idle]
<1>1. Types(js, j, q, ops)
  <2>1. ops \in Operations BY DEF Operations, Idle
  <2> QED BY <2>1, BlankIsRecord DEF Types
<1>2. \A c \in Consumers : ops[c].pc = "idle" BY DEF Idle
<1>3. \A r \in Objs : j[r] = Blank OBVIOUS
<1>4. RecordIsConsistent(Blank) /\ ~Blank.execution BY BlankIsRecord
<1>5. \A i \in Ids : js[i] = NoObj OBVIOUS
<1>6. \A r \in Objs : q[r] = 0 OBVIOUS
<1> HIDE DEF js, j, q, ops
<1>7. \A r \in Objs : RecordIsConsistent(j[r])
  <2> TAKE r \in Objs
  <2> QED BY <1>3, <1>4, Zenon
<1> QED BY <1>1, <1>2, <1>3, <1>4, <1>5, <1>6, <1>7
    DEF Good, MapOK, QueueOK, LiveOK, HeldOK, QuietOK, js, j, q, ops

LEMMA RestartStep ==
    ASSUME ScopePurgeInvariant, Restart
    PROVE  ScopePurgeInvariant'
<1>1. Good(jobs', job', queue', scopeOp') BY EmptyIsGood DEF Restart
<1>2. runningJobs' \in Int /\ runningJobs' <= Concurrency
  BY LimitAssumption DEF Restart
<1>3. quarantineTail' \in Seq(Consumers \cup {Boot}) BY DEF Restart
<1>4. OtherTypes'
  BY <1>2, <1>3, InvariantParts, IdleReaderType DEF Restart, OtherTypes
<1> QED BY <1>1, <1>2, <1>4, InvariantPartsPrime

LEMMA ScavengeStep ==
    ASSUME ScopePurgeInvariant, NEW S \in SUBSET Consumers, Scavenge(S)
    PROVE  ScopePurgeInvariant'
<1>1. OtherTypes BY InvariantParts
<1>2. quarantineTail' \in Seq(Consumers \cup {Boot}) BY <1>1 DEF OtherTypes, Scavenge
<1>3. quarantined' \in [Consumers -> Int] BY <1>1 DEF OtherTypes, Scavenge
<1>4. OtherTypes' BY <1>1, <1>2, <1>3 DEF OtherTypes, Scavenge
<1> QED BY <1>4, InvariantParts, InvariantPartsPrime DEF Scavenge

-----------------------------------------------------------------------------
(* The theorems *)

LEMMA InitEstablishes == Init => ScopePurgeInvariant
<1> SUFFICES ASSUME Init PROVE ScopePurgeInvariant
  OBVIOUS
<1>1. Good(jobs, job, queue, scopeOp) BY EmptyIsGood DEF Init
<1>2. runningJobs \in Int /\ runningJobs <= Concurrency BY LimitAssumption DEF Init
<1>3. quarantineTail \in Seq(Consumers \cup {Boot}) BY DEF Init
<1>4. quarantined \in [Consumers -> Int]
  <2>1. 0..1 \subseteq Int OBVIOUS
  <2> QED BY <2>1 DEF Init
<1>5. OtherTypes BY <1>2, <1>3, <1>4, IdleReaderType DEF Init, OtherTypes
<1> QED BY <1>1, <1>2, <1>5, InvariantParts

LEMMA NextKeeps == ScopePurgeInvariant /\ [Next]_vars => ScopePurgeInvariant'
<1> SUFFICES ASSUME ScopePurgeInvariant, [Next]_vars PROVE ScopePurgeInvariant'
  OBVIOUS
<1>1. CASE ClientStep
  <2>1. ASSUME NEW i \in Ids, Create(i) \/ CreateRefused(i) \/ Cancel(i)
        PROVE  ScopePurgeInvariant'
    BY <2>1, CreateStep, CreateRefusedStep, CancelStep
  <2>2. ASSUME NEW i \in Ids, NEW w \in Observers, Observe(i, w) \/ RenewObserver(i, w)
        PROVE  ScopePurgeInvariant'
    BY <2>2, ObserveStep, RenewObserverStep
  <2>3. ASSUME NEW i \in Ids, Purge(i) \/ PurgeConsumerCache(i)
        PROVE  ScopePurgeInvariant'
    BY <2>3, PurgeRequestStep, PurgeConsumerCacheStep
  <2> QED BY <1>1, <2>1, <2>2, <2>3, GetStep, RequestMediaStep, ReaderSteps,
             BoundAssumption
      DEF ClientStep
<1>2. ASSUME NEW r \in Objs, RecordStep(r) PROVE ScopePurgeInvariant'
  BY <1>2, ObserverLeaseTimerStep, ExecutionDeadlineStep, RunnerPublishesStep,
     RunnerSettlesStep, VerificationSettlesStep, PurgeRecordSteps,
     PurgeUnlinksStep, PurgeCompletesStep
  DEF RecordStep
<1>3. ASSUME NEW c \in Consumers, ScopePurgeStep(c) PROVE ScopePurgeInvariant'
  BY <1>3, ScopeMoveSteps, ScopeVerifiesStep, ScopeGivesUpSteps, ScopeRemovedStep
  DEF ScopePurgeStep
<1>4. CASE TimeStep BY <1>4, TimeSteps
<1>5. CASE EngineStep BY <1>5, CloseStep, RestartStep, ScavengeStep DEF EngineStep
<1>6. CASE UNCHANGED vars
  <2>1. OtherTypes' BY <1>6, InvariantParts DEF vars, OtherTypes
  <2> QED BY <1>6, <2>1, InvariantParts, InvariantPartsPrime DEF vars
<1> QED BY <1>1, <1>2, <1>3, <1>4, <1>5, <1>6 DEF Next

\* For every number of requests, records, sessions, files, readers and slots,
\* and in every order of handlers, timers, runners and restarts: the inductive
\* invariant of the scope purge holds.
THEOREM InvariantHolds == Spec => []ScopePurgeInvariant
  BY InitEstablishes, NextKeeps, PTL DEF Spec

\* Every variable keeps its type.
THEOREM TypeCorrect == Spec => []TypeOK
  BY InvariantHolds, PTL DEF ScopePurgeInvariant

\* A runner that may still write, a cancelled one included, belongs to a record
\* of the map: no retry, eviction or purge ever loses it.
THEOREM RunnersStayCurrent == Spec => []LiveRunnersAreCurrent
  BY InvariantHolds, PTL DEF ScopePurgeInvariant

\* From the moment a scope purge has seen its runners stop, no runner of that
\* consumer writes, and once its reads have drained none is open, until the
\* purge is over.
THEOREM PurgedScopeIsQuiescent == Spec => []ScopeIsQuiescent
  BY InvariantHolds, PTL DEF ScopePurgeInvariant
=============================================================================
