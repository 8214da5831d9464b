-------------------------- MODULE VodAccountProofs --------------------------
(***************************************************************************)
(* More about the VOD job manager, for any number of everything: what its   *)
(* purges decide by is true at every moment, two sessions never share a     *)
(* completed file, cancellation is final, the quarantine is in order, and   *)
(* the manager implements the cache scope.                                  *)
(***************************************************************************)
EXTENDS VodJobProofs

\* A record under a purge of its own is the one its id names.
PinOK(js, j) == \A r \in Objs : j[r].purgeOperation # "none" => js[j[r].id] = r

\* The flags of current records are backed by a purge.
FlagsOK(js, j, ops) ==
    \A r \in Current(js) :
        /\ j[r].purging <=> j[r].purgeOperation # "none"
        /\ j[r].consumerPurging =>
            ops[Consumer(j[r])].pc # "idle" /\ r \in ops[Consumer(j[r])].scope

\* A scope purge has every current record of its consumer.
WholeOK(js, j, ops) ==
    \A c \in Consumers : ops[c].pc # "idle" =>
        /\ ops[c].job \in ops[c].scope
        /\ \A r \in Current(js) : Consumer(j[r]) = c => r \in ops[c].scope

DisjointOK(js, j) ==
    \A r, s \in Current(js) :
        /\ j[r].state = "completed" /\ j[s].state = "completed"
        /\ ArtifactOf[j[r].id] = ArtifactOf[j[s].id]
        => Consumer(j[r]) = Consumer(j[s])

\* Without an observer it is a running editor job, or was never observed.
Watched(o) ==
    o.enforced /\ o.state \in {"queued", "running"} /\ o.leases = {}
        => o.state = "running" /\ o.id \notin Ephemeral

WatchedOK(js, j) == \A r \in Current(js) : Watched(j[r])

\* The part of the accounts that speaks of the map, the heap and the purges.
Exact(js, j, ops) ==
    /\ PinOK(js, j) /\ FlagsOK(js, j, ops) /\ WholeOK(js, j, ops)
    /\ DisjointOK(js, j) /\ WatchedOK(js, j)

\* It is what the properties say.
LEMMA ExactMeans ==
    ASSUME ScopePurgeInvariant
    PROVE  Exact(jobs, job, scopeOp) <=>
                /\ PurgesPinRecords /\ BusyFlagsAreAccounted
                /\ CompletedPathsAreDisjoint /\ UnobservedWorkIsPersistent
<1>1. Good(jobs, job, queue, scopeOp) BY InvariantParts
<1>2. \A r \in Current(jobs) :
        /\ r \in Objs /\ jobs[job[r].id] = r /\ job[r].state # "free"
        /\ job[r] \in JobRecord /\ Consumer(job[r]) \in Consumers
  <2> SUFFICES ASSUME NEW r \in Current(jobs)
               PROVE  /\ r \in Objs /\ jobs[job[r].id] = r /\ job[r].state # "free"
                      /\ job[r] \in JobRecord /\ Consumer(job[r]) \in Consumers
    OBVIOUS
  <2>1. r \in Objs /\ jobs[job[r].id] = r /\ job[r].id \in Ids /\ job[r].state # "free"
    BY <1>1, CurrentIsNamed DEF Good, Types
  <2> QED BY <1>1, <2>1, OwnershipAssumption DEF Good, Types, Consumer
<1>3. WatchedOK(jobs, job) <=> UnobservedWorkIsPersistent
  <2>1. \A r \in Current(jobs) :
            job[r].state \in {"queued", "running"} <=> ~TerminalJob(job[r])
    BY <1>2 DEF TerminalJob, Terminal, JobRecord
  <2> QED BY <2>1 DEF WatchedOK, Watched, UnobservedWorkIsPersistent
<1>4. DisjointOK(jobs, job) <=> CompletedPathsAreDisjoint
  BY DEF DisjointOK, CompletedPathsAreDisjoint
<1>5. \A c \in Consumers : scopeOp[c].pc # "idle" =>
        /\ scopeOp[c].scope \subseteq Current(jobs)
        /\ \A r \in scopeOp[c].scope :
                /\ Consumer(job[r]) = c /\ job[r].consumerPurging
                /\ job[r].purgeOperation = "none"
  <2> SUFFICES ASSUME NEW c \in Consumers, scopeOp[c].pc # "idle",
                      NEW r \in scopeOp[c].scope
               PROVE  /\ r \in Current(jobs) /\ Consumer(job[r]) = c
                      /\ job[r].consumerPurging /\ job[r].purgeOperation = "none"
    OBVIOUS
  <2>1. r \in Objs
    <3>1. scopeOp[c].scope \in SUBSET Objs BY <1>1 DEF Good, Types, Operations
    <3> QED BY <3>1
  <2>2. jobs[job[r].id] = r /\ job[r].id \in Ids
    BY <1>1, <2>1 DEF Good, HeldOK, Types, JobRecord
  <2> QED BY <1>1, <2>1, <2>2, IdsAssumption DEF Good, HeldOK, Current
<1>6. PinOK(jobs, job) /\ WholeOK(jobs, job, scopeOp) <=> PurgesPinRecords
  BY <1>5 DEF PinOK, WholeOK, PurgesPinRecords, CurrentScope, ScopeJobs
<1>7. FlagsOK(jobs, job, scopeOp) <=> BusyFlagsAreAccounted
  BY <1>2, <1>5 DEF FlagsOK, BusyFlagsAreAccounted
<1> QED BY <1>3, <1>4, <1>6, <1>7 DEF Exact

-----------------------------------------------------------------------------
(* Records *)

\* What happens to a record without the accounts noticing.
Conserves(o, p) ==
    /\ p.id = o.id /\ p.reads = o.reads /\ p.consumerPurging = o.consumerPurging
    /\ p.purgeOperation # "none" => o.purgeOperation # "none"
    /\ (o.purging <=> o.purgeOperation # "none")
         => (p.purging <=> p.purgeOperation # "none")
    /\ p.state = "completed" => o.state = "completed"
    /\ Watched(o) => Watched(p)
    /\ o.cancellation # "none" => p.cancellation = o.cancellation

\* A record that stays as it is goes unnoticed.
LEMMA ConservesIsReflexive ==
    ASSUME NEW o
    PROVE  Conserves(o, o)
  BY DEF Conserves

\* Two changes the accounts do not notice, one after the other.
LEMMA ConservesIsTransitive ==
    ASSUME NEW o, NEW p, NEW s, Conserves(o, p), Conserves(p, s)
    PROVE  Conserves(o, s)
  BY DEF Conserves

\* The leases of a job that is over are of no account.
LEMMA FinishConserves ==
    ASSUME NEW o \in JobRecord, TerminalJob(o)
    PROVE  Conserves(o, FinishObserverLeases(o))
  BY DEF Conserves, FinishObserverLeases, JobRecord, Watched, TerminalJob, Terminal

\* The first cancellation stands, and the record is over.
LEMMA FinalizeConserves ==
    ASSUME NEW o \in JobRecord, NEW reason \in Reasons
    PROVE  Conserves(o, FinalizeCancellation(o, reason))
<1>1. CASE TerminalJob(o) \/ o.cancellation # "none"
  BY <1>1, ConservesIsReflexive DEF FinalizeCancellation
<1>2. CASE ~(TerminalJob(o) \/ o.cancellation # "none")
  <2> DEFINE p == [o EXCEPT !.cancellation = reason, !.state = "cancelled",
                            !.deadlineTimer = FALSE, !.outlived = FALSE]
  <2>1. p \in JobRecord /\ TerminalJob(p) /\ Conserves(o, p)
    BY <1>2 DEF JobRecord, Terminal, TerminalJob, Conserves, Watched
  <2>2. Conserves(o, FinishObserverLeases(p))
    BY <2>1, FinishConserves, ConservesIsTransitive
  <2> QED BY <1>2, <2>2 DEF FinalizeCancellation
<1> QED BY <1>1, <1>2

\* A job that loses its last observer is given up, or may go on without one.
LEMMA AbandonConserves ==
    ASSUME NEW o \in JobRecord, RecordIsConsistent(o)
    PROVE  /\ Watched(CancelAbandonedJob(o))
           /\ \/ Conserves(o, CancelAbandonedJob(o))
              \/ CancelAbandonedJob(o) = [o EXCEPT !.leaseTimer = FALSE]
<1>1. CASE TerminalJob(o)
  <2>1. CancelAbandonedJob(o) = FinishObserverLeases(o) BY <1>1 DEF CancelAbandonedJob, TerminalJob, Terminal
  <2>2. Watched(FinishObserverLeases(o))
    BY <1>1 DEF FinishObserverLeases, JobRecord, Watched, TerminalJob, Terminal
  <2> QED BY <1>1, <2>1, <2>2, FinishConserves
<1>2. CASE \/ o.state = "queued"
           \/ o.state = "running" /\ o.id \in Ephemeral
  <2>1. o.cancellation = "none" /\ ~TerminalJob(o)
    BY <1>2 DEF RecordIsConsistent, TerminalJob, Terminal
  <2>2. ASSUME NEW reason \in Reasons
        PROVE  /\ FinalizeCancellation(o, reason).state = "cancelled"
               /\ Conserves(o, FinalizeCancellation(o, reason))
    BY <2>1, FinalizeConserves DEF FinalizeCancellation, FinishObserverLeases, JobRecord
  <2>3. \E reason \in Reasons : CancelAbandonedJob(o) = FinalizeCancellation(o, reason)
    BY <1>2, <2>1 DEF CancelAbandonedJob, Reasons
  <2> QED BY <2>2, <2>3 DEF Watched
<1>3. CASE ~TerminalJob(o) /\ ~(\/ o.state = "queued"
                                \/ o.state = "running" /\ o.id \in Ephemeral)
  <2>1. CancelAbandonedJob(o) = [o EXCEPT !.leaseTimer = FALSE]
    BY <1>3 DEF CancelAbandonedJob
  <2>2. Watched([o EXCEPT !.leaseTimer = FALSE]) BY <1>3 DEF Watched, JobRecord
  <2> QED BY <2>1, <2>2
<1> QED BY <1>1, <1>2, <1>3

\* Whatever leases run out, a job without observers is given up if it must be.
LEMMA ExpireConserves ==
    ASSUME NEW o \in JobRecord, RecordIsConsistent(o)
    PROVE  Conserves(o, ExpireObserverLeases(o))
<1> DEFINE kept == [o EXCEPT !.leases = o.leases \ o.lapsed, !.lapsed = {}]
<1>1. CASE TerminalJob(o) BY <1>1, FinishConserves DEF ExpireObserverLeases
<1>2. CASE ~TerminalJob(o) /\ ~o.enforced
  BY <1>2, ConservesIsReflexive DEF ExpireObserverLeases
<1>3. CASE ~TerminalJob(o) /\ o.enforced
  <2>1. /\ kept \in JobRecord /\ RecordIsConsistent(kept)
        /\ kept.id = o.id /\ kept.reads = o.reads
        /\ kept.consumerPurging = o.consumerPurging
        /\ kept.purgeOperation = o.purgeOperation /\ kept.purging = o.purging
        /\ kept.state = o.state /\ kept.cancellation = o.cancellation
    BY DEF JobRecord, RecordIsConsistent
  <2> HIDE DEF kept
  <2>2. ASSUME Watched(kept) PROVE Conserves(o, kept)
    BY <2>1, <2>2 DEF Conserves
  <2>3. CASE kept.leases = {}
    <3> DEFINE p == CancelAbandonedJob(kept)
    <3>1. /\ Watched(p)
          /\ Conserves(kept, p) \/ p = [kept EXCEPT !.leaseTimer = FALSE]
      BY <2>1, AbandonConserves
    <3>2. ASSUME p = [kept EXCEPT !.leaseTimer = FALSE] PROVE Conserves(kept, p)
      BY <2>1, <3>1, <3>2 DEF Conserves, JobRecord
    <3> HIDE DEF p
    <3>3. Conserves(o, p) BY <2>1, <3>1, <3>2 DEF Conserves
    <3> QED BY <1>3, <2>3, <3>3 DEF ExpireObserverLeases, kept, p
  <2>4. CASE kept.leases # {}
    <3>1. Conserves(o, kept) BY <2>2, <2>4 DEF Watched
    <3> QED BY <1>3, <2>4, <3>1 DEF ExpireObserverLeases, kept
  <2> QED BY <2>3, <2>4
<1> QED BY <1>1, <1>2, <1>3

\* Arming the lease timer is of no account.
LEMMA ScheduleConserves ==
    ASSUME NEW o \in JobRecord
    PROVE  Conserves(o, ScheduleObserverLeaseExpiry(o))
  BY DEF Conserves, ScheduleObserverLeaseExpiry, JobRecord, Watched

\* So is reaping the leases of every record.
LEMMA ReapConserves ==
    ASSUME job \in [Objs -> JobRecord], \A r \in Objs : RecordIsConsistent(job[r])
    PROVE  \A r \in Objs : Conserves(job[r], ReapObserverLeases[r])
<1> SUFFICES ASSUME NEW r \in Objs
             PROVE  Conserves(job[r], ReapObserverLeases[r])
  OBVIOUS
<1>1. Conserves(job[r], ExpireObserverLeases(job[r])) BY ExpireConserves
<1>2. ExpireObserverLeases(job[r]) \in JobRecord BY ExpireTouches DEF Touches
<1>3. Conserves(job[r], ScheduleObserverLeaseExpiry(ExpireObserverLeases(job[r])))
  BY <1>1, <1>2, ScheduleConserves, ConservesIsTransitive
<1> QED BY <1>3, ConservesIsReflexive DEF ReapObserverLeases

-----------------------------------------------------------------------------
(* What the handlers do to the map and the heap *)

\* No read is opened or closed, and what is cancelled stays as it was.
Steady(js, j, js2, j2) ==
    \A r \in Objs :
        /\ j2[r].reads = j[r].reads
        /\ r \in Current(js) /\ r \in Current(js2) /\ j[r].cancellation # "none"
             => j2[r].cancellation = j[r].cancellation

\* Steady changes add up when no record comes back.
LEMMA SteadyThenSteady ==
    ASSUME NEW js, NEW j, NEW js2, NEW j2, NEW js3, NEW j3,
           Steady(js, j, js2, j2), Steady(js2, j2, js3, j3),
           Current(js) \cap Current(js3) \subseteq Current(js2)
    PROVE  Steady(js, j, js3, j3)
  BY DEF Steady

\* Changes of records that conserve are not noticed.
LEMMA ConservingIsExact ==
    ASSUME NEW js, NEW j, NEW q, NEW ops, Good(js, j, q, ops), Exact(js, j, ops),
           NEW j2, \A r \in Objs : Conserves(j[r], j2[r])
    PROVE  Exact(js, j2, ops) /\ Steady(js, j, js, j2)
<1> USE DEF Conserves
<1>1. Current(js) \subseteq Objs BY DEF Good, Types, Current
<1>2. PinOK(js, j2) BY DEF Exact, PinOK
<1>3. FlagsOK(js, j2, ops) BY <1>1 DEF Exact, FlagsOK, Consumer
<1>4. WholeOK(js, j2, ops) BY <1>1 DEF Exact, WholeOK, Consumer
<1>5. DisjointOK(js, j2) BY <1>1 DEF Exact, DisjointOK, Consumer
<1>6. WatchedOK(js, j2) BY <1>1 DEF Exact, WatchedOK
<1>7. Steady(js, j, js, j2) BY DEF Steady
<1> QED BY <1>2, <1>3, <1>4, <1>5, <1>6, <1>7 DEF Exact

\* So is a change of one record.
LEMMA OneConserves ==
    ASSUME NEW js, NEW j, NEW q, NEW ops, Good(js, j, q, ops), Exact(js, j, ops),
           NEW r, NEW o, r \in Objs => Conserves(j[r], o)
    PROVE  /\ Exact(js, [j EXCEPT ![r] = o], ops)
           /\ Steady(js, j, js, [j EXCEPT ![r] = o])
<1> DEFINE j2 == [j EXCEPT ![r] = o]
<1>1. ASSUME NEW s \in Objs PROVE Conserves(j[s], j2[s])
  <2>1. CASE s = r BY <2>1 DEF Good, Types
  <2>2. CASE s # r
    <3>1. j2[s] = j[s] BY <2>2 DEF Good, Types
    <3> QED BY <3>1, ConservesIsReflexive
  <2> QED BY <2>1, <2>2
<1> HIDE DEF j2
<1>2. Exact(js, j2, ops) /\ Steady(js, j, js, j2) BY <1>1, ConservingIsExact
<1> QED BY <1>2 DEF j2

\* The accounts do not count reads.
LEMMA ReadsAreNoMatter ==
    ASSUME NEW js, NEW j, NEW q, NEW ops, Good(js, j, q, ops), Exact(js, j, ops),
           NEW r, NEW o,
           r \in Objs => \E p \in JobRecord, n \in Nat :
                            Conserves(j[r], p) /\ o = [p EXCEPT !.reads = n]
    PROVE  Exact(js, [j EXCEPT ![r] = o], ops)
<1> DEFINE j2 == [j EXCEPT ![r] = o]
<1>1. CASE r \in Objs
  <2>1. PICK p \in JobRecord, n \in Nat :
            Conserves(j[r], p) /\ o = [p EXCEPT !.reads = n]
    BY <1>1
  <2> DEFINE j1 == [j EXCEPT ![r] = p]
  <2>2. Exact(js, j1, ops) BY <2>1, OneConserves
  <2>3. ASSUME NEW s \in Objs
        PROVE  /\ j2[s].id = j1[s].id /\ j2[s].state = j1[s].state
               /\ j2[s].purging = j1[s].purging
               /\ j2[s].purgeOperation = j1[s].purgeOperation
               /\ j2[s].consumerPurging = j1[s].consumerPurging
               /\ j2[s].enforced = j1[s].enforced /\ j2[s].leases = j1[s].leases
    <3>1. CASE s = r
      <4>1. j2[s] = o /\ j1[s] = p BY <3>1 DEF Good, Types
      <4> QED BY <2>1, <4>1 DEF JobRecord
    <3>2. CASE s # r BY <3>2 DEF Good, Types
    <3> QED BY <3>1, <3>2
  <2> HIDE DEF j1, j2
  <2>4. Current(js) \subseteq Objs BY DEF Good, Types, Current
  <2>5. PinOK(js, j2) BY <2>2, <2>3 DEF Exact, PinOK
  <2>6. FlagsOK(js, j2, ops) BY <2>2, <2>3, <2>4 DEF Exact, FlagsOK, Consumer
  <2>7. WholeOK(js, j2, ops) BY <2>2, <2>3, <2>4 DEF Exact, WholeOK, Consumer
  <2>8. DisjointOK(js, j2) BY <2>2, <2>3, <2>4 DEF Exact, DisjointOK, Consumer
  <2>9. WatchedOK(js, j2) BY <2>2, <2>3, <2>4 DEF Exact, WatchedOK, Watched
  <2> QED BY <2>5, <2>6, <2>7, <2>8, <2>9 DEF Exact, j2
<1>2. CASE r \notin Objs
  <2>1. j2 = j BY <1>2 DEF Good, Types
  <2> QED BY <2>1
<1> QED BY <1>1, <1>2

\* What the collector takes away was read by nobody and pinned by nothing.
LEMMA CollectedKeeps ==
    ASSUME NEW js, NEW j \in [Objs -> JobRecord], NEW r \in Objs
    PROVE  /\ \/ Collected(js, j)[r] = j[r]
              \/ /\ Collected(js, j)[r] = Blank /\ r \notin Current(js)
                 /\ j[r].purgeOperation = "none" /\ j[r].reads = 0
           /\ Blank.purgeOperation = "none" /\ Blank.reads = 0
<1>1. j[r].reads \in Nat BY DEF JobRecord
<1> QED BY <1>1 DEF Collected, Blank

\* Records that no purge holds leave the map.
LEMMA DroppingIsExact ==
    ASSUME NEW js \in [Ids -> Objs \cup {NoObj}], NEW j \in [Objs -> JobRecord],
           NEW ops, Exact(js, j, ops),
           NEW js2 \in [Ids -> Objs \cup {NoObj}],
           \A i \in Ids : \/ js2[i] = js[i]
                          \/ /\ js2[i] = NoObj
                             /\ js[i] # NoObj
                             /\ j[js[i]].purgeOperation = "none"
    PROVE  /\ Exact(js2, Collected(js2, j), ops)
           /\ Steady(js, j, js2, Collected(js2, j))
           /\ Current(js2) \subseteq Current(js)
<1> DEFINE j2 == Collected(js2, j)
<1>1. \A r \in Objs : \/ j2[r] = j[r]
                      \/ /\ j2[r] = Blank /\ r \notin Current(js2)
                         /\ j[r].purgeOperation = "none" /\ j[r].reads = 0
  BY CollectedKeeps
<1> HIDE DEF j2
<1>2. Current(js2) \subseteq Current(js) /\ Current(js) \subseteq Objs
  BY DEF Current
<1>3. \A r \in Current(js2) : j2[r] = j[r] BY <1>1, <1>2
<1>4. ASSUME NEW r \in Objs, j2[r].purgeOperation # "none"
      PROVE  js2[j2[r].id] = r
  <2>1. j2[r] = j[r] BY <1>1, <1>4, CollectedKeeps
  <2>2. js[j[r].id] = r /\ j[r].id \in Ids
    BY <1>4, <2>1 DEF Exact, PinOK, JobRecord
  <2> QED BY <1>4, <2>1, <2>2
<1>5. FlagsOK(js2, j2, ops) BY <1>2, <1>3 DEF Exact, FlagsOK
<1>6. WholeOK(js2, j2, ops) BY <1>2, <1>3 DEF Exact, WholeOK
<1>7. DisjointOK(js2, j2) BY <1>2, <1>3 DEF Exact, DisjointOK
<1>8. WatchedOK(js2, j2) BY <1>2, <1>3 DEF Exact, WatchedOK
<1>9. \A r \in Objs : j2[r].reads = j[r].reads
  BY <1>1, CollectedKeeps
<1>10. Steady(js, j, js2, j2) BY <1>3, <1>9 DEF Steady
<1> QED BY <1>2, <1>4, <1>5, <1>6, <1>7, <1>8, <1>10 DEF Exact, PinOK, j2

\* The collector alone.
LEMMA CollectingIsExact ==
    ASSUME NEW js \in [Ids -> Objs \cup {NoObj}], NEW j \in [Objs -> JobRecord],
           NEW ops, Exact(js, j, ops)
    PROVE  Exact(js, Collected(js, j), ops) /\ Steady(js, j, js, Collected(js, j))
  BY DroppingIsExact

\* startNext runs queued records.
LEMMA StartingIsExact ==
    ASSUME NEW js, NEW j, NEW q, NEW ops, Good(js, j, q, ops), Exact(js, j, ops),
           NEW run \in Int, run <= Concurrency, StartNext(j, q, run)
    PROVE  Exact(js, job', ops) /\ Steady(js, j, js, job')
<1> DEFINE n == Slots(q, run)
<1>1. n \in Nat BY SlotsType
<1> HIDE DEF n
<1>2. job' = [r \in Objs |-> IF q[r] \in 1..n THEN Started(j[r]) ELSE j[r]]
  BY DEF StartNext, n
<1>3. ASSUME NEW r \in Objs PROVE Conserves(j[r], job'[r])
  <2>1. CASE q[r] \in 1..n
    <3>1. job'[r] = Started(j[r]) BY <1>2, <2>1
    <3>2. j[r].state = "queued" /\ j[r] \in JobRecord
      BY <1>1, <2>1 DEF Good, Types, QueueOK
    <3>3. Conserves(j[r], Started(j[r]))
      BY <3>2 DEF Conserves, Started, Watched, JobRecord
    <3> QED BY <3>1, <3>3
  <2>2. CASE q[r] \notin 1..n
    <3>1. job'[r] = j[r] BY <1>2, <2>2
    <3> QED BY <3>1, ConservesIsReflexive
  <2> QED BY <2>1, <2>2
<1> QED BY <1>3, ConservingIsExact

\* evictExpired keeps the accounts.
LEMMA EvictingIsExact ==
    ASSUME ScopePurgeInvariant, Exact(jobs, job, scopeOp)
    PROVE  /\ Exact(KeptJobs, KeptRecords, scopeOp)
           /\ Steady(jobs, job, KeptJobs, KeptRecords)
           /\ Current(KeptJobs) \subseteq Current(jobs)
<1>1. Good(jobs, job, queue, scopeOp) BY InvariantParts
<1> DEFINE reaped == ReapObserverLeases
<1>2. reaped \in [Objs -> JobRecord] /\ \A r \in Objs : Touches(job[r], reaped[r])
  BY <1>1, ReapTouches DEF Good, Types
<1>3. \A r \in Objs : Conserves(job[r], reaped[r]) BY <1>1, ReapConserves DEF Good, Types
<1> DEFINE q == CompactQueue(queue, jobs, reaped)
<1>4. q \in [Objs -> Nat] /\ QueueOK(jobs, reaped, q)
  BY <1>1, CompactQueueType DEF Good, Types
<1>5. Good(jobs, reaped, q, scopeOp) BY <1>1, <1>2, <1>4, TouchingIsGood
<1>6. Exact(jobs, reaped, scopeOp) /\ Steady(jobs, job, jobs, reaped)
  BY <1>1, <1>3, ConservingIsExact
<1>7. KeptJobs \in [Ids -> Objs \cup {NoObj}] BY <1>1 DEF KeptJobs, Good, Types
<1>8. \A i \in Ids : \/ KeptJobs[i] = jobs[i]
                     \/ /\ KeptJobs[i] = NoObj /\ jobs[i] # NoObj
                        /\ reaped[jobs[i]].purgeOperation = "none"
  BY DEF KeptJobs, EvictableTerminalJob
<1> HIDE DEF q, reaped
<1>9. /\ Exact(KeptJobs, Collected(KeptJobs, reaped), scopeOp)
      /\ Steady(jobs, reaped, KeptJobs, Collected(KeptJobs, reaped))
      /\ Current(KeptJobs) \subseteq Current(jobs)
  BY <1>5, <1>6, <1>7, <1>8, DroppingIsExact DEF Good, Types
<1> QED BY <1>6, <1>9, SteadyThenSteady DEF KeptRecords, reaped

\* So does making room.
LEMMA RoomierIsExact ==
    ASSUME ScopePurgeInvariant, Exact(jobs, job, scopeOp), NEW js \in Roomier
    PROVE  /\ Exact(js, Collected(js, KeptRecords), scopeOp)
           /\ Steady(jobs, job, js, Collected(js, KeptRecords))
           /\ Current(js) \subseteq Current(KeptJobs)
<1>1. Good(KeptJobs, KeptRecords, KeptQueue, scopeOp) BY EvictingIsGood
<1>2. /\ Exact(KeptJobs, KeptRecords, scopeOp)
      /\ Steady(jobs, job, KeptJobs, KeptRecords)
  BY EvictingIsExact
<1>3. \/ js = KeptJobs
      \/ \E k \in Ids : /\ KeptJobs[k] # NoObj
                        /\ EvictableTerminalJob(KeptRecords[KeptJobs[k]])
                        /\ js = [KeptJobs EXCEPT ![k] = NoObj]
  BY DEF Roomier
<1>4. js \in [Ids -> Objs \cup {NoObj}] BY <1>1, <1>3 DEF Good, Types
<1>5. \A i \in Ids : \/ js[i] = KeptJobs[i]
                     \/ /\ js[i] = NoObj /\ KeptJobs[i] # NoObj
                        /\ KeptRecords[KeptJobs[i]].purgeOperation = "none"
  BY <1>1, <1>3 DEF Good, Types, EvictableTerminalJob
<1>6. /\ Exact(js, Collected(js, KeptRecords), scopeOp)
      /\ Steady(KeptJobs, KeptRecords, js, Collected(js, KeptRecords))
      /\ Current(js) \subseteq Current(KeptJobs)
  BY <1>1, <1>2, <1>4, <1>5, DroppingIsExact DEF Good, Types
<1>7. Current(jobs) \cap Current(js) \subseteq Current(KeptJobs) BY <1>6
<1> QED BY <1>2, <1>6, <1>7, SteadyThenSteady

-----------------------------------------------------------------------------
(* Handlers that evict first *)

\* One record changes after the eviction, unnoticed.
LEMMA EvictThenOne ==
    ASSUME ScopePurgeInvariant, Exact(jobs, job, scopeOp), NEW r, NEW o,
           r \in Objs => Conserves(KeptRecords[r], o),
           jobs' = KeptJobs, job' = [KeptRecords EXCEPT ![r] = o], scopeOp' = scopeOp
    PROVE  Exact(jobs', job', scopeOp') /\ Steady(jobs, job, jobs', job')
<1>1. Good(KeptJobs, KeptRecords, KeptQueue, scopeOp) BY EvictingIsGood
<1>2. /\ Exact(KeptJobs, KeptRecords, scopeOp)
      /\ Steady(jobs, job, KeptJobs, KeptRecords)
  BY EvictingIsExact
<1>3. /\ Exact(KeptJobs, job', scopeOp)
      /\ Steady(KeptJobs, KeptRecords, KeptJobs, job')
  BY <1>1, <1>2, OneConserves
<1>4. Current(jobs) \cap Current(KeptJobs) \subseteq Current(KeptJobs) OBVIOUS
<1> QED BY <1>2, <1>3, <1>4, SteadyThenSteady

\* Get, a new observer, a request for media and a refused create.
LEMMA EvictingAccounts ==
    ASSUME ScopePurgeInvariant, Exact(jobs, job, scopeOp),
           \/ Get
           \/ \E i \in Ids : CreateRefused(i)
           \/ \E i \in Ids, w \in Observers : Observe(i, w)
           \/ \E x \in Readers, i \in Ids, kind \in {"media", "status"} :
                    RequestMedia(x, i, kind)
    PROVE  Exact(jobs', job', scopeOp') /\ Steady(jobs, job, jobs', job')
<1>1. CASE Get BY <1>1, EvictingIsExact DEF Get, EvictExpired
<1>2. ASSUME NEW i \in Ids, CreateRefused(i)
      PROVE  Exact(jobs', job', scopeOp') /\ Steady(jobs, job, jobs', job')
  BY <1>2, RoomierIsExact DEF CreateRefused
<1>3. Good(KeptJobs, KeptRecords, KeptQueue, scopeOp) BY EvictingIsGood
<1>4. \A r \in Objs : KeptRecords[r] \in JobRecord BY <1>3 DEF Good, Types
<1>5. ASSUME NEW i \in Ids, NEW w \in Observers, Observe(i, w)
      PROVE  Exact(jobs', job', scopeOp') /\ Steady(jobs, job, jobs', job')
  <2> DEFINE r == KeptJobs[i]
             o == KeptRecords[r]
             p == [o EXCEPT !.enforced = TRUE, !.leases = @ \cup {w},
                            !.lapsed = @ \ {w}]
  <2>1. ASSUME r \in Objs PROVE Conserves(o, ScheduleObserverLeaseExpiry(p))
    <3>1. o \in JobRecord BY <1>4, <2>1
    <3> HIDE DEF o
    <3>2. p \in JobRecord BY <3>1 DEF JobRecord
    <3>3. Conserves(o, p) BY <3>1 DEF Conserves, Watched, JobRecord
    <3> QED BY <3>2, <3>3, ScheduleConserves, ConservesIsTransitive
  <2>2. /\ job' = [KeptRecords EXCEPT ![r] = ScheduleObserverLeaseExpiry(p)]
        /\ jobs' = KeptJobs /\ scopeOp' = scopeOp
    BY <1>5 DEF Observe
  <2> HIDE DEF r, o, p
  <2>3. o = KeptRecords[r] BY DEF o
  <2> QED BY <2>1, <2>2, <2>3, EvictThenOne
<1>6. ASSUME NEW x \in Readers, NEW i \in Ids, NEW kind \in {"media", "status"},
             RequestMedia(x, i, kind)
      PROVE  Exact(jobs', job', scopeOp') /\ Steady(jobs, job, jobs', job')
  <2> DEFINE r == KeptJobs[i]
             p == [KeptRecords[r] EXCEPT !.verification = TRUE]
  <2>1. ASSUME r \in Objs PROVE Conserves(KeptRecords[r], p)
    BY <1>4, <2>1 DEF Conserves, Watched, JobRecord
  <2>2. r \in Objs BY <1>3, <1>6 DEF RequestMedia, Good, Types
  <2>3. /\ job' = [KeptRecords EXCEPT ![r] = p]
        /\ jobs' = KeptJobs /\ scopeOp' = scopeOp
    BY <1>3, <1>6, <2>2 DEF RequestMedia, Good, Types
  <2> HIDE DEF r, p
  <2> QED BY <2>1, <2>3, EvictThenOne
<1> QED BY <1>1, <1>2, <1>5, <1>6

\* A purge pins a record that the map has and nobody holds.
LEMMA PurgeAccounts ==
    ASSUME ScopePurgeInvariant, Exact(jobs, job, scopeOp), NEW i \in Ids, Purge(i)
    PROVE  Exact(jobs', job', scopeOp') /\ Steady(jobs, job, jobs', job')
<1> DEFINE r == KeptJobs[i]
           js == KeptJobs
           j == KeptRecords
<1>1. Good(js, j, KeptQueue, scopeOp) BY EvictingIsGood
<1>2. /\ Exact(js, j, scopeOp) /\ Steady(jobs, job, js, j)
      /\ Current(js) \subseteq Current(jobs)
  BY EvictingIsExact
<1>3. r \in Objs /\ r # NoObj BY <1>1, IdsAssumption DEF Purge, Good, Types
<1>4. job' = [j EXCEPT ![r].purging = TRUE, ![r].purgeOperation = "draining"]
      /\ jobs' = js /\ scopeOp' = scopeOp
  BY DEF Purge
<1>5. j[r].id = i BY <1>1, <1>3 DEF Good, MapOK
<1>6. js[i] = r OBVIOUS
<1> HIDE DEF js, j, r
<1>7. ASSUME NEW s \in Objs
      PROVE  /\ job'[s].id = j[s].id /\ job'[s].state = j[s].state
             /\ job'[s].reads = j[s].reads
             /\ job'[s].cancellation = j[s].cancellation
             /\ job'[s].consumerPurging = j[s].consumerPurging
             /\ job'[s].enforced = j[s].enforced /\ job'[s].leases = j[s].leases
             /\ \/ s = r /\ job'[s].purging /\ job'[s].purgeOperation = "draining"
                \/ /\ job'[s].purging = j[s].purging
                   /\ job'[s].purgeOperation = j[s].purgeOperation
  <2>1. j[s] \in JobRecord BY <1>1 DEF Good, Types
  <2>2. CASE s = r BY <1>1, <1>3, <1>4, <2>1, <2>2 DEF Good, Types, JobRecord
  <2>3. CASE s # r BY <1>1, <1>3, <1>4, <2>3 DEF Good, Types
  <2> QED BY <2>2, <2>3
<1>8. Current(js) \subseteq Objs BY <1>1 DEF Good, Types, Current
<1>9. PinOK(js, job') BY <1>2, <1>5, <1>6, <1>7 DEF Exact, PinOK
<1>10. FlagsOK(js, job', scopeOp)
  BY <1>2, <1>7, <1>8 DEF Exact, FlagsOK, Consumer
<1>11. WholeOK(js, job', scopeOp) BY <1>2, <1>7, <1>8 DEF Exact, WholeOK, Consumer
<1>12. DisjointOK(js, job') BY <1>2, <1>7, <1>8 DEF Exact, DisjointOK, Consumer
<1>13. WatchedOK(js, job') BY <1>2, <1>7, <1>8 DEF Exact, WatchedOK, Watched
<1>14. Steady(jobs, job, js, job') BY <1>2, <1>7 DEF Steady
<1> QED BY <1>4, <1>9, <1>10, <1>11, <1>12, <1>13, <1>14 DEF Exact

\* A scope purge takes every current record of its consumer.
LEMMA PurgeConsumerCacheAccounts ==
    ASSUME ScopePurgeInvariant, Exact(jobs, job, scopeOp), NEW i \in Ids,
           PurgeConsumerCache(i)
    PROVE  Exact(jobs', job', scopeOp') /\ Steady(jobs, job, jobs', job')
<1> DEFINE c     == ConsumerOf[i]
           js    == KeptJobs
           j     == KeptRecords
           scope == ScopeJobs(c, js, j)
           Flagged(r) == [j[r] EXCEPT !.consumerPurging = TRUE]
           Held(r) == FinalizeCancellation(Flagged(r), "user-requested")
           op    == [pc |-> "settling", job |-> KeptJobs[i], scope |-> scope]
<1>1. Good(js, j, KeptQueue, scopeOp) BY EvictingIsGood
<1>2. /\ Exact(js, j, scopeOp) /\ Steady(jobs, job, js, j)
      /\ Current(js) \subseteq Current(jobs)
  BY EvictingIsExact
<1>3. /\ job' = [r \in Objs |-> IF r \in scope THEN Held(r) ELSE j[r]]
      /\ jobs' = js
      /\ scopeOp' = [scopeOp EXCEPT ![c] = op]
      /\ scopeOp[c].pc = "idle" /\ js[i] # NoObj
  BY DEF PurgeConsumerCache
<1>4. c \in Consumers BY OwnershipAssumption
<1>5. scope \subseteq Current(js) /\ Current(js) \subseteq Objs
  BY <1>1 DEF ScopeJobs, Current, Good, Types
<1>6. \A r \in Current(js) : r \in scope <=> Consumer(j[r]) = c BY DEF ScopeJobs
<1>7. scopeOp'[c] = op /\ \A d \in Consumers \ {c} : scopeOp'[d] = scopeOp[d]
  BY <1>1, <1>3, <1>4 DEF Good, Types, Operations
<1>8. KeptJobs[i] \in scope
  <2>1. KeptJobs[i] \in Current(js) BY <1>3 DEF Current
  <2>2. j[KeptJobs[i]].id = i BY <1>1, <1>3 DEF Good, MapOK
  <2> QED BY <1>6, <2>1, <2>2 DEF Consumer
<1>9. ASSUME NEW r \in Objs
      PROVE  /\ job'[r].id = j[r].id /\ job'[r].reads = j[r].reads
             /\ job'[r].purging = j[r].purging
             /\ job'[r].purgeOperation = j[r].purgeOperation
             /\ job'[r].consumerPurging => j[r].consumerPurging \/ r \in scope
             /\ job'[r].state = "completed" => j[r].state = "completed"
             /\ Watched(j[r]) => Watched(job'[r])
             /\ j[r].cancellation # "none"
                    => job'[r].cancellation = j[r].cancellation
  <2>1. j[r] \in JobRecord BY <1>1 DEF Good, Types
  <2>2. CASE r \in scope
    <3>1. /\ Flagged(r) \in JobRecord
          /\ Flagged(r).id = j[r].id /\ Flagged(r).reads = j[r].reads
          /\ Flagged(r).purging = j[r].purging
          /\ Flagged(r).purgeOperation = j[r].purgeOperation
          /\ Flagged(r).state = j[r].state
          /\ Flagged(r).cancellation = j[r].cancellation
          /\ Watched(Flagged(r)) <=> Watched(j[r])
      BY <2>1 DEF JobRecord, Watched
    <3> HIDE DEF Flagged
    <3>2. Conserves(Flagged(r), Held(r)) BY <3>1, FinalizeConserves DEF Reasons
    <3>3. Touches(Flagged(r), Held(r)) BY <3>1, FinalizeTouches DEF Reasons
    <3>4. job'[r] = Held(r) BY <1>3, <2>2
    <3> HIDE DEF Held, scope
    <3> QED BY <2>2, <3>1, <3>2, <3>3, <3>4 DEF Conserves, Touches
  <2>3. CASE r \notin scope
    <3>1. job'[r] = j[r] BY <1>3, <2>3
    <3> QED BY <3>1
  <2> QED BY <2>2, <2>3
<1> HIDE DEF scope, Held, Flagged, js, j
<1>10. PinOK(js, job') BY <1>2, <1>9 DEF Exact, PinOK
<1>11. FlagsOK(js, job', scopeOp')
  <2> SUFFICES ASSUME NEW r \in Current(js)
      PROVE /\ job'[r].purging <=> job'[r].purgeOperation # "none"
            /\ job'[r].consumerPurging =>
                /\ scopeOp'[Consumer(job'[r])].pc # "idle"
                /\ r \in scopeOp'[Consumer(job'[r])].scope
    BY DEF FlagsOK
  <2>1. r \in Objs /\ Consumer(job'[r]) = Consumer(j[r])
    BY <1>5, <1>9 DEF Consumer
  <2>2. j[r] \in JobRecord BY <1>1, <2>1 DEF Good, Types
  <2>3. Consumer(j[r]) \in Consumers
    BY <2>2, OwnershipAssumption DEF Consumer, JobRecord
  <2>4. CASE Consumer(j[r]) = c
    BY <1>2, <1>5, <1>6, <1>7, <1>9, <2>1, <2>4 DEF Exact, FlagsOK
  <2>5. CASE Consumer(j[r]) # c
    BY <1>2, <1>6, <1>7, <1>9, <2>1, <2>3, <2>5 DEF Exact, FlagsOK
  <2> QED BY <2>4, <2>5
<1>12. WholeOK(js, job', scopeOp')
  <2> SUFFICES ASSUME NEW d \in Consumers, scopeOp'[d].pc # "idle"
      PROVE /\ scopeOp'[d].job \in scopeOp'[d].scope
            /\ \A r \in Current(js) :
                    Consumer(job'[r]) = d => r \in scopeOp'[d].scope
    BY DEF WholeOK
  <2>1. \A r \in Current(js) : Consumer(job'[r]) = Consumer(j[r])
    BY <1>5, <1>9 DEF Consumer
  <2>2. CASE d = c BY <1>6, <1>7, <1>8, <2>1, <2>2
  <2>3. CASE d # c BY <1>2, <1>7, <2>1, <2>3 DEF Exact, WholeOK
  <2> QED BY <2>2, <2>3
<1>13. DisjointOK(js, job') BY <1>2, <1>5, <1>9 DEF Exact, DisjointOK, Consumer
<1>14. WatchedOK(js, job') BY <1>2, <1>5, <1>9 DEF Exact, WatchedOK
<1>15. Steady(jobs, job, js, job') BY <1>2, <1>9 DEF Steady
<1> QED BY <1>3, <1>10, <1>11, <1>12, <1>13, <1>14, <1>15 DEF Exact

\* A new record takes its place without a purge, an observer or a past.
LEMMA InsertingIsExact ==
    ASSUME NEW js, NEW j, NEW q, NEW ops, Good(js, j, q, ops), Exact(js, j, ops),
           NEW i \in Ids, NEW r \in Objs, r \notin Current(js),
           j[r].purgeOperation = "none", j[r].reads = 0,
           ops[ConsumerOf[i]].pc = "idle",
           js[i] # NoObj => j[js[i]].purgeOperation = "none"
    PROVE  LET js2 == [js EXCEPT ![i] = r]
               j2  == Collected(js2, [j EXCEPT ![r] = NewJob(i)])
           IN  /\ Exact(js2, j2, ops) /\ Steady(js, j, js2, j2)
               /\ Current(js2) \subseteq Current(js) \cup {r}
<1> USE DEF Good, Types
<1> DEFINE js2 == [js EXCEPT ![i] = r]
           j1 == [j EXCEPT ![r] = NewJob(i)]
           j2 == Collected(js2, j1)
<1>1. /\ j1 \in [Objs -> JobRecord] /\ j1[r] = NewJob(i)
      /\ \A s \in Objs \ {r} : j1[s] = j[s]
  BY NewJobIsRecord
<1>2. /\ js2[i] = r /\ \A k \in Ids \ {i} : js2[k] = js[k]
  OBVIOUS
<1>3. r # NoObj BY IdsAssumption
<1> HIDE DEF js2, j1
<1>4. \A s \in Objs : \/ j2[s] = j1[s]
                      \/ /\ j2[s] = Blank /\ s \notin Current(js2)
                         /\ j1[s].purgeOperation = "none" /\ j1[s].reads = 0
  BY <1>1, CollectedKeeps
<1> HIDE DEF j2
<1>5. r \in Current(js2) /\ j2[r] = NewJob(i) BY <1>1, <1>2, <1>3, <1>4 DEF Current
<1>6. \A s \in Current(js2) \ {r} : s \in Current(js) /\ s \in Objs /\ j2[s] = j[s]
  BY <1>1, <1>2, <1>4 DEF Current
<1>7. /\ NewJob(i).id = i /\ NewJob(i).state = "queued"
      /\ NewJob(i).reads = 0 /\ NewJob(i).purgeOperation = "none"
      /\ ~NewJob(i).purging /\ ~NewJob(i).consumerPurging /\ ~NewJob(i).enforced
  BY BlankIsRecord DEF NewJob, Blank, JobRecord
<1>8. Blank.purgeOperation = "none" /\ Blank.reads = 0 BY DEF Blank
<1>9. ASSUME NEW s \in Objs, j2[s].purgeOperation # "none"
      PROVE  js2[j2[s].id] = s
  <2>1. s # r BY <1>5, <1>7, <1>9
  <2>2. j2[s] = j[s] BY <1>1, <1>4, <1>8, <1>9, <2>1
  <2>3. js[j[s].id] = s /\ j[s].id \in Ids
    BY <1>9, <2>2 DEF Exact, PinOK, JobRecord
  <2>4. j[s].id # i BY <1>9, <2>2, <2>3, IdsAssumption
  <2> QED BY <1>2, <2>2, <2>3, <2>4
<1>10. FlagsOK(js2, j2, ops)
  <2> SUFFICES ASSUME NEW s \in Current(js2)
      PROVE  /\ j2[s].purging <=> j2[s].purgeOperation # "none"
             /\ j2[s].consumerPurging =>
                    ops[Consumer(j2[s])].pc # "idle"
                    /\ s \in ops[Consumer(j2[s])].scope
    BY DEF FlagsOK
  <2>1. CASE s = r BY <1>5, <1>7, <2>1
  <2>2. CASE s # r BY <1>6, <2>2 DEF Exact, FlagsOK
  <2> QED BY <2>1, <2>2
<1>11. WholeOK(js2, j2, ops)
  <2>1. \A d \in Consumers, s \in Current(js2) :
            ops[d].pc # "idle" /\ Consumer(j2[s]) = d => s # r
    BY <1>5, <1>7 DEF Consumer
  <2> QED BY <1>6, <2>1 DEF Exact, WholeOK
<1>12. DisjointOK(js2, j2)
  <2>1. \A s \in Current(js2) : j2[s].state = "completed" => s # r BY <1>5, <1>7
  <2> QED BY <1>6, <2>1 DEF Exact, DisjointOK
<1>13. WatchedOK(js2, j2)
  <2> SUFFICES ASSUME NEW s \in Current(js2) PROVE Watched(j2[s])
    BY DEF WatchedOK
  <2>1. CASE s = r BY <1>5, <1>7, <2>1 DEF Watched
  <2>2. CASE s # r BY <1>6, <2>2 DEF Exact, WatchedOK
  <2> QED BY <2>1, <2>2
<1>14. Steady(js, j, js2, j2)
  <2>1. ASSUME NEW s \in Objs PROVE j2[s].reads = j[s].reads
    <3>1. CASE s = r BY <1>5, <1>7, <3>1
    <3>2. CASE s # r BY <1>1, <1>4, <1>8, <3>2
    <3> QED BY <3>1, <3>2
  <2>2. \A s \in Current(js) : s \in Current(js2) => j2[s] = j[s] BY <1>6
  <2> QED BY <2>1, <2>2 DEF Steady
<1>15. Current(js2) \subseteq Current(js) \cup {r} BY <1>6
<1> QED BY <1>9, <1>10, <1>11, <1>12, <1>13, <1>14, <1>15
    DEF Exact, PinOK, js2, j1, j2

\* The whole of create: evict, make room, insert, start.
LEMMA CreateAccounts ==
    ASSUME ScopePurgeInvariant, Exact(jobs, job, scopeOp), NEW i \in Ids, Create(i)
    PROVE  Exact(jobs', job', scopeOp') /\ Steady(jobs, job, jobs', job')
<1>1. PICK js \in Roomier, r \in Objs :
        LET roomy == Collected(js, KeptRecords)
            q     == CompactQueue(KeptQueue, js, KeptRecords)
            js2   == [js EXCEPT ![i] = r]
        IN  /\ job[r].state = "free"
            /\ jobs' = js2
            /\ StartNext(Collected(js2, [roomy EXCEPT ![r] = NewJob(i)]),
                         [q EXCEPT ![r] = Waiting(q) + 1], runningJobs)
  BY DEF Create
<1> DEFINE roomy == Collected(js, KeptRecords)
           q     == CompactQueue(KeptQueue, js, KeptRecords)
           js2   == [js EXCEPT ![i] = r]
           j2    == Collected(js2, [roomy EXCEPT ![r] = NewJob(i)])
           q2    == [q EXCEPT ![r] = Waiting(q) + 1]
<1>2. Good(jobs, job, queue, scopeOp) /\ runningJobs \in Int /\ runningJobs <= Concurrency
  BY InvariantParts DEF OtherTypes
<1>3. Good(KeptJobs, KeptRecords, KeptQueue, scopeOp)
      /\ \A k \in Ids : KeptJobs[k] = jobs[k] \/ KeptJobs[k] = NoObj
  BY EvictingIsGood
<1>4. Good(js, roomy, q, scopeOp)
      /\ \A k \in Ids : js[k] = KeptJobs[k] \/ js[k] = NoObj
  BY RoomierIsGood
<1>5. /\ Exact(js, roomy, scopeOp) /\ Steady(jobs, job, js, roomy)
      /\ Current(js) \subseteq Current(KeptJobs)
  BY RoomierIsExact
<1>6. r \notin Current(jobs) BY <1>1, <1>2, CurrentIsNamed DEF Good, Types
<1>7. r \notin Current(js) BY <1>3, <1>4, <1>6 DEF Current
<1>8. roomy[r].reads = 0
  <2>1. job[r].reads = 0 BY <1>1, <1>2 DEF Good, Types, RecordIsConsistent, JobRecord
  <2> QED BY <1>5, <2>1 DEF Steady
<1>9. roomy[r].purgeOperation = "none"
  <2>1. roomy[r].purgeOperation # "none" => js[roomy[r].id] = r /\ roomy[r].id \in Ids
    BY <1>4, <1>5 DEF Exact, PinOK, Good, Types, JobRecord
  <2> QED BY <1>7, <2>1, IdsAssumption DEF Current
<1>10. js[i] # NoObj =>
          roomy[js[i]].purgeOperation = "none"
          /\ ~roomy[js[i]].execution /\ TerminalJob(roomy[js[i]])
  <2> SUFFICES ASSUME js[i] # NoObj
               PROVE  /\ roomy[js[i]].purgeOperation = "none"
                      /\ ~roomy[js[i]].execution /\ TerminalJob(roomy[js[i]])
    OBVIOUS
  <2> DEFINE s == js[i]
  <2>1. s = KeptJobs[i] BY <1>4
  <2>2. s \in Current(js) /\ s \in Current(KeptJobs) /\ s \in Objs
    BY <1>3, <1>4, <2>1 DEF Current, Good, Types
  <2>3. roomy[s] = KeptRecords[s]
    BY <1>3, <2>2, CollectedType DEF Good, Types
  <2>4. KeptRecords[s].id = i BY <1>3, <2>1 DEF Good, MapOK
  <2>5. /\ KeptRecords[s].state \in {"failed", "cancelled"}
        /\ KeptRecords[s].purgeOperation = "none"
    BY <2>1 DEF Create, MayCreate, MayReplace
  <2>6. KeptRecords[s].state = "cancelled" => ~KeptRecords[s].execution
    BY <2>2, <2>4 DEF Create, MayCreate, CancelledWriterIn, Consumer
  <2>7. RecordIsConsistent(KeptRecords[s]) BY <1>3, <2>2 DEF Good
  <2>8. ~KeptRecords[s].execution BY <2>5, <2>6, <2>7 DEF RecordIsConsistent
  <2> QED BY <2>3, <2>5, <2>8 DEF TerminalJob, Terminal
<1>11. scopeOp[ConsumerOf[i]].pc = "idle" BY DEF Create, MayCreate
<1>12. Waiting(q) + 1 \in Nat BY WaitingType DEF Waiting
<1> HIDE DEF roomy, q
<1>13. Good(js2, j2, q2, scopeOp)
  BY <1>4, <1>7, <1>10, <1>11, <1>12, InsertingIsGood
<1>14. /\ Exact(js2, j2, scopeOp) /\ Steady(js, roomy, js2, j2)
       /\ Current(js2) \subseteq Current(js) \cup {r}
  BY <1>4, <1>5, <1>7, <1>8, <1>9, <1>10, <1>11, InsertingIsExact
<1>15. jobs' = js2 /\ StartNext(j2, q2, runningJobs) BY <1>1 DEF roomy, q
<1> HIDE DEF js2, j2, q2
<1>16. Exact(js2, job', scopeOp) /\ Steady(js2, j2, js2, job')
  BY <1>2, <1>13, <1>14, <1>15, StartingIsExact
<1>17. Current(jobs) \cap Current(js2) \subseteq Current(js) BY <1>6, <1>14
<1>18. Steady(js, roomy, js2, job')
  BY <1>14, <1>16, SteadyThenSteady
<1>19. Steady(jobs, job, js2, job') BY <1>5, <1>17, <1>18, SteadyThenSteady
<1> QED BY <1>15, <1>16, <1>19 DEF Create

-----------------------------------------------------------------------------
(* Handlers that change one record *)

\* One record of the state changes, unnoticed.
LEMMA OneAccounts ==
    ASSUME ScopePurgeInvariant, Exact(jobs, job, scopeOp), NEW r, NEW o,
           r \in Objs => Conserves(job[r], o),
           jobs' = jobs, job' = [job EXCEPT ![r] = o], scopeOp' = scopeOp
    PROVE  Exact(jobs', job', scopeOp') /\ Steady(jobs, job, jobs', job')
  BY InvariantParts, OneConserves

\* Leases run out, jobs are cancelled, runners publish, time passes, and the
\* purge of a record goes on or gives up.
LEMMA RecordAccounts ==
    ASSUME ScopePurgeInvariant, Exact(jobs, job, scopeOp), NEW r \in Objs,
           \/ ObserverLeaseTimer(r) \/ ExecutionDeadline(r) \/ RunnerPublishes(r)
           \/ PurgeDrained(r) \/ PurgeDrainTimeout(r) \/ PurgeVerified(r)
           \/ PurgeUnlinks(r) \/ PurgeUnlinkFails(r) \/ Outlive(r)
           \/ \E w \in Observers : LeaseLapses(r, w)
    PROVE  Exact(jobs', job', scopeOp') /\ Steady(jobs, job, jobs', job')
<1> DEFINE o == job[r]
<1>1. o \in JobRecord /\ RecordIsConsistent(o) /\ job \in [Objs -> JobRecord]
  BY DEF ScopePurgeInvariant, TypeOK
<1> HIDE DEF o
<1> SUFFICES \E p : /\ Conserves(o, p) /\ job' = [job EXCEPT ![r] = p]
                    /\ jobs' = jobs /\ scopeOp' = scopeOp
  BY OneAccounts DEF o
<1>2. CASE ObserverLeaseTimer(r)
  <2> DEFINE p == [o EXCEPT !.leaseTimer = FALSE]
  <2>1. /\ p \in JobRecord /\ RecordIsConsistent(p) /\ Conserves(o, p)
    BY <1>1 DEF JobRecord, RecordIsConsistent, Conserves, Watched
  <2> HIDE DEF p
  <2>2. Conserves(p, ExpireObserverLeases(p)) /\ ExpireObserverLeases(p) \in JobRecord
    BY <2>1, ExpireConserves, ExpireTouches DEF Touches
  <2>3. Conserves(o, ScheduleObserverLeaseExpiry(ExpireObserverLeases(p)))
    BY <2>1, <2>2, ScheduleConserves, ConservesIsTransitive
  <2>4. UpdateJob(r, ScheduleObserverLeaseExpiry(ExpireObserverLeases(p)))
    BY <1>2 DEF ObserverLeaseTimer, p, o
  <2> QED BY <2>3, <2>4 DEF UpdateJob
<1>3. CASE ExecutionDeadline(r)
  <2> DEFINE p == [o EXCEPT !.deadlineTimer = FALSE]
  <2>1. /\ p \in JobRecord /\ Conserves(o, p)
    BY <1>1 DEF JobRecord, Conserves, Watched
  <2> HIDE DEF p
  <2>2. Conserves(o, FinalizeCancellation(p, "execution-deadline"))
    BY <2>1, FinalizeConserves, ConservesIsTransitive DEF Reasons
  <2>3. UpdateJob(r, FinalizeCancellation(p, "execution-deadline"))
    BY <1>3 DEF ExecutionDeadline, p, o
  <2> QED BY <2>2, <2>3 DEF UpdateJob
<1>4. CASE RunnerPublishes(r)
  <2>1. Conserves(o, [o EXCEPT !.published = TRUE])
    BY <1>1 DEF JobRecord, Conserves, Watched
  <2> QED BY <1>1, <1>4, <2>1 DEF RunnerPublishes, o
<1>5. Conserves(o, PurgeGivesUp(o))
  BY <1>1 DEF PurgeGivesUp, JobRecord, Conserves, Watched
<1>6. \A pc \in {"verifying", "unlinking", "unlinked"} : o.purgeOperation # "none" =>
        /\ Conserves(o, [o EXCEPT !.purgeOperation = pc])
        /\ Conserves(o, [o EXCEPT !.verification = TRUE, !.purgeOperation = pc])
  BY <1>1 DEF JobRecord, Conserves, Watched
<1>7. CASE PurgeDrained(r) \/ PurgeDrainTimeout(r)
  <2>1. CASE o.state = "completed" /\ PurgeDrained(r)
    BY <1>6, <2>1 DEF PurgeDrained, PurgeStep, o
  <2>2. CASE ~(o.state = "completed" /\ PurgeDrained(r))
    BY <1>5, <1>7, <2>2 DEF PurgeDrained, PurgeDrainTimeout, PurgeStep, o
  <2> QED BY <2>1, <2>2
<1>8. CASE PurgeVerified(r)
  <2>1. CASE o.state = "completed" /\ o.reads = 0
    BY <1>6, <1>8, <2>1 DEF PurgeVerified, PurgeStep, o
  <2>2. CASE ~(o.state = "completed" /\ o.reads = 0)
    BY <1>5, <1>8, <2>2 DEF PurgeVerified, PurgeStep, o
  <2> QED BY <2>1, <2>2
<1>9. CASE PurgeUnlinks(r)
  <2>1. job' = [job EXCEPT ![r] = [o EXCEPT !.purgeOperation = "unlinked"]]
    BY <1>1, <1>9 DEF PurgeUnlinks, o
  <2> QED BY <1>6, <1>9, <2>1 DEF PurgeUnlinks, o
<1>10. CASE PurgeUnlinkFails(r) BY <1>5, <1>10 DEF PurgeUnlinkFails, o
<1>11. CASE Outlive(r)
  <2>1. Conserves(o, [o EXCEPT !.outlived = TRUE])
    BY <1>1 DEF JobRecord, Conserves, Watched
  <2> QED BY <1>1, <1>11, <2>1 DEF Outlive, timeRest, o
<1>12. ASSUME NEW w \in Observers, LeaseLapses(r, w)
       PROVE  \E p : /\ Conserves(o, p) /\ job' = [job EXCEPT ![r] = p]
                     /\ jobs' = jobs /\ scopeOp' = scopeOp
  <2>1. Conserves(o, [o EXCEPT !.lapsed = @ \cup {w}])
    BY <1>1 DEF JobRecord, Conserves, Watched
  <2>2. job' = [job EXCEPT ![r] = [o EXCEPT !.lapsed = @ \cup {w}]]
    BY <1>1, <1>12 DEF LeaseLapses, o
  <2> QED BY <1>12, <2>1, <2>2 DEF LeaseLapses, timeRest
<1> QED BY <1>2, <1>3, <1>4, <1>7, <1>8, <1>9, <1>10, <1>11, <1>12

\* A client cancels a job or renews its interest in one.
LEMMA ClientUpdateAccounts ==
    ASSUME ScopePurgeInvariant, Exact(jobs, job, scopeOp), NEW i \in Ids,
           Cancel(i) \/ \E w \in Observers : RenewObserver(i, w)
    PROVE  Exact(jobs', job', scopeOp') /\ Steady(jobs, job, jobs', job')
<1> DEFINE r == jobs[i]
           e == ExpireObserverLeases(job[r])
<1>1. r \in Objs /\ job[r] \in JobRecord /\ RecordIsConsistent(job[r])
  BY DEF Cancel, RenewObserver, ScopePurgeInvariant, TypeOK
<1>2. CASE Cancel(i)
  <2>1. Conserves(job[r], FinalizeCancellation(job[r], "user-requested"))
    BY <1>1, FinalizeConserves DEF Reasons
  <2> QED BY <1>2, <2>1, OneAccounts DEF Cancel, UpdateJob
<1>3. ASSUME NEW w \in Observers, RenewObserver(i, w)
      PROVE  Exact(jobs', job', scopeOp') /\ Steady(jobs, job, jobs', job')
  <2> DEFINE p == IF TerminalJob(e) \/ w \notin e.leases THEN e
                  ELSE ScheduleObserverLeaseExpiry(e)
  <2>1. Conserves(job[r], e) /\ e \in JobRecord
    BY <1>1, ExpireConserves, ExpireTouches DEF Touches
  <2>2. UpdateJob(r, p) BY <1>3 DEF RenewObserver
  <2> HIDE DEF e
  <2>3. Conserves(job[r], p) BY <2>1, ScheduleConserves, ConservesIsTransitive
  <2> QED BY <2>2, <2>3, OneAccounts DEF UpdateJob
<1> QED BY <1>2, <1>3

\* A purge that is over takes its record out of the map.
LEMMA PurgeCompletesAccounts ==
    ASSUME ScopePurgeInvariant, Exact(jobs, job, scopeOp), NEW r \in Objs,
           PurgeCompletes(r)
    PROVE  Exact(jobs', job', scopeOp') /\ Steady(jobs, job, jobs', job')
<1> DEFINE i == job[r].id
           j == [job EXCEPT ![r].purgeOperation = "none"]
           js == [jobs EXCEPT ![i] = NoObj]
<1>1. Good(jobs, job, queue, scopeOp) BY InvariantParts
<1>2. job \in [Objs -> JobRecord] /\ i \in Ids /\ jobs[i] = r
  BY <1>1 DEF Good, Types, JobRecord, PurgeCompletes
<1>3. jobs' = js /\ job' = Collected(js, j) /\ scopeOp' = scopeOp
  BY DEF PurgeCompletes
<1>4. /\ j \in [Objs -> JobRecord] /\ j[r].purgeOperation = "none"
      /\ j[r].reads = job[r].reads /\ \A s \in Objs \ {r} : j[s] = job[s]
  BY <1>2 DEF JobRecord
<1>5. js[i] = NoObj /\ \A k \in Ids \ {i} : js[k] = jobs[k] BY <1>1, <1>2 DEF Good, Types
<1>6. \A k \in Ids \ {i} : jobs[k] # r
  BY <1>1, <1>2, IdsAssumption DEF Good, MapOK
<1>7. Current(js) = Current(jobs) \ {r} /\ Current(jobs) \subseteq Objs
  BY <1>1, <1>2, <1>5, <1>6 DEF Current, Good, Types
<1> HIDE DEF i, j, js
<1>8. \A s \in Objs : \/ job'[s] = j[s]
                      \/ /\ job'[s] = Blank /\ s \notin Current(js)
                         /\ j[s].purgeOperation = "none" /\ j[s].reads = 0
  BY <1>3, <1>4, CollectedKeeps
<1>9. \A s \in Current(js) : s \in Current(jobs) /\ job'[s] = job[s]
  BY <1>4, <1>7, <1>8
<1>10. ASSUME NEW s \in Objs, job'[s].purgeOperation # "none"
       PROVE  js[job'[s].id] = s
  <2>1. s # r /\ job'[s] = job[s] BY <1>4, <1>8, <1>10, CollectedKeeps
  <2>2. jobs[job[s].id] = s /\ job[s].id \in Ids
    BY <1>2, <1>10, <2>1 DEF Exact, PinOK, JobRecord
  <2> QED BY <1>2, <1>5, <2>1, <2>2
<1>11. FlagsOK(js, job', scopeOp) BY <1>9 DEF Exact, FlagsOK
<1>12. WholeOK(js, job', scopeOp) BY <1>9 DEF Exact, WholeOK
<1>13. DisjointOK(js, job') BY <1>9 DEF Exact, DisjointOK
<1>14. WatchedOK(js, job') BY <1>9 DEF Exact, WatchedOK
<1>15. \A s \in Objs : job'[s].reads = job[s].reads BY <1>4, <1>8, CollectedKeeps
<1>16. Steady(jobs, job, js, job') BY <1>9, <1>15 DEF Steady
<1> QED BY <1>3, <1>10, <1>11, <1>12, <1>13, <1>14, <1>16 DEF Exact, PinOK

\* A runner settles on its own file only, and the next jobs start.
LEMMA RunnerSettlesAccounts ==
    ASSUME ScopePurgeInvariant, Exact(jobs, job, scopeOp), NEW r \in Objs,
           NEW outcome \in {"completed", "failed"}, RunnerSettles(r, outcome)
    PROVE  Exact(jobs', job', scopeOp') /\ Steady(jobs, job, jobs', job')
<1> DEFINE o == Settled(job[r], outcome)
           j == [job EXCEPT ![r] = o]
<1>1. Good(jobs, job, queue, scopeOp) /\ runningJobs \in Int
      /\ runningJobs <= Concurrency
  BY InvariantParts DEF OtherTypes
<1>2. job[r] \in JobRecord /\ RecordIsConsistent(job[r]) /\ job[r].execution
  BY <1>1 DEF Good, Types, RunnerSettles
<1>3. Keeps(job[r], o) /\ job[r].state # "queued" BY <1>2, SettledKeeps
<1>4. /\ o.id = job[r].id /\ o.reads = job[r].reads
      /\ o.purging = job[r].purging /\ o.purgeOperation = job[r].purgeOperation
      /\ o.consumerPurging = job[r].consumerPurging
      /\ o.cancellation = job[r].cancellation
      /\ o.state = "completed" => outcome = "completed"
      /\ o.state \notin {"queued", "running"}
  <2> DEFINE final == IF job[r].cancellation # "none" THEN job[r]
                      ELSE [job[r] EXCEPT !.state = outcome]
  <2>1. /\ final \in JobRecord
        /\ final.id = job[r].id /\ final.reads = job[r].reads
        /\ final.purging = job[r].purging
        /\ final.purgeOperation = job[r].purgeOperation
        /\ final.consumerPurging = job[r].consumerPurging
        /\ final.cancellation = job[r].cancellation
        /\ final.state = "completed" => outcome = "completed"
        /\ final.state \notin {"queued", "running"}
    BY <1>2 DEF JobRecord, RecordIsConsistent, Terminal
  <2>2. o = FinishObserverLeases([final EXCEPT !.execution = FALSE,
                                    !.deadlineTimer = FALSE, !.outlived = FALSE])
    BY DEF Settled
  <2> HIDE DEF final, o
  <2> QED BY <2>1, <2>2 DEF FinishObserverLeases, JobRecord
<1>5. Good(jobs, j, queue, scopeOp) BY <1>1, <1>3, OneRecordIsGood
<1>6. j[r] = o /\ \A s \in Objs \ {r} : j[s] = job[s] BY <1>1 DEF Good, Types
<1>7. runningJobs - 1 \in Int /\ runningJobs - 1 <= Concurrency
  <2>1. Concurrency \in Int BY LimitAssumption
  <2> QED BY <1>1, <2>1
<1>8. StartNext(j, queue, runningJobs - 1) /\ jobs' = jobs /\ scopeOp' = scopeOp
  BY DEF RunnerSettles
<1> HIDE DEF o, j
<1>9. \A s \in Objs :
        /\ j[s].id = job[s].id /\ j[s].reads = job[s].reads
        /\ j[s].purging = job[s].purging
        /\ j[s].purgeOperation = job[s].purgeOperation
        /\ j[s].consumerPurging = job[s].consumerPurging
        /\ j[s].cancellation = job[s].cancellation
        /\ Watched(job[s]) => Watched(j[s])
  BY <1>4, <1>6 DEF Watched
<1>10. Current(jobs) \subseteq Objs BY <1>1 DEF Good, Types, Current
<1>11. PinOK(jobs, j) BY <1>9 DEF Exact, PinOK
<1>12. FlagsOK(jobs, j, scopeOp) BY <1>9, <1>10 DEF Exact, FlagsOK, Consumer
<1>13. WholeOK(jobs, j, scopeOp) BY <1>9, <1>10 DEF Exact, WholeOK, Consumer
<1>14. WatchedOK(jobs, j) BY <1>9, <1>10 DEF Exact, WatchedOK
<1>15. DisjointOK(jobs, j)
  <2> SUFFICES ASSUME NEW s \in Current(jobs), NEW t \in Current(jobs),
                      j[s].state = "completed", j[t].state = "completed",
                      ArtifactOf[j[s].id] = ArtifactOf[j[t].id]
               PROVE  Consumer(j[s]) = Consumer(j[t])
    BY DEF DisjointOK
  <2>1. ASSUME NEW u \in Current(jobs) \ {r}, j[u].state = "completed",
               j[r].state = "completed", ArtifactOf[j[u].id] = ArtifactOf[j[r].id]
        PROVE  Consumer(j[u]) = Consumer(j[r])
    <3>1. ~CrossConsumerPathCollision(r) BY <1>4, <1>6, <2>1 DEF RunnerSettles
    <3>2. job[u] = j[u] /\ job[r].id = j[r].id BY <1>6, <1>9, <1>10
    <3> QED BY <2>1, <3>1, <3>2 DEF CrossConsumerPathCollision, Consumer
  <2>2. CASE s # r /\ t # r BY <1>6, <1>10, <2>2 DEF Exact, DisjointOK
  <2>3. CASE s = r /\ t = r BY <2>3
  <2>4. CASE s = r /\ t # r BY <2>1, <2>4
  <2>5. CASE s # r /\ t = r BY <2>1, <2>5
  <2> QED BY <2>2, <2>3, <2>4, <2>5
<1>16. Exact(jobs, j, scopeOp) BY <1>11, <1>12, <1>13, <1>14, <1>15 DEF Exact
<1>17. Exact(jobs, job', scopeOp) /\ Steady(jobs, j, jobs, job')
  BY <1>5, <1>7, <1>8, <1>16, StartingIsExact
<1>18. Steady(jobs, job, jobs, j) BY <1>9 DEF Steady
<1>19. Steady(jobs, job, jobs, job') BY <1>17, <1>18, SteadyThenSteady
<1> QED BY <1>8, <1>17, <1>19

-----------------------------------------------------------------------------
(* Verifications, readers and scope purges *)

\* A scope purge that goes on keeps its scope.
LEMMA MovingIsExact ==
    ASSUME NEW js, NEW j, NEW q, NEW ops, Good(js, j, q, ops), Exact(js, j, ops),
           NEW ops2,
           \A c \in Consumers : /\ ops2[c].pc # "idle" <=> ops[c].pc # "idle"
                                /\ ops2[c].job = ops[c].job
                                /\ ops2[c].scope = ops[c].scope
    PROVE  Exact(js, j, ops2)
<1>1. FlagsOK(js, j, ops2)
  <2>1. \A r \in Current(js) : Consumer(j[r]) \in Consumers
    BY CurrentIsNamed, OwnershipAssumption DEF Good, Types, Consumer
  <2> QED BY <2>1 DEF Exact, FlagsOK
<1>2. WholeOK(js, j, ops2) BY DEF Exact, WholeOK
<1> QED BY <1>1, <1>2 DEF Exact

\* Whatever a verification finds, the record and the purges stay in order.
LEMMA VerificationAccounts ==
    ASSUME ScopePurgeInvariant, Exact(jobs, job, scopeOp), NEW r \in Objs,
           NEW ok \in BOOLEAN, VerificationSettles(r, ok)
    PROVE  Exact(jobs', job', scopeOp') /\ Steady(jobs, job, jobs', job')
<1> DEFINE o == [job[r] EXCEPT !.verification = FALSE,
                    !.purgeOperation = IF @ = "verifying" THEN "verified" ELSE @]
           p == IF ok THEN o ELSE Invalidated(o)
           j == [job EXCEPT ![r] = p]
<1>1. Good(jobs, job, queue, scopeOp) BY InvariantParts
<1>2. job[r] \in JobRecord /\ RecordIsConsistent(job[r]) /\ job[r].verification
  BY <1>1 DEF Good, Types, VerificationSettles
<1>3. /\ o \in JobRecord /\ Conserves(job[r], o)
      /\ o.state \in {"completed", "failed"}
  BY <1>2 DEF JobRecord, RecordIsConsistent, Conserves, Watched
<1> HIDE DEF o
<1>4. Conserves(o, Invalidated(o)) /\ Invalidated(o) \in JobRecord
  BY <1>3 DEF Invalidated, JobRecord, Conserves, Watched, Terminal
<1>5. Conserves(job[r], p) /\ p \in JobRecord BY <1>3, <1>4, ConservesIsTransitive
<1>6. job' = Collected(jobs, j) /\ jobs' = jobs BY DEF VerificationSettles, o
<1> HIDE DEF p
<1>7. Exact(jobs, j, scopeOp) /\ Steady(jobs, job, jobs, j)
  BY <1>1, <1>5, OneConserves
<1>8. j \in [Objs -> JobRecord] BY <1>1, <1>5 DEF Good, Types
<1> HIDE DEF j
<1>9. Exact(jobs, job', scopeOp) /\ Steady(jobs, j, jobs, job')
  BY <1>1, <1>6, <1>7, <1>8, CollectingIsExact DEF Good, Types
<1>10. Good(jobs', job', queue', scopeOp')
  BY VerificationSettlesStep, InvariantPartsPrime
<1>11. \A c \in Consumers : /\ scopeOp'[c].pc # "idle" <=> scopeOp[c].pc # "idle"
                            /\ scopeOp'[c].job = scopeOp[c].job
                            /\ scopeOp'[c].scope = scopeOp[c].scope
  BY <1>1 DEF Good, Types, Operations, VerificationSettles
<1>12. Exact(jobs, job', scopeOp')
  <2>1. \A s \in Current(jobs) : Consumer(job'[s]) \in Consumers
    BY <1>6, <1>10, CurrentIsNamed, OwnershipAssumption DEF Good, Types, Consumer
  <2>2. FlagsOK(jobs, job', scopeOp') BY <1>9, <1>11, <2>1 DEF Exact, FlagsOK
  <2>3. WholeOK(jobs, job', scopeOp') BY <1>9, <1>11 DEF Exact, WholeOK
  <2> QED BY <1>9, <2>2, <2>3 DEF Exact
<1>13. Steady(jobs, job, jobs, job') BY <1>7, <1>9, SteadyThenSteady
<1> QED BY <1>6, <1>12, <1>13

\* Reads come and go without a trace in the other accounts.
LEMMA ReaderAccounts ==
    ASSUME ScopePurgeInvariant, Exact(jobs, job, scopeOp), NEW x \in Readers,
           AcquireMedia(x) \/ StatusAnswers(x) \/ ReleaseMedia(x)
    PROVE  /\ Exact(jobs', job', scopeOp') /\ jobs' = jobs
           /\ \A r \in Current(jobs) : job'[r].cancellation = job[r].cancellation
<1> DEFINE r == reader[x].obj
           o == job[r]
           fresh == [o EXCEPT !.outlived = FALSE]
           touched == IF o.state = "completed" THEN fresh ELSE o
           Step(p) == \E next : ReaderStep(x, p, next)
           Traceless(p) == \E k \in JobRecord, n \in Nat :
                            /\ Conserves(o, k) /\ p = [k EXCEPT !.reads = n]
                            /\ k.cancellation = o.cancellation
<1>1. Good(jobs, job, queue, scopeOp) BY InvariantParts
<1>2. ASSUME r \in Objs
      PROVE  /\ o \in JobRecord /\ touched \in JobRecord /\ fresh \in JobRecord
             /\ Conserves(o, o) /\ Conserves(o, touched) /\ Conserves(o, fresh)
             /\ fresh.cancellation = o.cancellation
             /\ touched.cancellation = o.cancellation
             /\ touched.reads \in Nat /\ o.reads \in Nat /\ fresh.reads \in Nat
  <2>1. o \in JobRecord BY <1>1, <1>2 DEF Good, Types
  <2>2. /\ fresh \in JobRecord /\ Conserves(o, fresh)
        /\ fresh.cancellation = o.cancellation
    BY <2>1 DEF JobRecord, Conserves, Watched
  <2>3. \A k \in JobRecord : k.reads \in Nat BY DEF JobRecord
  <2> HIDE DEF fresh
  <2> QED BY <2>1, <2>2, <2>3, ConservesIsReflexive
<1>3. \E p : Step(p) /\ (r \in Objs => Traceless(p))
  <2>0. \A k \in JobRecord : k = [k EXCEPT !.reads = k.reads] BY DEF JobRecord
  <2>1. CASE AcquireMedia(x)
    <3>1. \/ Step([touched EXCEPT !.reads = @ + 1]) \/ Step(touched)
      BY <2>1 DEF AcquireMedia
    <3> HIDE DEF touched, fresh, o, r, Step
    <3>2. r \in Objs => Traceless(touched)
      BY <1>2, <2>0
    <3>3. r \in Objs => Traceless([touched EXCEPT !.reads = @ + 1])
      <4> SUFFICES ASSUME r \in Objs PROVE Traceless([touched EXCEPT !.reads = @ + 1])
        OBVIOUS
      <4>1. touched.reads + 1 \in Nat BY <1>2
      <4> QED BY <1>2, <4>1
    <3> QED BY <3>1, <3>2, <3>3
  <2>2. CASE StatusAnswers(x)
    <3>1. Step(fresh) \/ Step(o) BY <2>2 DEF StatusAnswers
    <3> HIDE DEF touched, fresh, o, r, Step
    <3> QED BY <1>2, <2>0, <3>1
  <2>3. CASE ReleaseMedia(x)
    <3> DEFINE n == IF o.reads > 0 THEN o.reads - 1 ELSE 0
    <3>1. Step([o EXCEPT !.reads = n]) \/ Step(o)
      BY <2>3 DEF ReleaseMedia
    <3>2. r \in Objs => n \in Nat BY <1>2
    <3> HIDE DEF touched, fresh, o, r, Step, n
    <3> QED BY <1>2, <2>0, <3>1, <3>2
  <2> QED BY <2>1, <2>2, <2>3
<1>4. PICK p : Step(p) /\ (r \in Objs => Traceless(p)) BY <1>3
<1> DEFINE j == [job EXCEPT ![r] = p]
<1>5. jobs' = jobs /\ scopeOp' = scopeOp /\ job' = Collected(jobs, j)
  BY <1>4 DEF ReaderStep
<1> HIDE DEF touched, fresh, Step
<1>6. Exact(jobs, j, scopeOp) BY <1>1, <1>4, ReadsAreNoMatter
<1>7. r \in Objs => p \in JobRecord /\ p.cancellation = o.cancellation
  BY <1>4 DEF JobRecord
<1>8. j \in [Objs -> JobRecord] BY <1>1, <1>7 DEF Good, Types
<1>9. \A s \in Objs : j[s].cancellation = job[s].cancellation
  BY <1>1, <1>7 DEF Good, Types
<1> HIDE DEF j
<1>10. Exact(jobs, job', scopeOp)
  BY <1>1, <1>5, <1>6, <1>8, CollectingIsExact DEF Good, Types
<1>11. ASSUME NEW s \in Current(jobs)
       PROVE  job'[s].cancellation = job[s].cancellation
  <2>1. s \in Objs BY <1>1 DEF Good, Types, Current
  <2>2. job'[s] = j[s] BY <1>5, <1>8, <2>1, CollectedKeeps
  <2> QED BY <1>9, <2>1, <2>2
<1> QED BY <1>5, <1>10, <1>11

\* A scope purge goes from one stage to the next.
LEMMA ScopeMoveAccounts ==
    ASSUME ScopePurgeInvariant, Exact(jobs, job, scopeOp), NEW c \in Consumers,
           \/ ScopeExecutionsSettle(c) \/ ScopeReadsDrain(c) \/ ScopeVerifies(c)
           \/ ScopeVerified(c) \/ ScopeScavenges(c) \/ ScopeDetaches(c)
    PROVE  Exact(jobs', job', scopeOp') /\ Steady(jobs, job, jobs', job')
<1>1. Good(jobs, job, queue, scopeOp) BY InvariantParts
<1>2. /\ \E from, to : ScopeStep(c, from, to) /\ from # "idle" /\ to # "idle"
      /\ jobs' = jobs
      /\ job' = job \/ ScopeVerifies(c)
  BY DEF ScopeExecutionsSettle, ScopeReadsDrain, ScopeVerifies, ScopeVerified,
         ScopeScavenges, ScopeDetaches, scopeRest
<1>3. \A d \in Consumers : /\ scopeOp'[d].pc # "idle" <=> scopeOp[d].pc # "idle"
                           /\ scopeOp'[d].job = scopeOp[d].job
                           /\ scopeOp'[d].scope = scopeOp[d].scope
  BY <1>1, <1>2 DEF ScopeStep, Good, Types, Operations
<1>4. Exact(jobs, job, scopeOp') BY <1>1, <1>3, MovingIsExact
<1>5. CASE job' = job
  <2>1. Steady(jobs, job, jobs, job) BY DEF Steady
  <2> QED BY <1>2, <1>4, <1>5, <2>1
<1>6. CASE ScopeVerifies(c)
  <2> DEFINE r == scopeOp[c].job
             p == [job[r] EXCEPT !.verification = TRUE]
  <2>1. r \in Objs => Conserves(job[r], p)
    BY <1>1 DEF Good, Types, JobRecord, Conserves, Watched
  <2>2. job' = [job EXCEPT ![r] = p] BY <1>1, <1>6 DEF ScopeVerifies, Good, Types
  <2>3. Good(jobs, job, queue, scopeOp') BY <1>6, ScopeMoves DEF ScopeVerifies
  <2> HIDE DEF r, p
  <2> QED BY <1>2, <1>4, <2>1, <2>2, <2>3, OneConserves
<1> QED BY <1>2, <1>5, <1>6

\* A scope purge that gives up leaves no flag behind.
LEMMA ScopeGivesUpAccounts ==
    ASSUME ScopePurgeInvariant, Exact(jobs, job, scopeOp), NEW c \in Consumers,
           ScopeTimeout(c) \/ ScopeInvalid(c) \/ ScopeFilesFail(c)
    PROVE  Exact(jobs', job', scopeOp') /\ Steady(jobs, job, jobs', job')
<1> DEFINE scope == scopeOp[c].scope
           Released(s) == [job[s] EXCEPT !.consumerPurging = FALSE]
<1>1. Good(jobs, job, queue, scopeOp) BY InvariantParts
<1>2. ScopeGivesUp(c) /\ scopeOp[c].pc # "idle"
  BY DEF ScopeTimeout, ScopeInvalid, ScopeFilesFail
<1>3. /\ scopeOp'[c] = Idle /\ \A d \in Consumers \ {c} : scopeOp'[d] = scopeOp[d]
      /\ jobs' = jobs
  BY <1>1, <1>2 DEF ScopeGivesUp, Good, Types, Operations
<1>4. job' = [s \in Objs |-> IF s \in scope \cap Current(jobs) THEN Released(s)
                             ELSE job[s]]
  BY <1>2 DEF ScopeGivesUp
<1>5. ASSUME NEW s \in Objs
      PROVE  /\ job'[s].id = job[s].id /\ job'[s].state = job[s].state
             /\ job'[s].reads = job[s].reads
             /\ job'[s].purging = job[s].purging
             /\ job'[s].purgeOperation = job[s].purgeOperation
             /\ job'[s].cancellation = job[s].cancellation
             /\ job'[s].enforced = job[s].enforced
             /\ job'[s].leases = job[s].leases
             /\ job'[s].consumerPurging =>
                    job[s].consumerPurging /\ s \notin scope \cap Current(jobs)
  <2>1. job[s] \in JobRecord BY <1>1 DEF Good, Types
  <2>2. CASE s \in scope \cap Current(jobs)
    <3>1. job'[s] = Released(s) BY <1>4, <2>2
    <3> QED BY <2>1, <3>1 DEF JobRecord
  <2>3. CASE s \notin scope \cap Current(jobs)
    <3>1. job'[s] = job[s] BY <1>4, <2>3
    <3> QED BY <2>3, <3>1
  <2> QED BY <2>2, <2>3
<1>6. Current(jobs) \subseteq Objs BY <1>1 DEF Good, Types, Current
<1>7. PinOK(jobs, job') BY <1>5 DEF Exact, PinOK
<1>8. FlagsOK(jobs, job', scopeOp')
  <2> SUFFICES ASSUME NEW s \in Current(jobs)
      PROVE /\ job'[s].purging <=> job'[s].purgeOperation # "none"
            /\ job'[s].consumerPurging =>
                /\ scopeOp'[Consumer(job'[s])].pc # "idle"
                /\ s \in scopeOp'[Consumer(job'[s])].scope
    BY DEF FlagsOK
  <2>1. s \in Objs /\ Consumer(job'[s]) = Consumer(job[s])
    BY <1>5, <1>6 DEF Consumer
  <2>2. Consumer(job[s]) \in Consumers
    BY <1>1, <2>1, OwnershipAssumption DEF Good, Types, Consumer, JobRecord
  <2>3. Consumer(job[s]) = c => s \in scope BY <1>2 DEF Exact, WholeOK
  <2>4. job'[s].consumerPurging => Consumer(job[s]) # c BY <1>5, <2>1, <2>3
  <2> HIDE DEF scope
  <2> QED BY <1>3, <1>5, <2>1, <2>2, <2>4 DEF Exact, FlagsOK
<1>9. WholeOK(jobs, job', scopeOp')
  <2>1. \A d \in Consumers : scopeOp'[d].pc # "idle" =>
            d # c /\ scopeOp'[d] = scopeOp[d]
    BY <1>3 DEF Idle
  <2> QED BY <1>5, <1>6, <2>1 DEF Exact, WholeOK, Consumer
<1>10. DisjointOK(jobs, job') BY <1>5, <1>6 DEF Exact, DisjointOK, Consumer
<1>11. WatchedOK(jobs, job') BY <1>5, <1>6 DEF Exact, WatchedOK, Watched
<1>12. Steady(jobs, job, jobs, job') BY <1>5 DEF Steady
<1> QED BY <1>3, <1>7, <1>8, <1>9, <1>10, <1>11, <1>12 DEF Exact

\* A scope purge that is over takes its records out of the map.
LEMMA ScopeRemovedAccounts ==
    ASSUME ScopePurgeInvariant, Exact(jobs, job, scopeOp), NEW c \in Consumers,
           NEW ok \in BOOLEAN, ScopeRemoved(c, ok)
    PROVE  Exact(jobs', job', scopeOp') /\ Steady(jobs, job, jobs', job')
<1> DEFINE js == [i \in Ids |-> IF jobs[i] \in scopeOp[c].scope THEN NoObj ELSE jobs[i]]
<1>1. Good(jobs, job, queue, scopeOp) /\ scopeOp[c].pc = "removing"
  BY InvariantParts DEF ScopeRemoved
<1>2. /\ scopeOp'[c] = Idle /\ \A d \in Consumers \ {c} : scopeOp'[d] = scopeOp[d]
      /\ jobs' = js /\ job' = Collected(js, job)
  BY <1>1 DEF ScopeRemoved, Good, Types, Operations
<1>3. \A k \in Ids : js[k] = IF jobs[k] \in scopeOp[c].scope THEN NoObj ELSE jobs[k]
  OBVIOUS
<1> HIDE DEF js
<1>4. \A s \in Objs : \/ job'[s] = job[s]
                      \/ /\ job'[s] = Blank /\ s \notin Current(js)
                         /\ job[s].purgeOperation = "none" /\ job[s].reads = 0
  BY <1>1, <1>2, CollectedKeeps DEF Good, Types
<1>5. \A s \in Current(js) : /\ s \in Current(jobs) /\ s \in Objs
                             /\ s \notin scopeOp[c].scope /\ job'[s] = job[s]
  BY <1>1, <1>3, <1>4 DEF Current, Good, Types
<1>6. ASSUME NEW s \in Objs, job'[s].purgeOperation # "none"
      PROVE  js[job'[s].id] = s
  <2>1. job'[s] = job[s] BY <1>4, <1>6, CollectedKeeps, <1>1 DEF Good, Types
  <2>2. jobs[job[s].id] = s /\ job[s].id \in Ids
    BY <1>1, <1>6, <2>1 DEF Exact, PinOK, Good, Types, JobRecord
  <2>3. s \notin scopeOp[c].scope BY <1>1, <1>6, <2>1 DEF Good, HeldOK
  <2> QED BY <1>3, <2>1, <2>2, <2>3
<1>7. FlagsOK(js, job', scopeOp')
  <2> SUFFICES ASSUME NEW s \in Current(js)
      PROVE /\ job'[s].purging <=> job'[s].purgeOperation # "none"
            /\ job'[s].consumerPurging =>
                /\ scopeOp'[Consumer(job'[s])].pc # "idle"
                /\ s \in scopeOp'[Consumer(job'[s])].scope
    BY DEF FlagsOK
  <2>1. /\ s \in Current(jobs) /\ s \in Objs /\ s \notin scopeOp[c].scope
        /\ job'[s] = job[s]
    BY <1>5
  <2>2. Consumer(job[s]) \in Consumers
    BY <1>1, <2>1, OwnershipAssumption DEF Good, Types, Consumer, JobRecord
  <2>3. Consumer(job[s]) # c BY <1>1, <2>1 DEF Exact, WholeOK
  <2> QED BY <1>2, <2>1, <2>2, <2>3 DEF Exact, FlagsOK
<1>8. WholeOK(js, job', scopeOp')
  <2>1. \A d \in Consumers : scopeOp'[d].pc # "idle" =>
            d # c /\ scopeOp'[d] = scopeOp[d]
    BY <1>2 DEF Idle
  <2> QED BY <1>5, <2>1 DEF Exact, WholeOK
<1>9. DisjointOK(js, job') BY <1>5 DEF Exact, DisjointOK
<1>10. WatchedOK(js, job') BY <1>5 DEF Exact, WatchedOK
<1>11. \A s \in Objs : job'[s].reads = job[s].reads
  BY <1>1, <1>4, CollectedKeeps DEF Good, Types
<1>12. Steady(jobs, job, js, job') BY <1>5, <1>11 DEF Steady
<1> QED BY <1>2, <1>6, <1>7, <1>8, <1>9, <1>10, <1>12 DEF Exact, PinOK

\* Shutdown cancels what is not over, the first reason standing.
LEMMA CloseAccounts ==
    ASSUME ScopePurgeInvariant, Exact(jobs, job, scopeOp), Close
    PROVE  Exact(jobs', job', scopeOp') /\ Steady(jobs, job, jobs', job')
<1> DEFINE Final(r) == FinalizeCancellation(job[r], "engine-shutdown")
           Calm(r) == [Final(r) EXCEPT !.deadlineTimer = FALSE]
<1>1. Good(jobs, job, queue, scopeOp) BY InvariantParts
<1>2. ASSUME NEW r \in Objs PROVE Conserves(job[r], FinishObserverLeases(Calm(r)))
  <2>1. job[r] \in JobRecord /\ RecordIsConsistent(job[r]) BY <1>1 DEF Good, Types
  <2>2. Touches(job[r], Final(r)) /\ Conserves(job[r], Final(r))
    BY <2>1, FinalizeTouches, FinalizeConserves DEF Reasons
  <2>3. TerminalJob(Final(r))
    <3>1. CASE TerminalJob(job[r]) \/ job[r].cancellation # "none"
      BY <2>1, <3>1 DEF FinalizeCancellation, RecordIsConsistent, TerminalJob, Terminal
    <3>2. CASE ~(TerminalJob(job[r]) \/ job[r].cancellation # "none")
      BY <2>1, <3>2
      DEF FinalizeCancellation, FinishObserverLeases, TerminalJob, Terminal, JobRecord
    <3> QED BY <3>1, <3>2
  <2> HIDE DEF Final
  <2>4. Final(r) \in JobRecord BY <2>2 DEF Touches
  <2>5. Calm(r) \in JobRecord /\ Conserves(Final(r), Calm(r)) /\ TerminalJob(Calm(r))
    BY <2>3, <2>4 DEF JobRecord, Conserves, Watched, TerminalJob
  <2> HIDE DEF Calm
  <2>6. Conserves(Calm(r), FinishObserverLeases(Calm(r))) BY <2>5, FinishConserves
  <2> QED BY <2>2, <2>5, <2>6, ConservesIsTransitive
<1>3. job' = [r \in Objs |-> IF r \in Current(jobs) THEN FinishObserverLeases(Calm(r))
                             ELSE job[r]]
      /\ jobs' = jobs /\ scopeOp' = scopeOp
  BY DEF Close
<1> HIDE DEF Calm
<1>4. \A r \in Objs : Conserves(job[r], job'[r])
  BY <1>2, <1>3, ConservesIsReflexive
<1> QED BY <1>1, <1>3, <1>4, ConservingIsExact

\* A process that starts has nothing to account for.
LEMMA EmptyIsExact ==
    Exact([i \in Ids |-> NoObj], [r \in Objs |-> Blank], [c \in Consumers |-> Idle])
<1> DEFINE js == [i \in Ids |-> NoObj]
           j == [r \in Objs |-> Blank]
           ops == [c \in Consumers |-> Idle]
<1>1. Current(js) = {} BY DEF Current
<1>2. \A c \in Consumers : ops[c].pc = "idle" BY DEF Idle
<1>3. \A r \in Objs : j[r].purgeOperation = "none"
  <2>1. Blank.purgeOperation = "none" BY DEF Blank
  <2> QED BY <2>1
<1> HIDE DEF js, j, ops
<1> QED BY <1>1, <1>2, <1>3
    DEF Exact, PinOK, FlagsOK, WholeOK, DisjointOK, WatchedOK, js, j, ops

-----------------------------------------------------------------------------
(* Every step *)

\* The steps that open or close a read.
ReaderMoves == \E x \in Readers : AcquireMedia(x) \/ StatusAnswers(x) \/ ReleaseMedia(x)

\* The steps that start or end a verification some reader waits for.
ReaderWaits ==
    \/ \E x \in Readers, i \in Ids, kind \in {"media", "status"} : RequestMedia(x, i, kind)
    \/ \E r \in Objs, ok \in BOOLEAN : VerificationSettles(r, ok)

\* No step breaks the accounts; readers and restarts apart, none moves a read.
LEMMA AccountsAreKept ==
    ASSUME ScopePurgeInvariant, Exact(jobs, job, scopeOp), [Next]_vars
    PROVE  /\ Exact(jobs', job', scopeOp')
           /\ \/ /\ Steady(jobs, job, jobs', job')
                 /\ reader' = reader \/ ReaderWaits
              \/ ReaderMoves
              \/ Restart
<1> DEFINE Kept == Exact(jobs', job', scopeOp') /\ Steady(jobs, job, jobs', job')
           Goal == /\ Exact(jobs', job', scopeOp')
                   /\ \/ /\ Steady(jobs, job, jobs', job')
                         /\ reader' = reader \/ ReaderWaits
                      \/ ReaderMoves
                      \/ Restart
<1> SUFFICES Goal OBVIOUS
<1>1. CASE ClientStep
  <2>1. CASE Get
    <3>1. reader' = reader BY <2>1 DEF Get, EvictExpired
    <3> QED BY <2>1, <3>1, EvictingAccounts
  <2>2. ASSUME NEW i \in Ids, Create(i) \/ CreateRefused(i) \/ Cancel(i) PROVE Goal
    <3>1. reader' = reader BY <2>2 DEF Create, CreateRefused, Cancel, UpdateJob
    <3>2. Kept BY <2>2, CreateAccounts, EvictingAccounts, ClientUpdateAccounts
    <3> QED BY <3>1, <3>2
  <2>3. ASSUME NEW i \in Ids, NEW w \in Observers, Observe(i, w) \/ RenewObserver(i, w)
        PROVE  Goal
    <3>1. reader' = reader BY <2>3 DEF Observe, RenewObserver, UpdateJob
    <3>2. Kept BY <2>3, EvictingAccounts, ClientUpdateAccounts
    <3> QED BY <3>1, <3>2
  <2>4. ASSUME NEW x \in Readers, NEW i \in Ids, NEW kind \in {"media", "status"},
               RequestMedia(x, i, kind)
        PROVE  Goal
    <3>1. ReaderWaits BY <2>4 DEF ReaderWaits
    <3>2. Kept BY <2>4, EvictingAccounts
    <3> QED BY <3>1, <3>2
  <2>5. ASSUME NEW x \in Readers, AcquireMedia(x) \/ StatusAnswers(x) \/ ReleaseMedia(x)
        PROVE  Goal
    <3>1. ReaderMoves BY <2>5 DEF ReaderMoves
    <3>2. Exact(jobs', job', scopeOp') BY <2>5, ReaderAccounts
    <3> QED BY <3>1, <3>2
  <2>6. ASSUME NEW i \in Ids, Purge(i) \/ PurgeConsumerCache(i) PROVE Goal
    <3>1. reader' = reader BY <2>6 DEF Purge, PurgeConsumerCache
    <3>2. Kept BY <2>6, PurgeAccounts, PurgeConsumerCacheAccounts
    <3> QED BY <3>1, <3>2
  <2> HIDE DEF Goal
  <2> QED BY <1>1, <2>1, <2>2, <2>3, <2>4, <2>5, <2>6, BoundAssumption DEF ClientStep
<1>2. ASSUME NEW r \in Objs, RecordStep(r) PROVE Goal
  <2>1. ASSUME \E outcome \in {"completed", "failed"} : RunnerSettles(r, outcome)
        PROVE  Goal
    <3>1. reader' = reader BY <2>1 DEF RunnerSettles
    <3>2. Kept BY <2>1, RunnerSettlesAccounts
    <3> QED BY <3>1, <3>2
  <2>2. ASSUME \E ok \in BOOLEAN : VerificationSettles(r, ok) PROVE Goal
    <3>1. ReaderWaits BY <2>2 DEF ReaderWaits
    <3>2. Kept BY <2>2, VerificationAccounts
    <3> QED BY <3>1, <3>2
  <2>3. ASSUME PurgeCompletes(r) PROVE Goal
    <3>1. reader' = reader BY <2>3 DEF PurgeCompletes
    <3>2. Kept BY <2>3, PurgeCompletesAccounts
    <3> QED BY <3>1, <3>2
  <2>4. ASSUME \/ ObserverLeaseTimer(r) \/ ExecutionDeadline(r) \/ RunnerPublishes(r)
               \/ PurgeDrained(r) \/ PurgeDrainTimeout(r) \/ PurgeVerified(r)
               \/ PurgeUnlinks(r) \/ PurgeUnlinkFails(r)
        PROVE  Goal
    <3>1. reader' = reader
      BY <2>4 DEF ObserverLeaseTimer, ExecutionDeadline, RunnerPublishes, PurgeDrained,
                  PurgeDrainTimeout, PurgeVerified, PurgeUnlinks, PurgeUnlinkFails,
                  UpdateJob, PurgeStep
    <3>2. Kept BY <2>4, RecordAccounts
    <3> QED BY <3>1, <3>2
  <2> HIDE DEF Goal
  <2> QED BY <1>2, <2>1, <2>2, <2>3, <2>4 DEF RecordStep
<1>3. ASSUME NEW c \in Consumers, ScopePurgeStep(c) PROVE Goal
  <2>1. reader' = reader
    BY <1>3 DEF ScopePurgeStep, ScopeExecutionsSettle, ScopeReadsDrain, ScopeTimeout,
       ScopeVerifies, ScopeVerified, ScopeInvalid, ScopeScavenges, ScopeDetaches,
       ScopeFilesFail, ScopeRemoved, ScopeGivesUp, scopeRest
  <2>2. Kept
    BY <1>3, ScopeMoveAccounts, ScopeGivesUpAccounts, ScopeRemovedAccounts
    DEF ScopePurgeStep
  <2> QED BY <2>1, <2>2
<1>4. CASE TimeStep
  <2>1. reader' = reader
    BY <1>4 DEF TimeStep, Outlive, LeaseLapses, TombstoneOutlives, timeRest
  <2>2. Steady(jobs, job, jobs, job) BY DEF Steady
  <2>3. ASSUME NEW r \in Objs, Outlive(r) \/ \E w \in Observers : LeaseLapses(r, w)
        PROVE  Kept
    BY <2>3, RecordAccounts
  <2>4. ASSUME NEW i \in Ids, TombstoneOutlives(i) PROVE Kept
    BY <2>2, <2>4 DEF TombstoneOutlives, timeRest
  <2>5. Kept
    <3> HIDE DEF Kept
    <3> QED BY <1>4, <2>3, <2>4 DEF TimeStep
  <2> QED BY <2>1, <2>5
<1>5. CASE EngineStep
  <2>1. CASE Close
    <3>1. reader' = reader BY <2>1 DEF Close
    <3> QED BY <2>1, <3>1, CloseAccounts
  <2>2. CASE Restart
    <3>1. Exact(jobs', job', scopeOp') BY <2>2, EmptyIsExact DEF Restart
    <3> QED BY <2>2, <3>1
  <2>3. ASSUME NEW S \in SUBSET Consumers, Scavenge(S) PROVE Goal
    <3>1. Steady(jobs, job, jobs, job) BY DEF Steady
    <3> QED BY <2>3, <3>1 DEF Scavenge
  <2> HIDE DEF Goal
  <2> QED BY <1>5, <2>1, <2>2, <2>3 DEF EngineStep
<1>6. CASE UNCHANGED vars
  <2>1. Steady(jobs, job, jobs, job) BY DEF Steady
  <2> QED BY <1>6, <2>1 DEF vars
<1> HIDE DEF Goal
<1> QED BY <1>1, <1>2, <1>3, <1>4, <1>5, <1>6 DEF Next

-----------------------------------------------------------------------------
(* Reads *)

ReadersOf(r) == {x \in Readers : reader[x].pc = "reading" /\ reader[x].obj = r}

\* The counter is the number of open reads, which is finite however many
\* readers there are.
ReadsCounted ==
    \A r \in Objs : /\ IsFiniteSet(ReadersOf(r))
                    /\ job[r].reads = Cardinality(ReadersOf(r))

\* The collector and the change of one record leave the other counters alone.
LEMMA ReaderStepReads ==
    ASSUME ScopePurgeInvariant, NEW x \in Readers, NEW o, NEW next,
           ReaderStep(x, o, next), reader[x].obj \in Objs => o \in JobRecord
    PROVE  /\ \A r \in Objs : job'[r].reads =
                    IF r = reader[x].obj THEN o.reads ELSE job[r].reads
           /\ reader'[x] = next /\ \A y \in Readers \ {x} : reader'[y] = reader[y]
<1> DEFINE j == [job EXCEPT ![reader[x].obj] = o]
<1>1. job \in [Objs -> JobRecord] BY DEF ScopePurgeInvariant, TypeOK
<1>2. /\ j \in [Objs -> JobRecord]
      /\ \A r \in Objs : j[r] = IF r = reader[x].obj THEN o ELSE job[r]
  BY <1>1
<1>3. job' = Collected(jobs, j) BY DEF ReaderStep
<1> HIDE DEF j
<1>4. \A r \in Objs : job'[r].reads = j[r].reads BY <1>2, <1>3, CollectedKeeps
<1>5. DOMAIN reader = Readers BY DEF ScopePurgeInvariant, TypeOK
<1>6. reader'[x] = next /\ \A y \in Readers \ {x} : reader'[y] = reader[y]
  BY <1>5 DEF ReaderStep
<1> QED BY <1>2, <1>4, <1>6

\* A reader that comes or goes without a lease changes no counter,
LEMMA NoReadIsCounted ==
    ASSUME ScopePurgeInvariant, ReadsCounted, NEW x \in Readers, NEW o, NEW next,
           ReaderStep(x, o, next), reader[x].pc = "reading" => reader[x].obj \notin Objs,
           next.pc = "reading" => next.obj \notin Objs,
           reader[x].obj \in Objs => o \in JobRecord /\ o.reads = job[reader[x].obj].reads
    PROVE  ReadsCounted'
<1> DEFINE now(s) == {y \in Readers : reader'[y].pc = "reading" /\ reader'[y].obj = s}
<1>1. /\ \A s \in Objs : job'[s].reads = job[s].reads
      /\ reader'[x] = next /\ \A y \in Readers \ {x} : reader'[y] = reader[y]
  BY ReaderStepReads
<1>2. \A s \in Objs : now(s) = ReadersOf(s) BY <1>1 DEF ReadersOf
<1> HIDE DEF now
<1>3. \A s \in Objs : IsFiniteSet(now(s)) /\ job'[s].reads = Cardinality(now(s))
  BY <1>1, <1>2 DEF ReadsCounted
<1> QED BY <1>3 DEF ReadsCounted, ReadersOf, now

\* one that takes a lease is counted,
LEMMA ReadIsCounted ==
    ASSUME ScopePurgeInvariant, ReadsCounted, NEW x \in Readers, NEW o, NEW next,
           NEW r \in Objs, r = reader[x].obj,
           ReaderStep(x, o, next), reader[x].pc # "reading", next.pc = "reading",
           next.obj = r, o \in JobRecord, o.reads = job[r].reads + 1
    PROVE  ReadsCounted'
<1> DEFINE now(s) == {y \in Readers : reader'[y].pc = "reading" /\ reader'[y].obj = s}
<1>1. /\ \A s \in Objs : job'[s].reads = IF s = r THEN o.reads ELSE job[s].reads
      /\ reader'[x] = next /\ \A y \in Readers \ {x} : reader'[y] = reader[y]
  BY ReaderStepReads
<1>2. \A s : s # r => now(s) = ReadersOf(s) BY <1>1 DEF ReadersOf
<1>3. now(r) = ReadersOf(r) \cup {x} /\ x \notin ReadersOf(r) BY <1>1 DEF ReadersOf
<1> HIDE DEF now
<1>4. IsFiniteSet(ReadersOf(r)) /\ job[r].reads = Cardinality(ReadersOf(r))
  BY DEF ReadsCounted
<1>5. IsFiniteSet(now(r)) /\ Cardinality(now(r)) = Cardinality(ReadersOf(r)) + 1
  BY <1>3, <1>4, FS_AddElement
<1>6. \A s \in Objs : IsFiniteSet(now(s)) /\ job'[s].reads = Cardinality(now(s))
  BY <1>1, <1>2, <1>4, <1>5 DEF ReadsCounted
<1> QED BY <1>6 DEF ReadsCounted, ReadersOf, now

\* and one that lets go of it is no longer.
LEMMA ReadIsUncounted ==
    ASSUME ScopePurgeInvariant, ReadsCounted, NEW x \in Readers, NEW o, NEW next,
           NEW r \in Objs, r = reader[x].obj,
           ReaderStep(x, o, next), reader[x].pc = "reading", next.pc # "reading",
           o \in JobRecord, job[r].reads > 0 => o.reads = job[r].reads - 1
    PROVE  ReadsCounted'
<1> DEFINE now(s) == {y \in Readers : reader'[y].pc = "reading" /\ reader'[y].obj = s}
<1>1. /\ \A s \in Objs : job'[s].reads = IF s = r THEN o.reads ELSE job[s].reads
      /\ reader'[x] = next /\ \A y \in Readers \ {x} : reader'[y] = reader[y]
  BY ReaderStepReads
<1>2. \A s : s # r => now(s) = ReadersOf(s) BY <1>1 DEF ReadersOf
<1>3. now(r) = ReadersOf(r) \ {x} /\ x \in ReadersOf(r) BY <1>1 DEF ReadersOf
<1> HIDE DEF now
<1>4. IsFiniteSet(ReadersOf(r)) /\ job[r].reads = Cardinality(ReadersOf(r))
  BY DEF ReadsCounted
<1>5. IsFiniteSet(now(r)) /\ Cardinality(now(r)) = Cardinality(ReadersOf(r)) - 1
  BY <1>3, <1>4, FS_RemoveElement
<1>6. Cardinality(now(r)) \in Nat /\ Cardinality(ReadersOf(r)) \in Nat
  BY <1>4, <1>5, FS_CardinalityType
<1>7. job[r].reads > 0 BY <1>4, <1>5, <1>6
<1>8. \A s \in Objs : IsFiniteSet(now(s)) /\ job'[s].reads = Cardinality(now(s))
  BY <1>1, <1>2, <1>4, <1>5, <1>7 DEF ReadsCounted
<1> QED BY <1>8 DEF ReadsCounted, ReadersOf, now

\* An acquisition counts one read more, a release one less, once.
LEMMA ReaderMovesReads ==
    ASSUME ScopePurgeInvariant, ReadsCounted, NEW x \in Readers,
           AcquireMedia(x) \/ StatusAnswers(x) \/ ReleaseMedia(x)
    PROVE  ReadsCounted'
<1> DEFINE r == reader[x].obj
           o == job[r]
           fresh == [o EXCEPT !.outlived = FALSE]
           touched == IF o.state = "completed" THEN fresh ELSE o
           read == [touched EXCEPT !.reads = @ + 1]
           released == [o EXCEPT !.reads = IF @ > 0 THEN @ - 1 ELSE 0]
           At(pc) == [reader[x] EXCEPT !.pc = pc]
<1>0. /\ IdleReader.pc = "idle"
      /\ At("reading").pc = "reading" /\ At("reading").obj = r
      /\ At("released").pc = "released"
  BY DEF ScopePurgeInvariant, TypeOK, IdleReader
<1>1. ASSUME r \in Objs
      PROVE  /\ o \in JobRecord /\ fresh \in JobRecord /\ touched \in JobRecord
             /\ read \in JobRecord /\ released \in JobRecord
             /\ fresh.reads = o.reads /\ touched.reads = o.reads
             /\ read.reads = o.reads + 1
             /\ o.reads > 0 => released.reads = o.reads - 1
  <2>1. o \in JobRecord BY <1>1 DEF ScopePurgeInvariant, TypeOK
  <2>2. /\ fresh \in JobRecord /\ fresh.reads = o.reads /\ o.reads \in Nat
    BY <2>1 DEF JobRecord
  <2>5. IF o.reads > 0 THEN o.reads - 1 \in Nat ELSE 0 \in Nat BY <2>2
  <2>6. /\ released \in JobRecord
        /\ o.reads > 0 => released.reads = o.reads - 1
    BY <2>1, <2>5 DEF JobRecord
  <2> HIDE DEF fresh, released
  <2>3. touched \in JobRecord /\ touched.reads = o.reads BY <2>1, <2>2
  <2> HIDE DEF touched
  <2>4. read \in JobRecord /\ read.reads = o.reads + 1 BY <2>2, <2>3 DEF JobRecord
  <2> QED BY <2>1, <2>2, <2>3, <2>4, <2>6
<1>2. ASSUME ReaderStep(x, fresh, IdleReader), reader[x].pc # "reading"
      PROVE  ReadsCounted'
  <2> HIDE DEF fresh
  <2> QED BY <1>0, <1>1, <1>2, NoReadIsCounted
<1>3. ASSUME ReaderStep(x, o, IdleReader), reader[x].pc # "reading"
      PROVE  ReadsCounted'
  BY <1>0, <1>1, <1>3, NoReadIsCounted
<1>4. CASE AcquireMedia(x)
  <2>1. /\ reader[x].pc = "resolved"
        /\ \/ ReaderStep(x, read, At("reading"))
           \/ ReaderStep(x, touched, IdleReader)
    BY <1>4 DEF AcquireMedia
  <2> HIDE DEF read, touched, At
  <2>2. CASE ReaderStep(x, touched, IdleReader)
    BY <1>0, <1>1, <2>1, <2>2, NoReadIsCounted
  <2>3. CASE ReaderStep(x, read, At("reading")) /\ r \in Objs
    BY <1>0, <1>1, <2>1, <2>3, ReadIsCounted
  <2>4. CASE ReaderStep(x, read, At("reading")) /\ r \notin Objs
    BY <1>0, <2>1, <2>4, NoReadIsCounted
  <2> QED BY <2>1, <2>2, <2>3, <2>4
<1>5. CASE StatusAnswers(x) BY <1>2, <1>3, <1>5 DEF StatusAnswers
<1>6. CASE ReleaseMedia(x)
  <2>1. \/ reader[x].pc = "reading" /\ ReaderStep(x, released, At("released"))
        \/ reader[x].pc = "released" /\ ReaderStep(x, o, IdleReader)
    BY <1>6 DEF ReleaseMedia
  <2> HIDE DEF released, At
  <2>2. CASE /\ reader[x].pc = "reading" /\ r \in Objs
             /\ ReaderStep(x, released, At("released"))
    BY <1>0, <1>1, <2>2, ReadIsUncounted
  <2>3. CASE r \notin Objs /\ ReaderStep(x, released, At("released"))
    BY <1>0, <2>3, NoReadIsCounted
  <2> QED BY <1>3, <2>1, <2>2, <2>3
<1> QED BY <1>4, <1>5, <1>6

\* No step loses count of a read.
LEMMA ReadsAreKept ==
    ASSUME ScopePurgeInvariant, Exact(jobs, job, scopeOp), ReadsCounted, [Next]_vars
    PROVE  ReadsCounted'
<1> DEFINE now(s) == {y \in Readers : reader'[y].pc = "reading" /\ reader'[y].obj = s}
<1>1. ASSUME NEW s \in Objs
      PROVE  IsFiniteSet(ReadersOf(s)) /\ job[s].reads = Cardinality(ReadersOf(s))
  BY DEF ReadsCounted
<1>2. CASE Steady(jobs, job, jobs', job') /\ (reader' = reader \/ ReaderWaits)
  <2>1. ASSUME NEW y \in Readers
        PROVE  \/ reader'[y] = reader[y]
               \/ reader[y].pc # "reading" /\ reader'[y].pc # "reading"
    <3>1. reader \in [Readers -> [pc : {"idle", "media", "status", "resolved",
                                        "answering", "reading", "released"},
                                  id : Ids, obj : Objs \cup {NoObj}]]
      BY DEF ScopePurgeInvariant, TypeOK
    <3>2. ASSUME NEW x \in Readers, NEW i \in Ids, NEW kind \in {"media", "status"},
                 RequestMedia(x, i, kind)
          PROVE  \/ reader'[y] = reader[y]
                 \/ reader[y].pc # "reading" /\ reader'[y].pc # "reading"
      BY <3>1, <3>2 DEF RequestMedia
    <3>3. ASSUME NEW r \in Objs, NEW ok \in BOOLEAN, VerificationSettles(r, ok)
          PROVE  \/ reader'[y] = reader[y]
                 \/ reader[y].pc # "reading" /\ reader'[y].pc # "reading"
      BY <3>1, <3>3 DEF VerificationSettles
    <3> QED BY <1>2, <3>2, <3>3 DEF ReaderWaits
  <2>2. \A s : now(s) = ReadersOf(s) BY <2>1 DEF ReadersOf
  <2> HIDE DEF now
  <2>3. \A s \in Objs : IsFiniteSet(now(s)) /\ job'[s].reads = Cardinality(now(s))
    BY <1>1, <1>2, <2>2 DEF Steady
  <2> QED BY <2>3 DEF ReadsCounted, ReadersOf, now
<1>3. CASE ReaderMoves BY <1>3, ReaderMovesReads DEF ReaderMoves
<1>4. CASE Restart
  <2>1. \A s : now(s) = {} BY <1>4 DEF Restart, IdleReader
  <2>2. \A s \in Objs : job'[s].reads = 0 BY <1>4 DEF Restart, Blank
  <2> HIDE DEF now
  <2>3. \A s \in Objs : IsFiniteSet(now(s)) /\ job'[s].reads = Cardinality(now(s))
    BY <2>1, <2>2, FS_EmptySet
  <2> QED BY <2>3 DEF ReadsCounted, ReadersOf, now
<1> QED BY <1>2, <1>3, <1>4, AccountsAreKept

-----------------------------------------------------------------------------
(* Tombstones *)

\* At this id a record may go and a tombstone may fade, no more.
Wanes(i) ==
    /\ jobs'[i] # NoObj => jobs[i] # NoObj
    /\ purgeTombstones'[i] # "none" => purgeTombstones[i] # "none"
    /\ consumerPurgeTombstones'[i] # "none" => consumerPurgeTombstones[i] # "none"

\* Eviction only takes away.
LEMMA EvictionWanes ==
    ASSUME ScopePurgeInvariant
    PROVE  /\ \A i \in Ids : KeptJobs[i] # NoObj => jobs[i] # NoObj
           /\ \A i \in Ids : Unexpired(purgeTombstones)[i] # "none"
                                => purgeTombstones[i] # "none"
           /\ \A i \in Ids : Unexpired(consumerPurgeTombstones)[i] # "none"
                                => consumerPurgeTombstones[i] # "none"
           /\ \A js \in Roomier : js \in [Ids -> Objs \cup {NoObj}]
                /\ \A i \in Ids : js[i] # NoObj => jobs[i] # NoObj
<1>1. \A i \in Ids : KeptJobs[i] # NoObj => jobs[i] # NoObj BY DEF KeptJobs
<1>2. KeptJobs \in [Ids -> Objs \cup {NoObj}]
  BY DEF KeptJobs, ScopePurgeInvariant, TypeOK
<1>3. \A js \in Roomier : js \in [Ids -> Objs \cup {NoObj}]
                /\ \A i \in Ids : js[i] # NoObj => jobs[i] # NoObj
  BY <1>1, <1>2 DEF Roomier
<1> QED BY <1>1, <1>3 DEF Unexpired

\* A new record takes the tombstones of its id away with it.
LEMMA CreateTombstones ==
    ASSUME ScopePurgeInvariant, NEW i \in Ids, Create(i) \/ CreateRefused(i)
    PROVE  /\ \A k \in Ids \ {i} : Wanes(k)
           /\ purgeTombstones'[i] = "none" /\ consumerPurgeTombstones'[i] = "none"
<1>1. ForgetTombstones(i) BY DEF Create, CreateRefused
<1>2. /\ Unexpired(purgeTombstones) \in [Ids -> {"none", "fresh", "outlived"}]
      /\ Unexpired(consumerPurgeTombstones) \in [Ids -> {"none", "fresh", "outlived"}]
  BY DEF Unexpired, ScopePurgeInvariant, TypeOK
<1>3. \/ \E js \in Roomier, r \in Objs : jobs' = [js EXCEPT ![i] = r]
      \/ \E js \in Roomier : jobs' = js
  BY DEF Create, CreateRefused
<1>4. \A k \in Ids \ {i} : jobs'[k] # NoObj => jobs[k] # NoObj
  BY <1>3, EvictionWanes
<1> QED BY <1>1, <1>2, <1>4, EvictionWanes DEF ForgetTombstones, Wanes

\* No purge is answered from a tombstone while the record is there.
LEMMA TombstonesAreKept ==
    ASSUME ScopePurgeInvariant, Exact(jobs, job, scopeOp), TombstonesMeanGone,
           [Next]_vars
    PROVE  TombstonesMeanGone'
<1> USE DEF Wanes
<1>0. /\ jobs \in [Ids -> Objs \cup {NoObj}]
      /\ purgeTombstones \in [Ids -> {"none", "fresh", "outlived"}]
      /\ consumerPurgeTombstones \in [Ids -> {"none", "fresh", "outlived"}]
  BY DEF ScopePurgeInvariant, TypeOK
<1>1. ASSUME \A i \in Ids : Wanes(i) PROVE TombstonesMeanGone'
  BY <1>1 DEF TombstonesMeanGone
<1>2. ASSUME UNCHANGED <<jobs, purgeTombstones, consumerPurgeTombstones>>
      PROVE  TombstonesMeanGone'
  BY <1>2 DEF TombstonesMeanGone
<1>3. ASSUME jobs' = KeptJobs, EvictTombstones PROVE TombstonesMeanGone'
  BY <1>1, <1>3, EvictionWanes DEF EvictTombstones
<1>4. CASE ClientStep
  <2>1. CASE Get BY <1>3, <2>1 DEF Get, EvictExpired
  <2>2. ASSUME NEW i \in Ids, Create(i) \/ CreateRefused(i) PROVE TombstonesMeanGone'
    BY <2>2, CreateTombstones DEF TombstonesMeanGone
  <2>3. ASSUME NEW i \in Ids, Cancel(i) PROVE TombstonesMeanGone'
    BY <1>2, <2>3 DEF Cancel, UpdateJob
  <2>4. ASSUME NEW i \in Ids, NEW w \in Observers, Observe(i, w) \/ RenewObserver(i, w)
        PROVE  TombstonesMeanGone'
    BY <1>2, <1>3, <2>4 DEF Observe, RenewObserver, UpdateJob
  <2>5. ASSUME NEW x \in Readers, NEW i \in Ids, NEW kind \in {"media", "status"},
               RequestMedia(x, i, kind)
        PROVE  TombstonesMeanGone'
    BY <1>3, <2>5 DEF RequestMedia
  <2>6. ASSUME NEW x \in Readers, AcquireMedia(x) \/ StatusAnswers(x) \/ ReleaseMedia(x)
        PROVE  TombstonesMeanGone'
    BY <1>2, <2>6 DEF AcquireMedia, StatusAnswers, ReleaseMedia, ReaderStep
  <2>7. ASSUME NEW i \in Ids, Purge(i) \/ PurgeConsumerCache(i) PROVE TombstonesMeanGone'
    BY <1>3, <2>7 DEF Purge, PurgeConsumerCache
  <2> QED BY <1>4, <2>1, <2>2, <2>3, <2>4, <2>5, <2>6, <2>7, BoundAssumption
          DEF ClientStep
<1>5. ASSUME NEW r \in Objs, RecordStep(r) PROVE TombstonesMeanGone'
  <2>1. CASE PurgeCompletes(r)
    <3>1. /\ jobs' = [jobs EXCEPT ![job[r].id] = NoObj]
          /\ purgeTombstones' = [purgeTombstones EXCEPT ![job[r].id] = "fresh"]
          /\ UNCHANGED consumerPurgeTombstones
      BY <2>1 DEF PurgeCompletes
    <3> QED BY <1>0, <3>1 DEF TombstonesMeanGone
  <2>2. CASE ~PurgeCompletes(r)
    <3>1. UNCHANGED <<jobs, purgeTombstones, consumerPurgeTombstones>>
      BY <1>5, <2>2 DEF RecordStep, ObserverLeaseTimer, ExecutionDeadline,
         RunnerPublishes, RunnerSettles, VerificationSettles, PurgeDrained,
         PurgeDrainTimeout, PurgeVerified, PurgeUnlinks, PurgeUnlinkFails, UpdateJob,
         PurgeStep
    <3> QED BY <1>2, <3>1
  <2> QED BY <2>1, <2>2
<1>6. ASSUME NEW c \in Consumers, ScopePurgeStep(c) PROVE TombstonesMeanGone'
  <2>1. ASSUME NEW ok \in BOOLEAN, ScopeRemoved(c, ok) PROVE TombstonesMeanGone'
    <3> DEFINE r == scopeOp[c].job
               S == scopeOp[c].scope
    <3>1. /\ jobs' = [i \in Ids |-> IF jobs[i] \in S THEN NoObj ELSE jobs[i]]
          /\ purgeTombstones' = purgeTombstones
          /\ \/ consumerPurgeTombstones' = consumerPurgeTombstones
             \/ consumerPurgeTombstones' = [consumerPurgeTombstones EXCEPT
                                                ![job[r].id] = "fresh"]
          /\ scopeOp[c].pc = "removing"
      BY <2>1 DEF ScopeRemoved
    <3>2. r \in S /\ jobs[job[r].id] = r
      BY <3>1 DEF Exact, WholeOK, ScopePurgeInvariant, ScopeIsHeld
    <3> HIDE DEF r, S
    <3> QED BY <1>0, <3>1, <3>2 DEF TombstonesMeanGone
  <2>2. CASE \A ok \in BOOLEAN : ~ScopeRemoved(c, ok)
    <3>1. UNCHANGED <<jobs, purgeTombstones, consumerPurgeTombstones>>
      BY <1>6, <2>2 DEF ScopePurgeStep, ScopeExecutionsSettle, ScopeReadsDrain,
         ScopeTimeout, ScopeVerifies, ScopeVerified, ScopeInvalid, ScopeScavenges,
         ScopeDetaches, ScopeFilesFail, ScopeGivesUp, scopeRest
    <3> QED BY <1>2, <3>1
  <2> QED BY <2>1, <2>2
<1>7. CASE TimeStep
  <2>1. ASSUME NEW i \in Ids, TombstoneOutlives(i) PROVE TombstonesMeanGone'
    <3>1. /\ jobs' = jobs
          /\ \/ /\ purgeTombstones[i] = "fresh"
                /\ purgeTombstones' = [purgeTombstones EXCEPT ![i] = "outlived"]
                /\ UNCHANGED consumerPurgeTombstones
             \/ /\ consumerPurgeTombstones[i] = "fresh"
                /\ consumerPurgeTombstones' =
                        [consumerPurgeTombstones EXCEPT ![i] = "outlived"]
                /\ UNCHANGED purgeTombstones
      BY <2>1 DEF TombstoneOutlives, timeRest
    <3> QED BY <1>0, <1>1, <3>1
  <2>2. ASSUME NEW r \in Objs, Outlive(r) \/ \E w \in Observers : LeaseLapses(r, w)
        PROVE  TombstonesMeanGone'
    BY <1>2, <2>2 DEF Outlive, LeaseLapses, timeRest
  <2> QED BY <1>7, <2>1, <2>2 DEF TimeStep
<1>8. CASE EngineStep
  <2>1. CASE Close BY <1>2, <2>1 DEF Close
  <2>2. CASE Restart BY <2>2 DEF Restart, TombstonesMeanGone
  <2>3. ASSUME NEW S \in SUBSET Consumers, Scavenge(S) PROVE TombstonesMeanGone'
    BY <1>2, <2>3 DEF Scavenge
  <2> QED BY <1>8, <2>1, <2>2, <2>3 DEF EngineStep
<1>9. CASE UNCHANGED vars BY <1>2, <1>9 DEF vars
<1> QED BY <1>4, <1>5, <1>6, <1>7, <1>8, <1>9 DEF Next

-----------------------------------------------------------------------------
(* The quarantine *)

Reached == {"queued", "inspecting", "removing"}

Working == {"inspecting", "removing"}

Holds(t, x) == \E n \in 1..Len(t) : t[n] = x

Distinct(t) == \A m, n \in 1..Len(t) : t[m] = t[n] => m = n

\* The quarantine is in order, as a predicate of the chain, the purges and the
\* trees left behind.
Ordered(t, ops, left) ==
    /\ Distinct(t)
    /\ \A c \in Consumers :
        /\ left[c] \in 0..1
        /\ ops[c].pc = "inspecting" => left[c] = 0
        /\ ops[c].pc = "removing" => left[c] = 1
        /\ ops[c].pc \in Working => t # <<>> /\ Head(t) = c
        /\ ops[c].pc \in Reached <=> Holds(t, c)

\* It is what the property says.
LEMMA OrderedMeansSound ==
    /\ QuarantineIsSound <=> Ordered(quarantineTail, scopeOp, quarantined)
    /\ QuarantineIsSound' <=> Ordered(quarantineTail', scopeOp', quarantined')
  BY DEF QuarantineIsSound, LeftoversAreBounded, QuarantineIsSerial, Ordered, Distinct,
         Holds, Reached, Working

\* The chain loses its head,
LEMMA ChainAdvances ==
    ASSUME NEW S, NEW t \in Seq(S), t # <<>>, Distinct(t)
    PROVE  /\ Distinct(Tail(t)) /\ Holds(t, Head(t))
           /\ \A x : Holds(Tail(t), x) <=> Holds(t, x) /\ x # Head(t)
<1>1. /\ Len(t) \in Nat /\ Len(t) > 0 /\ Len(Tail(t)) = Len(t) - 1
      /\ \A n \in 1..Len(Tail(t)) : Tail(t)[n] = t[n + 1]
      /\ Head(t) = t[1]
  OBVIOUS
<1>2. Distinct(Tail(t)) BY <1>1 DEF Distinct
<1>3. Holds(t, Head(t)) BY <1>1 DEF Holds
<1>4. ASSUME NEW x, Holds(Tail(t), x) PROVE Holds(t, x) /\ x # Head(t)
  <2>1. PICK n \in 1..Len(Tail(t)) : t[n + 1] = x BY <1>1, <1>4 DEF Holds
  <2>2. n + 1 \in 1..Len(t) /\ n + 1 # 1 /\ 1 \in 1..Len(t) BY <1>1
  <2> QED BY <1>1, <2>1, <2>2 DEF Distinct, Holds
<1>5. ASSUME NEW x, Holds(t, x), x # Head(t) PROVE Holds(Tail(t), x)
  <2>1. PICK n \in 1..Len(t) : t[n] = x BY <1>5 DEF Holds
  <2>2. n # 1 BY <1>1, <1>5, <2>1
  <2>3. n - 1 \in 1..Len(Tail(t)) /\ (n - 1) + 1 = n BY <1>1, <2>2
  <2>4. Tail(t)[n - 1] = t[n] BY <1>1, <2>3
  <2> QED BY <2>1, <2>3, <2>4 DEF Holds
<1> QED BY <1>2, <1>3, <1>4, <1>5

\* or gains a newcomer at its end.
LEMMA ChainGrows ==
    ASSUME NEW S, NEW t \in Seq(S), NEW c \in S, Distinct(t), ~Holds(t, c)
    PROVE  /\ Distinct(Append(t, c)) /\ Append(t, c) # <<>>
           /\ \A x : Holds(Append(t, c), x) <=> Holds(t, x) \/ x = c
           /\ t # <<>> => Head(Append(t, c)) = Head(t)
<1> DEFINE t2 == Append(t, c)
<1>1. /\ Len(t) \in Nat /\ Len(t2) = Len(t) + 1 /\ t2[Len(t) + 1] = c
      /\ \A n \in 1..Len(t) : t2[n] = t[n]
  OBVIOUS
<1>2. t # <<>> => Head(t2) = Head(t) /\ t2 # <<>> OBVIOUS
<1>3. t2 # <<>> BY <1>1
<1> HIDE DEF t2
<1>4. Distinct(t2) BY <1>1 DEF Distinct, Holds
<1>5. \A x : Holds(t2, x) <=> Holds(t, x) \/ x = c
  <2>1. \A n \in 1..Len(t2) : n \in 1..Len(t) \/ n = Len(t) + 1 BY <1>1
  <2>2. 1..Len(t) \subseteq 1..Len(t2) /\ Len(t) + 1 \in 1..Len(t2) BY <1>1
  <2> QED BY <1>1, <2>1, <2>2 DEF Holds
<1> QED BY <1>2, <1>3, <1>4, <1>5 DEF t2

\* Whoever is not in the chain may move as it likes.
LEMMA OffTheChain ==
    ASSUME QuarantineIsSound, UNCHANGED <<quarantineTail, quarantined>>,
           \A c \in Consumers :
              \/ scopeOp'[c].pc = scopeOp[c].pc
              \/ scopeOp[c].pc \notin Reached /\ scopeOp'[c].pc \notin Reached
    PROVE  QuarantineIsSound'
<1> QED BY OrderedMeansSound DEF Ordered, Reached, Working

\* The steps of a purge inside the chain.
LEMMA ChainStepKeeps ==
    ASSUME ScopePurgeInvariant, QuarantineIsSound, NEW c \in Consumers,
           \/ ScopeVerified(c) \/ ScopeScavenges(c) \/ ScopeDetaches(c)
           \/ ScopeFilesFail(c) \/ \E ok \in BOOLEAN : ScopeRemoved(c, ok)
    PROVE  QuarantineIsSound'
<1> DEFINE t == quarantineTail
           S == Consumers \cup {Boot}
<1>0. /\ t \in Seq(S) /\ c \in S
      /\ DOMAIN scopeOp = Consumers
      /\ DOMAIN quarantined = Consumers
      /\ \A d \in Consumers : quarantined[d] \in Int
      /\ DOMAIN scopeOp[c] = {"pc", "job", "scope"}
  BY DEF ScopePurgeInvariant, TypeOK
<1>1. Ordered(t, scopeOp, quarantined) BY OrderedMeansSound
<1>2. Idle.pc = "idle" BY DEF Idle
<1> HIDE DEF S
<1>3. CASE ScopeVerified(c)
  <2>1. /\ scopeOp[c].pc = "verified" /\ scopeOp'[c].pc = "queued"
        /\ \A d \in Consumers \ {c} : scopeOp'[d] = scopeOp[d]
        /\ t' = Append(t, c) /\ quarantined' = quarantined
    BY <1>0, <1>3 DEF ScopeVerified, ScopeStep
  <2>2. ~Holds(t, c) BY <1>1, <2>1 DEF Ordered, Reached
  <2>3. /\ Distinct(Append(t, c)) /\ Append(t, c) # <<>>
        /\ \A x : Holds(Append(t, c), x) <=> Holds(t, x) \/ x = c
        /\ t # <<>> => Head(Append(t, c)) = Head(t)
    BY <1>0, <1>1, <2>2, ChainGrows DEF Ordered
  <2>4. Ordered(t', scopeOp', quarantined')
    BY <1>1, <2>1, <2>3 DEF Ordered, Reached, Working
  <2> QED BY <2>4, OrderedMeansSound
<1>4. CASE ScopeScavenges(c)
  <2>1. /\ scopeOp[c].pc = "queued" /\ scopeOp'[c].pc = "inspecting"
        /\ \A d \in Consumers \ {c} : scopeOp'[d] = scopeOp[d]
        /\ t' = t /\ t # <<>> /\ Head(t) = c
        /\ quarantined' = [quarantined EXCEPT ![c] = 0]
    BY <1>0, <1>4 DEF ScopeScavenges, ScopeStep
  <2>2. Ordered(t', scopeOp', quarantined')
    BY <1>0, <1>1, <2>1 DEF Ordered, Reached, Working
  <2> QED BY <2>2, OrderedMeansSound
<1>5. CASE ScopeDetaches(c)
  <2>1. /\ scopeOp[c].pc = "inspecting" /\ scopeOp'[c].pc = "removing"
        /\ \A d \in Consumers \ {c} : scopeOp'[d] = scopeOp[d]
        /\ t' = t
        /\ quarantined' = [quarantined EXCEPT ![c] = @ + 1]
    BY <1>0, <1>5 DEF ScopeDetaches, ScopeStep
  <2>2. Ordered(t', scopeOp', quarantined')
    BY <1>0, <1>1, <2>1 DEF Ordered, Reached, Working
  <2> QED BY <2>2, OrderedMeansSound
<1>6. ASSUME t # <<>>, Head(t) = c, t' = Tail(t), scopeOp' = [scopeOp EXCEPT ![c] = Idle],
             \A d \in Consumers :
                quarantined'[d] \in 0..1 /\ (d # c => quarantined'[d] = quarantined[d])
      PROVE  QuarantineIsSound'
  <2>1. /\ Distinct(Tail(t))
        /\ \A x : Holds(Tail(t), x) <=> Holds(t, x) /\ x # c
    BY <1>0, <1>1, <1>6, ChainAdvances DEF Ordered
  <2>2. Ordered(t', scopeOp', quarantined')
    BY <1>0, <1>1, <1>2, <1>6, <2>1 DEF Ordered, Reached, Working
  <2> QED BY <2>2, OrderedMeansSound
<1>7. CASE ScopeFilesFail(c)
  <2>1. quarantined' = quarantined BY <1>7 DEF ScopeFilesFail, ScopeGivesUp
  <2>2. \A d \in Consumers :
            quarantined'[d] \in 0..1 /\ (d # c => quarantined'[d] = quarantined[d])
    BY <1>1, <2>1 DEF Ordered
  <2> QED BY <1>6, <1>7, <2>2 DEF ScopeFilesFail, ScopeGivesUp
<1>8. ASSUME NEW ok \in BOOLEAN, ScopeRemoved(c, ok) PROVE QuarantineIsSound'
  <2>1. /\ scopeOp[c].pc = "removing"
        /\ \/ quarantined' = [quarantined EXCEPT ![c] = @ - 1]
           \/ quarantined' = quarantined
    BY <1>8 DEF ScopeRemoved
  <2>2. quarantined[c] = 1 BY <1>1, <2>1 DEF Ordered
  <2>3. \A d \in Consumers :
            quarantined'[d] \in 0..1 /\ (d # c => quarantined'[d] = quarantined[d])
    BY <1>0, <1>1, <2>1, <2>2 DEF Ordered
  <2> QED BY <1>6, <1>8, <2>3 DEF ScopeRemoved
<1> QED BY <1>3, <1>4, <1>5, <1>7, <1>8

\* The scavenge of the start, and a restart.
LEMMA ChainRestarts ==
    ASSUME ScopePurgeInvariant, QuarantineIsSound,
           Restart \/ \E F \in SUBSET Consumers : Scavenge(F)
    PROVE  QuarantineIsSound'
<1> DEFINE t == quarantineTail
<1>1. t \in Seq(Consumers \cup {Boot}) BY DEF ScopePurgeInvariant, TypeOK
<1>2. Ordered(t, scopeOp, quarantined) BY OrderedMeansSound
<1>3. CASE Restart
  <2>1. /\ t' = <<Boot>> /\ quarantined' = quarantined
        /\ \A c \in Consumers : scopeOp'[c].pc = "idle"
    BY <1>3 DEF Restart, Idle
  <2>2. Distinct(<<Boot>>) BY DEF Distinct
  <2>3. \A c \in Consumers : ~Holds(<<Boot>>, c) BY OwnershipAssumption DEF Holds
  <2>4. Ordered(t', scopeOp', quarantined')
    BY <1>2, <2>1, <2>2, <2>3 DEF Ordered, Reached, Working
  <2> QED BY <2>4, OrderedMeansSound
<1>4. ASSUME NEW F \in SUBSET Consumers, Scavenge(F) PROVE QuarantineIsSound'
  <2>1. /\ t # <<>> /\ Head(t) = Boot /\ t' = Tail(t) /\ scopeOp' = scopeOp
        /\ \A c \in Consumers : quarantined'[c] = 0 \/ quarantined'[c] = quarantined[c]
    BY <1>4 DEF Scavenge
  <2>2. \A c \in Consumers : c # Boot /\ scopeOp[c].pc \notin Working
    BY <1>2, <2>1, OwnershipAssumption DEF Ordered
  <2>3. /\ Distinct(Tail(t))
        /\ \A x : Holds(Tail(t), x) <=> Holds(t, x) /\ x # Boot
    BY <1>1, <1>2, <2>1, ChainAdvances DEF Ordered
  <2>4. Ordered(t', scopeOp', quarantined')
    BY <1>2, <2>1, <2>2, <2>3 DEF Ordered, Working
  <2> QED BY <2>4, OrderedMeansSound
<1> QED BY <1>3, <1>4

\* No step disturbs the quarantine.
LEMMA QuarantineIsKept ==
    ASSUME ScopePurgeInvariant, QuarantineIsSound, [Next]_vars
    PROVE  QuarantineIsSound'
<1>0. /\ DOMAIN scopeOp = Consumers
      /\ \A c \in Consumers : DOMAIN scopeOp[c] = {"pc", "job", "scope"}
  BY DEF ScopePurgeInvariant, TypeOK
<1>1. ASSUME UNCHANGED <<scopeOp, quarantineTail, quarantined>>
      PROVE  QuarantineIsSound'
  BY <1>1, OffTheChain
<1>2. ASSUME NEW c \in Consumers, UNCHANGED <<quarantineTail, quarantined>>,
             scopeOp[c].pc \notin Reached, NEW op, op.pc \notin Reached,
             scopeOp' = [scopeOp EXCEPT ![c] = op]
      PROVE  QuarantineIsSound'
  BY <1>0, <1>2, OffTheChain
<1>3. CASE ClientStep
  <2>1. ASSUME NEW i \in Ids, PurgeConsumerCache(i) PROVE QuarantineIsSound'
    <3> DEFINE op == [pc |-> "settling", job |-> KeptJobs[i],
                      scope |-> ScopeJobs(ConsumerOf[i], KeptJobs, KeptRecords)]
    <3>1. /\ scopeOp[ConsumerOf[i]].pc \notin Reached /\ op.pc \notin Reached
          /\ scopeOp' = [scopeOp EXCEPT ![ConsumerOf[i]] = op]
          /\ UNCHANGED <<quarantineTail, quarantined>>
      BY <2>1 DEF PurgeConsumerCache, Reached
    <3> HIDE DEF op
    <3> QED BY <1>2, <3>1, OwnershipAssumption
  <2>2. CASE \A i \in Ids : ~PurgeConsumerCache(i)
    <3>1. UNCHANGED <<scopeOp, quarantineTail, quarantined>>
      BY <1>3, <2>2, BoundAssumption
      DEF ClientStep, Get, EvictExpired, Create, CreateRefused, Cancel, Observe,
          RenewObserver, RequestMedia, AcquireMedia, StatusAnswers, ReleaseMedia,
          Purge, UpdateJob, ReaderStep
    <3> QED BY <1>1, <3>1
  <2> QED BY <2>1, <2>2
<1>4. ASSUME NEW r \in Objs, RecordStep(r) PROVE QuarantineIsSound'
  <2>1. ASSUME NEW ok \in BOOLEAN, VerificationSettles(r, ok) PROVE QuarantineIsSound'
    <3>1. /\ UNCHANGED <<quarantineTail, quarantined>>
          /\ \A c \in Consumers :
                \/ scopeOp'[c].pc = scopeOp[c].pc
                \/ scopeOp[c].pc = "verifying" /\ scopeOp'[c].pc = "verified"
      BY <1>0, <2>1 DEF VerificationSettles
    <3> QED BY <3>1, OffTheChain DEF Reached
  <2>2. CASE \A ok \in BOOLEAN : ~VerificationSettles(r, ok)
    <3>1. UNCHANGED <<scopeOp, quarantineTail, quarantined>>
      BY <1>4, <2>2 DEF RecordStep, ObserverLeaseTimer, ExecutionDeadline,
         RunnerPublishes, RunnerSettles, PurgeDrained, PurgeDrainTimeout,
         PurgeVerified, PurgeUnlinks, PurgeUnlinkFails, PurgeCompletes, UpdateJob,
         PurgeStep
    <3> QED BY <1>1, <3>1
  <2> QED BY <2>1, <2>2
<1>5. ASSUME NEW c \in Consumers, ScopePurgeStep(c) PROVE QuarantineIsSound'
  <2>1. ASSUME NEW from \in {"settling", "draining", "awaiting"},
               NEW to \in {"draining", "awaiting", "verifying"}, ScopeStep(c, from, to),
               UNCHANGED <<quarantineTail, quarantined>>
        PROVE  QuarantineIsSound'
    <3> DEFINE op == [scopeOp[c] EXCEPT !.pc = to]
    <3>1. op.pc \notin Reached /\ scopeOp[c].pc \notin Reached
      BY <1>0, <2>1 DEF ScopeStep, Reached
    <3>2. scopeOp' = [scopeOp EXCEPT ![c] = op] BY <2>1 DEF ScopeStep
    <3> HIDE DEF op
    <3> QED BY <1>2, <2>1, <3>1, <3>2
  <2>2. CASE ScopeExecutionsSettle(c) BY <2>1, <2>2 DEF ScopeExecutionsSettle
  <2>3. CASE ScopeReadsDrain(c) BY <2>1, <2>3 DEF ScopeReadsDrain
  <2>4. CASE ScopeVerifies(c) BY <2>1, <2>4 DEF ScopeVerifies
  <2>5. CASE ScopeTimeout(c) \/ ScopeInvalid(c)
    <3>1. /\ scopeOp[c].pc \notin Reached /\ scopeOp' = [scopeOp EXCEPT ![c] = Idle]
          /\ UNCHANGED <<quarantineTail, quarantined>>
      BY <2>5 DEF ScopeTimeout, ScopeInvalid, ScopeGivesUp, Reached
    <3>2. Idle.pc \notin Reached BY DEF Idle, Reached
    <3> HIDE DEF Idle
    <3> QED BY <1>2, <3>1, <3>2
  <2> QED BY <1>5, <2>2, <2>3, <2>4, <2>5, ChainStepKeeps DEF ScopePurgeStep
<1>6. CASE TimeStep
  BY <1>1, <1>6 DEF TimeStep, Outlive, LeaseLapses, TombstoneOutlives, timeRest
<1>7. CASE EngineStep
  <2>1. CASE Close BY <1>1, <2>1 DEF Close
  <2> QED BY <1>7, <2>1, ChainRestarts DEF EngineStep
<1>8. CASE UNCHANGED vars BY <1>1, <1>8 DEF vars
<1> QED BY <1>3, <1>4, <1>5, <1>6, <1>7, <1>8 DEF Next

-----------------------------------------------------------------------------
(* The theorems about states *)

AccountInvariant ==
    /\ ScopePurgeInvariant
    /\ Exact(jobs, job, scopeOp)
    /\ ReadsCounted
    /\ TombstonesMeanGone
    /\ QuarantineIsSound

\* An engine that starts has nothing to account for but what is on the disk.
LEMMA InitAccounts == Init => AccountInvariant
<1> SUFFICES ASSUME Init PROVE AccountInvariant
  OBVIOUS
<1>1. ScopePurgeInvariant BY InitEstablishes
<1>2. Exact(jobs, job, scopeOp) BY EmptyIsExact DEF Init
<1>3. ReadsCounted
  <2>1. \A r : ReadersOf(r) = {} BY DEF Init, IdleReader, ReadersOf
  <2>2. \A r \in Objs : job[r].reads = 0 BY DEF Init, Blank
  <2> QED BY <2>1, <2>2, FS_EmptySet DEF ReadsCounted
<1>4. TombstonesMeanGone BY DEF Init, TombstonesMeanGone
<1>5. QuarantineIsSound
  <2>1. \A c \in Consumers : scopeOp[c].pc = "idle" BY DEF Init, Idle
  <2>2. Distinct(<<Boot>>) BY DEF Distinct
  <2>3. \A c \in Consumers : ~Holds(<<Boot>>, c) BY OwnershipAssumption DEF Holds
  <2>4. quarantineTail = <<Boot>> /\ \A c \in Consumers : quarantined[c] \in 0..1
    BY DEF Init
  <2>5. Ordered(quarantineTail, scopeOp, quarantined)
    BY <2>1, <2>2, <2>3, <2>4 DEF Ordered, Reached, Working
  <2> QED BY <2>5, OrderedMeansSound
<1> QED BY <1>1, <1>2, <1>3, <1>4, <1>5 DEF AccountInvariant

\* No step disturbs any account.
LEMMA NextAccounts == AccountInvariant /\ [Next]_vars => AccountInvariant'
<1> SUFFICES ASSUME AccountInvariant, [Next]_vars PROVE AccountInvariant'
  OBVIOUS
<1>1. /\ ScopePurgeInvariant /\ Exact(jobs, job, scopeOp) /\ ReadsCounted
      /\ TombstonesMeanGone /\ QuarantineIsSound
  BY DEF AccountInvariant
<1>2. ScopePurgeInvariant' BY <1>1, NextKeeps
<1>3. Exact(jobs', job', scopeOp') BY <1>1, AccountsAreKept
<1>4. ReadsCounted' BY <1>1, ReadsAreKept
<1>5. TombstonesMeanGone' BY <1>1, TombstonesAreKept
<1>6. QuarantineIsSound' BY <1>1, QuarantineIsKept
<1> QED BY <1>2, <1>3, <1>4, <1>5, <1>6 DEF AccountInvariant

\* The accounts of the job manager are true at every moment.
THEOREM AccountInvariantHolds == Spec => []AccountInvariant
<1>1. Init => AccountInvariant BY InitAccounts
<1>2. AccountInvariant /\ [Next]_vars => AccountInvariant' BY NextAccounts
<1> QED BY <1>1, <1>2, PTL DEF Spec

\* The read counts, the records a purge holds, the flags that say who holds
\* them and the tombstones a purge is answered from are never wrong.
THEOREM PurgesDecideByTheTruth == Spec => []AccountsAreExact
<1>1. AccountInvariant => AccountsAreExact
  <2> SUFFICES ASSUME AccountInvariant PROVE AccountsAreExact
    OBVIOUS
  <2>1. PurgesPinRecords /\ BusyFlagsAreAccounted
    BY ExactMeans DEF AccountInvariant
  <2>2. ReadsAreCounted BY DEF AccountInvariant, ReadsCounted, ReadersOf, ReadsAreCounted
  <2>3. TombstonesMeanGone BY DEF AccountInvariant
  <2> QED BY <2>1, <2>2, <2>3 DEF AccountsAreExact
<1> QED BY <1>1, AccountInvariantHolds, PTL

\* Two sessions never both hold a completed job on the same file.
THEOREM PathsAreDisjoint == Spec => []CompletedPathsAreDisjoint
<1>1. AccountInvariant => CompletedPathsAreDisjoint BY ExactMeans DEF AccountInvariant
<1> QED BY <1>1, AccountInvariantHolds, PTL

\* A job that was observed goes on without observers only as a running editor job.
THEOREM OnlyEditorJobsDetach == Spec => []UnobservedWorkIsPersistent
<1>1. AccountInvariant => UnobservedWorkIsPersistent BY ExactMeans DEF AccountInvariant
<1> QED BY <1>1, AccountInvariantHolds, PTL

\* Quarantine operations run one at a time and leave at most one tree behind.
THEOREM QuarantineStaysSound == Spec => []QuarantineIsSound
<1>1. AccountInvariant => QuarantineIsSound BY DEF AccountInvariant
<1> QED BY <1>1, AccountInvariantHolds, PTL

-----------------------------------------------------------------------------
(* What no step may do *)

\* A cancelled record that stays keeps its reason and its outcome.
LEMMA CancellationStands ==
    ASSUME AccountInvariant, [Next]_vars, NEW r \in Objs, Survives(r),
           job[r].cancellation # "none"
    PROVE  job'[r].cancellation = job[r].cancellation /\ job'[r].state = "cancelled"
<1>1. ScopePurgeInvariant /\ Exact(jobs, job, scopeOp) BY DEF AccountInvariant
<1>2. r \in Current(jobs) /\ r \in Current(jobs') BY DEF Survives, Current
<1>3. CASE Steady(jobs, job, jobs', job')
  <2>1. job'[r].cancellation = job[r].cancellation BY <1>2, <1>3 DEF Steady
  <2>2. RecordIsConsistent(job'[r]) BY <1>1, NextKeeps DEF ScopePurgeInvariant
  <2> QED BY <2>1, <2>2 DEF RecordIsConsistent
<1>4. CASE ReaderMoves
  <2>1. job'[r].cancellation = job[r].cancellation
    BY <1>1, <1>2, <1>4, ReaderAccounts DEF ReaderMoves
  <2>2. RecordIsConsistent(job'[r]) BY <1>1, NextKeeps DEF ScopePurgeInvariant
  <2> QED BY <2>1, <2>2 DEF RecordIsConsistent
<1>5. CASE Restart
  <2>1. Current(jobs') = {} BY <1>5 DEF Restart, Current
  <2> QED BY <1>2, <2>1
<1> QED BY <1>1, <1>3, <1>4, <1>5, AccountsAreKept

\* The first cancellation is the one reported.
THEOREM FirstCancellationWins == Spec => CancellationIsFinal
<1>1. AccountInvariant /\ [Next]_vars =>
        [\A r \in Objs : Survives(r) /\ job[r].cancellation # "none" =>
            /\ job'[r].cancellation = job[r].cancellation
            /\ job'[r].state = "cancelled"]_vars
  BY CancellationStands
<1> QED BY <1>1, AccountInvariantHolds, PTL DEF Spec, CancellationIsFinal

-----------------------------------------------------------------------------
(* Records in use stay *)

\* A live job whose observers are all gone, though nobody has noticed yet.
Lapsing(o) == ~TerminalJob(o) /\ o.enforced /\ o.leases \subseteq o.lapsed

\* Over and held by nobody, or with no observer left to wait for it.
Dispensable(o) ==
    \/ TerminalJob(o) /\ ~Busy(o)
    \/ Lapsing(o)

\* The reasons for which a record may leave the map.
MayGo(r) ==
    \/ r \in Current(jobs')
    \/ Restart
    \/ TerminalJob(job[r]) /\ ~Busy(job[r])
    \/ job[r].purgeOperation = "unlinked"
    \/ job[r].consumerPurging /\ scopeOp[Consumer(job[r])].pc = "removing"
    \/ job[r].state = "failed" /\ jobs'[job[r].id] # NoObj
    \/ Lapsing(job[r])

\* A job ends by losing its observers only if all their leases ran out.
LEMMA ReapingEnds ==
    ASSUME ScopePurgeInvariant, NEW r \in Current(jobs)
    PROVE  /\ Touches(job[r], ReapObserverLeases[r])
           /\ TerminalJob(ReapObserverLeases[r]) =>
                TerminalJob(job[r]) \/ Lapsing(job[r])
<1> DEFINE o == job[r]
           kept == [o EXCEPT !.leases = o.leases \ o.lapsed, !.lapsed = {}]
           e == ExpireObserverLeases(o)
<1>1. r \in Objs /\ job \in [Objs -> JobRecord] /\ o \in JobRecord
  BY DEF ScopePurgeInvariant, TypeOK, Current
<1>2. Touches(o, ReapObserverLeases[r]) BY <1>1, ReapTouches
<1>3. e \in JobRecord BY <1>1, ExpireTouches DEF Touches
<1>4. TerminalJob(e) => TerminalJob(o) \/ Lapsing(o)
  <2> USE DEF Lapsing
  <2>1. CASE TerminalJob(o) BY <2>1
  <2>2. CASE ~TerminalJob(o) /\ ~o.enforced BY <2>2 DEF ExpireObserverLeases
  <2>3. CASE ~TerminalJob(o) /\ o.enforced /\ o.leases \ o.lapsed # {}
    <3>1. /\ kept.leases = o.leases \ o.lapsed /\ kept.state = o.state
      BY <1>1 DEF JobRecord
    <3>2. e = kept BY <2>3, <3>1 DEF ExpireObserverLeases
    <3> QED BY <2>3, <3>1, <3>2 DEF TerminalJob
  <2>4. CASE ~TerminalJob(o) /\ o.enforced /\ o.leases \ o.lapsed = {} BY <2>4
  <2> QED BY <2>1, <2>2, <2>3, <2>4
<1>5. ReapObserverLeases[r] = ScheduleObserverLeaseExpiry(e)
  BY <1>1 DEF ReapObserverLeases
<1>6. ScheduleObserverLeaseExpiry(e).state = e.state
  BY <1>3 DEF ScheduleObserverLeaseExpiry, JobRecord
<1> HIDE DEF e, o
<1> QED BY <1>2, <1>4, <1>5, <1>6 DEF TerminalJob, o

\* What eviction leaves of a record it keeps.
LEMMA KeptIsReaped ==
    ASSUME NEW js, NEW r \in Objs, r \in Current(js)
    PROVE  Collected(js, ReapObserverLeases)[r] = ReapObserverLeases[r]
  BY DEF Collected

\* What eviction may drop is dispensable.
LEMMA EvictableIsDispensable ==
    ASSUME ScopePurgeInvariant, NEW r \in Current(jobs),
           EvictableTerminalJob(ReapObserverLeases[r])
    PROVE  Dispensable(job[r])
<1> DEFINE p == ReapObserverLeases[r]
<1>1. /\ Touches(job[r], p)
      /\ TerminalJob(p) => TerminalJob(job[r]) \/ Lapsing(job[r])
  BY ReapingEnds
<1> HIDE DEF p
<1>2. EvictableTerminalJob(p) BY DEF p
<1>3. TerminalJob(p) /\ ~Busy(p) BY <1>1, <1>2 DEF EvictableTerminalJob, Busy, Touches, JobRecord
<1>4. ~Busy(job[r]) BY <1>1, <1>3 DEF Touches, Busy
<1> QED BY <1>1, <1>3, <1>4 DEF Dispensable

\* Eviction, making room included, drops nothing else.
LEMMA EvictionDropsDispensable ==
    ASSUME ScopePurgeInvariant, NEW i \in Ids, jobs[i] # NoObj,
           NEW js, js = KeptJobs \/ js \in Roomier, js[i] # jobs[i]
    PROVE  Dispensable(job[jobs[i]])
<1> DEFINE r == jobs[i]
<1>1. r \in Objs /\ r \in Current(jobs)
  BY DEF ScopePurgeInvariant, TypeOK, Current
<1>2. CASE KeptJobs[i] # r
  BY <1>1, <1>2, EvictableIsDispensable DEF KeptJobs
<1>3. CASE KeptJobs[i] = r
  <2>1. /\ KeptJobs[i] # NoObj /\ EvictableTerminalJob(KeptRecords[r])
    <3>1. DOMAIN KeptJobs = Ids BY DEF KeptJobs
    <3>2. js \in Roomier /\ js # KeptJobs BY <1>3
    <3>3. PICK k \in Ids : /\ KeptJobs[k] # NoObj
                           /\ EvictableTerminalJob(KeptRecords[KeptJobs[k]])
                           /\ js = [KeptJobs EXCEPT ![k] = NoObj]
      BY <3>2 DEF Roomier
    <3>4. k = i BY <1>3, <3>1, <3>3
    <3> QED BY <1>3, <3>3, <3>4
  <2>2. r \in Current(KeptJobs) BY <1>3, <2>1 DEF Current
  <2>3. KeptRecords[r] = ReapObserverLeases[r]
    BY <1>1, <2>2, KeptIsReaped DEF KeptRecords
  <2> QED BY <1>1, <2>1, <2>3, EvictableIsDispensable
<1> QED BY <1>2, <1>3

\* create replaces what failed, or what is dispensable.
LEMMA CreateReplaces ==
    ASSUME ScopePurgeInvariant, Exact(jobs, job, scopeOp), NEW i \in Ids, Create(i),
           NEW r \in Current(jobs)
    PROVE  MayGo(r)
<1>1. /\ r \in Objs /\ jobs[job[r].id] = r /\ job[r].id \in Ids /\ job[r] \in JobRecord
      /\ r # NoObj
  BY IdsAssumption DEF ScopePurgeInvariant, TypeOK, MapIsConsistent, Current, JobRecord
<1>2. PICK js \in Roomier, s \in Objs : jobs' = [js EXCEPT ![i] = s]
  BY DEF Create
<1>3. js \in [Ids -> Objs \cup {NoObj}] BY <1>2, EvictionWanes
<1>4. CASE js[job[r].id] # r
  <2>1. Dispensable(job[r]) BY <1>1, <1>2, <1>4, EvictionDropsDispensable
  <2> QED BY <2>1 DEF Dispensable, MayGo
<1>5. CASE js[job[r].id] = r /\ job[r].id # i
  <2>1. jobs'[job[r].id] = r BY <1>1, <1>2, <1>3, <1>5
  <2> QED BY <1>1, <2>1 DEF MayGo, Current
<1>6. CASE js[i] = r /\ job[r].id = i
  <2> DEFINE p == ReapObserverLeases[r]
  <2>1. KeptJobs[i] = r /\ jobs'[i] # NoObj
    BY <1>1, <1>2, <1>3, <1>6, RoomierIsGood, IdsAssumption
  <2>2. r \in Current(KeptJobs) BY <1>1, <2>1 DEF Current
  <2>3. KeptRecords[r] = p BY <1>1, <2>2, KeptIsReaped DEF KeptRecords
  <2>4. /\ ~p.purging /\ p.purgeOperation = "none" /\ p.state \in {"failed", "cancelled"}
    BY <1>1, <2>1, <2>3 DEF Create, MayCreate, MayReplace
  <2>5. Consumer(p) = ConsumerOf[i] => ~(p.state = "cancelled" /\ p.execution)
    BY <2>2, <2>3 DEF Create, MayCreate, CancelledWriterIn
  <2>6. scopeOp[ConsumerOf[i]].pc = "idle" BY DEF Create, MayCreate
  <2>7. /\ Touches(job[r], p)
        /\ TerminalJob(p) => TerminalJob(job[r]) \/ Lapsing(job[r])
    BY ReapingEnds
  <2>8. RecordIsConsistent(job[r]) BY <1>1 DEF ScopePurgeInvariant
  <2>9. ~job[r].consumerPurging
    BY <1>6, <2>6 DEF Exact, FlagsOK, Consumer
  <2> HIDE DEF p
  <2>10. CASE p.state = "failed"
    <3>1. job[r].state = "failed" BY <2>7, <2>10 DEF Touches
    <3> QED BY <1>6, <2>1, <3>1 DEF MayGo
  <2>11. CASE p.state = "cancelled" /\ ~TerminalJob(job[r])
    <3>1. TerminalJob(p) BY <2>11 DEF TerminalJob, Terminal
    <3> QED BY <2>7, <2>11, <3>1 DEF MayGo
  <2>12. CASE p.state = "cancelled" /\ TerminalJob(job[r])
    <3>1. job[r].state = "cancelled" BY <2>7, <2>12 DEF Touches
    <3>2. ~job[r].execution BY <1>6, <2>5, <2>7, <2>12 DEF Touches, Consumer
    <3>3. ~(job[r].verification \/ job[r].reads > 0) BY <2>8, <3>1 DEF RecordIsConsistent
    <3>4. ~job[r].purging /\ job[r].purgeOperation = "none" BY <2>4, <2>7 DEF Touches
    <3> QED BY <2>9, <2>12, <3>2, <3>3, <3>4 DEF MayGo, Busy
  <2> QED BY <2>4, <2>10, <2>11, <2>12
<1> QED BY <1>1, <1>4, <1>5, <1>6

\* No step drops a record in use.
LEMMA RecordsInUseStay ==
    ASSUME AccountInvariant, [Next]_vars, NEW r \in Current(jobs)
    PROVE  MayGo(r)
<1>0. ScopePurgeInvariant /\ Exact(jobs, job, scopeOp) BY DEF AccountInvariant
<1>1. /\ r \in Objs /\ jobs[job[r].id] = r /\ job[r].id \in Ids /\ r # NoObj
  BY <1>0, IdsAssumption DEF ScopePurgeInvariant, TypeOK, MapIsConsistent, Current,
                             JobRecord
<1>2. ASSUME jobs' = jobs PROVE MayGo(r) BY <1>2 DEF MayGo
<1>3. ASSUME jobs' = KeptJobs \/ jobs' \in Roomier PROVE MayGo(r)
  <2>1. CASE jobs'[job[r].id] = r BY <1>1, <2>1 DEF MayGo, Current
  <2>2. CASE jobs'[job[r].id] # r
    <3>1. Dispensable(job[r]) BY <1>0, <1>1, <1>3, <2>2, EvictionDropsDispensable
    <3> QED BY <3>1 DEF Dispensable, MayGo
  <2> QED BY <2>1, <2>2
<1>4. CASE ClientStep
  <2>1. ASSUME NEW i \in Ids, Create(i) PROVE MayGo(r) BY <1>0, <2>1, CreateReplaces
  <2>2. ASSUME NEW i \in Ids, CreateRefused(i) PROVE MayGo(r)
    BY <1>3, <2>2 DEF CreateRefused
  <2>3. CASE \A i \in Ids : ~Create(i) /\ ~CreateRefused(i)
    <3>1. jobs' = jobs \/ jobs' = KeptJobs
      BY <1>4, <2>3, BoundAssumption
      DEF ClientStep, Get, EvictExpired, Cancel, Observe, RenewObserver, RequestMedia,
          AcquireMedia, StatusAnswers, ReleaseMedia, Purge, PurgeConsumerCache,
          UpdateJob, ReaderStep
    <3> QED BY <1>2, <1>3, <3>1
  <2> QED BY <2>1, <2>2, <2>3
<1>5. ASSUME NEW s \in Objs, RecordStep(s) PROVE MayGo(r)
  <2>1. CASE PurgeCompletes(s)
    <3>1. /\ jobs' = [jobs EXCEPT ![job[s].id] = NoObj]
          /\ job[s].purgeOperation = "unlinked" /\ jobs[job[s].id] = s
      BY <2>1 DEF PurgeCompletes
    <3>2. CASE s = r BY <3>1, <3>2 DEF MayGo
    <3>3. CASE s # r
      <4>1. jobs'[job[r].id] = r
        BY <1>0, <1>1, <3>1, <3>3 DEF ScopePurgeInvariant, TypeOK
      <4> QED BY <1>1, <4>1 DEF MayGo, Current
    <3> QED BY <3>2, <3>3
  <2>2. CASE ~PurgeCompletes(s)
    <3>1. jobs' = jobs
      BY <1>5, <2>2 DEF RecordStep, ObserverLeaseTimer, ExecutionDeadline,
         RunnerPublishes, RunnerSettles, VerificationSettles, PurgeDrained,
         PurgeDrainTimeout, PurgeVerified, PurgeUnlinks, PurgeUnlinkFails, UpdateJob,
         PurgeStep
    <3> QED BY <1>2, <3>1
  <2> QED BY <2>1, <2>2
<1>6. ASSUME NEW c \in Consumers, ScopePurgeStep(c) PROVE MayGo(r)
  <2>1. ASSUME NEW ok \in BOOLEAN, ScopeRemoved(c, ok) PROVE MayGo(r)
    <3> DEFINE S == scopeOp[c].scope
    <3>1. /\ jobs' = [i \in Ids |-> IF jobs[i] \in S THEN NoObj ELSE jobs[i]]
          /\ scopeOp[c].pc = "removing"
      BY <2>1 DEF ScopeRemoved
    <3>2. CASE r \in S
      <4>1. job[r].consumerPurging /\ Consumer(job[r]) = c
        BY <1>0, <3>1, <3>2 DEF ScopePurgeInvariant, ScopeIsHeld
      <4> QED BY <3>1, <4>1 DEF MayGo
    <3>3. CASE r \notin S
      <4>1. jobs'[job[r].id] = r BY <1>1, <3>1, <3>3
      <4> QED BY <1>1, <4>1 DEF MayGo, Current
    <3> QED BY <3>2, <3>3
  <2>2. CASE \A ok \in BOOLEAN : ~ScopeRemoved(c, ok)
    <3>1. jobs' = jobs
      BY <1>6, <2>2 DEF ScopePurgeStep, ScopeExecutionsSettle, ScopeReadsDrain,
         ScopeTimeout, ScopeVerifies, ScopeVerified, ScopeInvalid, ScopeScavenges,
         ScopeDetaches, ScopeFilesFail, ScopeGivesUp, scopeRest
    <3> QED BY <1>2, <3>1
  <2> QED BY <2>1, <2>2
<1>7. CASE TimeStep
  BY <1>2, <1>7 DEF TimeStep, Outlive, LeaseLapses, TombstoneOutlives, timeRest
<1>8. CASE EngineStep
  <2>1. CASE Restart BY <2>1 DEF MayGo
  <2>2. CASE ~Restart BY <1>2, <1>8, <2>2 DEF EngineStep, Close, Scavenge
  <2> QED BY <2>1, <2>2
<1>9. CASE UNCHANGED vars BY <1>2, <1>9 DEF vars
<1> QED BY <1>4, <1>5, <1>6, <1>7, <1>8, <1>9 DEF Next

\* Work in progress is not forgotten.
THEOREM WorkInProgressStays == Spec => ActiveRecordsStay
<1>1. AccountInvariant /\ [Next]_vars =>
        [\A r \in Current(jobs) :
            \/ r \in Current(jobs')
            \/ Restart
            \/ TerminalJob(job[r]) /\ ~Busy(job[r])
            \/ job[r].purgeOperation = "unlinked"
            \/ job[r].consumerPurging /\ scopeOp[Consumer(job[r])].pc = "removing"
            \/ job[r].state = "failed" /\ jobs'[job[r].id] # NoObj
            \/ /\ ~TerminalJob(job[r]) /\ job[r].enforced
               /\ job[r].leases \subseteq job[r].lapsed]_vars
  BY RecordsInUseStay DEF MayGo, Lapsing
<1> QED BY <1>1, AccountInvariantHolds, PTL DEF Spec, ActiveRecordsStay

-----------------------------------------------------------------------------
(* The manager implements the cache scope *)

\* The runner of a request publishes in the scope of the request's consumer:
\* both come from the same consumerId (materializeChzzkVod, consumerScopeHash).
RunnersPublishAtHome == \A i \in Ids : ScopeOf[ArtifactOf[i]] = ConsumerOf[i]

Removing(c) == scopeOp[c].pc = "removing"

\* Nobody uses a scope that is open in the quarantine or detached.
LEMMA OpenScopeIsUnused ==
    ASSUME ScopePurgeInvariant, Exact(jobs, job, scopeOp), NEW c \in Consumers,
           scopeOp[c].pc \in {"inspecting", "removing"}
    PROVE  WritingIn(c) = {} /\ ReadingIn(c) = {}
<1>1. \A r \in Objs : job[r].execution => Consumer(job[r]) # c
  BY DEF ScopePurgeInvariant, ScopeIsQuiescent
<1>2. \A r \in scopeOp[c].scope : job[r].reads = 0
  BY DEF ScopePurgeInvariant, ScopeIsQuiescent
<1>3. \A r \in Current(jobs) : Consumer(job[r]) = c => r \in scopeOp[c].scope
  BY DEF Exact, WholeOK
<1> QED BY <1>1, <1>2, <1>3 DEF WritingIn, ReadingIn

\* The same after a step.
LEMMA OpenScopeIsUnusedNext ==
    ASSUME ScopePurgeInvariant', Exact(jobs', job', scopeOp'), NEW c \in Consumers,
           scopeOp'[c].pc \in {"inspecting", "removing"}
    PROVE  WritingIn(c)' = {} /\ ReadingIn(c)' = {}
<1>1. \A r \in Objs : job'[r].execution => Consumer(job'[r]) # c
  BY DEF ScopePurgeInvariant, ScopeIsQuiescent
<1>2. \A r \in scopeOp'[c].scope : job'[r].reads = 0
  BY DEF ScopePurgeInvariant, ScopeIsQuiescent
<1>3. \A r \in Current(jobs') : Consumer(job'[r]) = c => r \in scopeOp'[c].scope
  BY DEF Exact, WholeOK
<1> QED BY <1>1, <1>2, <1>3 DEF WritingIn, ReadingIn

\* A step that neither touches a file nor detaches or gives back a scope.
LEMMA UsersComeAndGo ==
    ASSUME AccountInvariant, AccountInvariant', file' = file,
           \A c \in Consumers : Removing(c)' <=> Removing(c)
    PROVE  Scope!ComeAndGo
<1>1. \A c \in Consumers : WritingIn(c)' \subseteq Objs BY DEF WritingIn
<1>2. \A c \in Consumers : ReadingIn(c)' \subseteq Objs
  BY DEF ReadingIn, Current, AccountInvariant, ScopePurgeInvariant, TypeOK
<1>3. \A c \in Consumers : FilesOf(c)' = FilesOf(c) BY DEF FilesOf
<1>4. ASSUME NEW c \in Consumers, Removing(c)
      PROVE  WritingIn(c)' = {} /\ ReadingIn(c)' = {}
  BY <1>4, OpenScopeIsUnusedNext DEF AccountInvariant, Removing
<1> QED BY <1>1, <1>2, <1>3, <1>4 DEF Scope!ComeAndGo, Removing

\* What a step does to one record, as far as the users of scopes can tell.
SameUse(o, p) == p.id = o.id /\ p.execution = o.execution /\ p.reads = o.reads

LEMMA SameUsers ==
    ASSUME jobs' = jobs, Current(jobs) \subseteq Objs,
           \A r \in Objs : SameUse(job[r], job'[r])
    PROVE  \A c \in Consumers : /\ WritingIn(c)' = WritingIn(c)
                                /\ ReadingIn(c)' = ReadingIn(c)
  BY DEF SameUse, WritingIn, ReadingIn, Current, Consumer

\* A runner publishes where it writes.
LEMMA PublishesInScope ==
    ASSUME RunnersPublishAtHome, AccountInvariant, NEW r \in Objs, RunnerPublishes(r)
    PROVE  \E c \in Consumers, a \in Artifacts : Scope!Write(c, a)
<1> DEFINE a == ArtifactOf[job[r].id]
           c == ScopeOf[a]
<1>1. /\ job \in [Objs -> JobRecord] /\ file \in [Artifacts -> {"present", "absent"}]
      /\ Current(jobs) \subseteq Objs
  BY DEF AccountInvariant, ScopePurgeInvariant, TypeOK, Current
<1>2. /\ job[r].id \in Ids /\ a \in Artifacts /\ c \in Consumers
      /\ c = Consumer(job[r])
  BY <1>1, OwnershipAssumption DEF JobRecord, RunnersPublishAtHome, Consumer
<1>3. /\ job[r].execution
      /\ job' = [job EXCEPT ![r].published = TRUE]
      /\ file' = [file EXCEPT ![a] = "present"]
      /\ jobs' = jobs /\ scopeOp' = scopeOp
  BY DEF RunnerPublishes
<1>4. \A s \in Objs : SameUse(job[s], job'[s]) BY <1>1, <1>3 DEF JobRecord, SameUse
<1>5. \A d \in Consumers : /\ WritingIn(d)' = WritingIn(d)
                           /\ ReadingIn(d)' = ReadingIn(d)
  BY <1>1, <1>3, <1>4, SameUsers
<1>6. r \in WritingIn(c) BY <1>2, <1>3 DEF WritingIn
<1> HIDE DEF c, a
<1>7. \A d \in Consumers : FilesOf(d)' = IF d = c THEN FilesOf(d) \cup {a} ELSE FilesOf(d)
  BY <1>1, <1>2, <1>3 DEF FilesOf, c
<1>8. Scope!Write(c, a)
  BY <1>2, <1>3, <1>5, <1>6, <1>7 DEF Scope!Write
<1> QED BY <1>2, <1>8

\* The purge of one job removes one file, even when it fails right after.
LEMMA UnlinksInScope ==
    ASSUME AccountInvariant, NEW r \in Objs,
           PurgeUnlinks(r) \/ (PurgeUnlinkFails(r) /\ file' # file)
    PROVE  \E c \in Consumers, a \in Artifacts : Scope!RemoveOne(c, a)
<1> DEFINE a == ArtifactOf[job[r].id]
           c == ScopeOf[a]
<1>1. /\ job \in [Objs -> JobRecord] /\ file \in [Artifacts -> {"present", "absent"}]
      /\ Current(jobs) \subseteq Objs
  BY DEF AccountInvariant, ScopePurgeInvariant, TypeOK, Current
<1>2. job[r].id \in Ids /\ a \in Artifacts /\ c \in Consumers
  BY <1>1, OwnershipAssumption DEF JobRecord
<1>3. /\ file' = [file EXCEPT ![a] = "absent"]
      /\ jobs' = jobs /\ scopeOp' = scopeOp
  BY DEF PurgeUnlinks, PurgeUnlinkFails
<1>4. \A s \in Objs : SameUse(job[s], job'[s])
  <2>1. CASE PurgeUnlinks(r) BY <1>1, <2>1 DEF PurgeUnlinks, JobRecord, SameUse
  <2>2. CASE PurgeUnlinkFails(r)
    BY <1>1, <2>2 DEF PurgeUnlinkFails, PurgeGivesUp, JobRecord, SameUse
  <2> QED BY <2>1, <2>2
<1>5. \A d \in Consumers : /\ WritingIn(d)' = WritingIn(d)
                           /\ ReadingIn(d)' = ReadingIn(d)
  BY <1>1, <1>3, <1>4, SameUsers
<1> HIDE DEF c, a
<1>7. \A d \in Consumers : FilesOf(d)' = IF d = c THEN FilesOf(d) \ {a} ELSE FilesOf(d)
  BY <1>1, <1>2, <1>3 DEF FilesOf, c
<1>8. Scope!RemoveOne(c, a)
  BY <1>2, <1>3, <1>5, <1>7 DEF Scope!RemoveOne
<1> QED BY <1>2, <1>8

\* A scope purge renames away a scope that nobody uses,
LEMMA DetachesScope ==
    ASSUME AccountInvariant, NEW c \in Consumers, ScopeDetaches(c)
    PROVE  Scope!Detach(c)
<1>1. /\ scopeOp \in Operations /\ file \in [Artifacts -> {"present", "absent"}]
      /\ ScopePurgeInvariant /\ Exact(jobs, job, scopeOp)
  BY DEF AccountInvariant, ScopePurgeInvariant, TypeOK, Operations
<1>2. /\ scopeOp[c].pc = "inspecting"
      /\ scopeOp'[c].pc = "removing"
      /\ \A d \in Consumers \ {c} : scopeOp'[d] = scopeOp[d]
      /\ file' = [a \in Artifacts |-> IF ScopeOf[a] = c THEN "absent" ELSE file[a]]
      /\ jobs' = jobs /\ job' = job
  BY <1>1 DEF ScopeDetaches, ScopeStep, Operations
<1>3. WritingIn(c) = {} /\ ReadingIn(c) = {} BY <1>1, <1>2, OpenScopeIsUnused
<1>4. \A d \in Consumers : /\ WritingIn(d)' = WritingIn(d)
                           /\ ReadingIn(d)' = ReadingIn(d)
  BY <1>2 DEF WritingIn, ReadingIn, Consumer, Current
<1>5. \A d \in Consumers : FilesOf(d)' = IF d = c THEN {} ELSE FilesOf(d)
  BY <1>1, <1>2 DEF FilesOf
<1>6. {d \in Consumers : scopeOp'[d].pc = "removing"}
        = {d \in Consumers : scopeOp[d].pc = "removing"} \cup {c}
  BY <1>2
<1> QED BY <1>2, <1>3, <1>4, <1>5, <1>6 DEF Scope!Detach, Scope!Unused

\* and gives it back without anyone having come.
LEMMA ReattachesScope ==
    ASSUME AccountInvariant, NEW c \in Consumers, NEW ok \in BOOLEAN,
           ScopeRemoved(c, ok)
    PROVE  Scope!Reattach(c)
<1> DEFINE S == scopeOp[c].scope
           js == [i \in Ids |-> IF jobs[i] \in S THEN NoObj ELSE jobs[i]]
<1>1. /\ scopeOp \in Operations /\ job \in [Objs -> JobRecord]
      /\ jobs \in [Ids -> Objs \cup {NoObj}]
      /\ ScopePurgeInvariant /\ Exact(jobs, job, scopeOp)
  BY DEF AccountInvariant, ScopePurgeInvariant, TypeOK, Operations
<1>2. /\ scopeOp[c].pc = "removing"
      /\ scopeOp'[c].pc = "idle"
      /\ \A d \in Consumers \ {c} : scopeOp'[d] = scopeOp[d]
      /\ jobs' = js /\ job' = Collected(js, job) /\ file' = file
  BY <1>1 DEF ScopeRemoved, Idle, Operations
<1>3. \A r \in S : job[r].reads = 0
  BY <1>1, <1>2 DEF ScopePurgeInvariant, ScopeIsQuiescent
<1>4. Current(js) = Current(jobs) \ S
  BY <1>1, IdsAssumption DEF Current, Operations
<1> HIDE DEF js, S
<1>5. /\ ~Blank.execution
      /\ \A r \in Objs : \/ job'[r] = job[r]
                         \/ job'[r] = Blank /\ ~job[r].execution
      /\ \A r \in Current(js) : r \in Objs => job'[r] = job[r]
  BY <1>2 DEF Collected, Blank
<1>6. \A d \in Consumers : WritingIn(d)' = WritingIn(d)
  BY <1>5 DEF WritingIn, Consumer
<1>7. Current(js) \subseteq Objs /\ Current(jobs) \subseteq Objs BY <1>1, <1>4 DEF Current
<1>8. \A d \in Consumers : ReadingIn(d)' = ReadingIn(d)
  <2>1. Current(jobs') = Current(js) BY <1>2
  <2>2. \A r \in Current(jobs) : job[r].reads > 0 => r \in Current(js)
    BY <1>3, <1>4
  <2>3. Current(jobs)' = Current(js) BY <1>2 DEF Current
  <2> QED BY <1>4, <1>5, <1>7, <2>2, <2>3 DEF ReadingIn, Consumer
<1>9. \A d \in Consumers : FilesOf(d)' = FilesOf(d) BY <1>2 DEF FilesOf
<1>10. {d \in Consumers : scopeOp'[d].pc = "removing"}
        = {d \in Consumers : scopeOp[d].pc = "removing"} \ {c}
  BY <1>2
<1> QED BY <1>2, <1>6, <1>8, <1>9, <1>10 DEF Scope!Reattach

\* With the process go all users.
LEMMA RestartDies ==
    ASSUME Restart
    PROVE  Scope!Die
<1>1. /\ ~Blank.execution
      /\ \A r \in Objs : job'[r] = Blank
      /\ Current(jobs)' = {} /\ file' = file
      /\ \A c \in Consumers : scopeOp'[c].pc = "idle"
  BY DEF Restart, Current, Blank, Idle
<1>2. \A c \in Consumers : /\ WritingIn(c)' = {} /\ ReadingIn(c)' = {}
                           /\ FilesOf(c)' = FilesOf(c)
  BY <1>1 DEF WritingIn, ReadingIn, FilesOf
<1> QED BY <1>1, <1>2 DEF Scope!Die

\* Every step of the manager is a step of the scope contract.
LEMMA StepIsScopeStep ==
    ASSUME RunnersPublishAtHome, AccountInvariant, AccountInvariant', [Next]_vars
    PROVE  [Scope!Next]_(Scope!vars)
<1> USE DEF Removing
<1>0. scopeOp \in Operations
  BY DEF AccountInvariant, ScopePurgeInvariant, TypeOK, Operations
<1>1. ASSUME file' = file, \A c \in Consumers : Removing(c)' <=> Removing(c)
      PROVE  [Scope!Next]_(Scope!vars)
  BY <1>1, UsersComeAndGo DEF Scope!Next
<1>2. ASSUME file' = file, scopeOp' = scopeOp PROVE [Scope!Next]_(Scope!vars)
  BY <1>1, <1>2
<1>3. ASSUME file' = file, NEW c \in Consumers, scopeOp[c].pc # "removing",
             NEW op, op.pc # "removing", scopeOp' = [scopeOp EXCEPT ![c] = op]
      PROVE  [Scope!Next]_(Scope!vars)
  BY <1>0, <1>1, <1>3 DEF Operations
<1>4. CASE ClientStep
  <2>1. ASSUME NEW i \in Ids, PurgeConsumerCache(i) PROVE [Scope!Next]_(Scope!vars)
    <3> DEFINE op == [pc |-> "settling", job |-> KeptJobs[i],
                      scope |-> ScopeJobs(ConsumerOf[i], KeptJobs, KeptRecords)]
    <3>1. /\ scopeOp[ConsumerOf[i]].pc # "removing" /\ op.pc # "removing"
          /\ scopeOp' = [scopeOp EXCEPT ![ConsumerOf[i]] = op]
          /\ file' = file
      BY <2>1 DEF PurgeConsumerCache
    <3> HIDE DEF op
    <3> QED BY <1>3, <3>1, OwnershipAssumption
  <2>2. CASE \A i \in Ids : ~PurgeConsumerCache(i)
    <3>1. scopeOp' = scopeOp /\ file' = file
      BY <1>4, <2>2, BoundAssumption
      DEF ClientStep, Get, EvictExpired, Create, CreateRefused, Cancel, Observe,
          RenewObserver, RequestMedia, AcquireMedia, StatusAnswers, ReleaseMedia,
          Purge, UpdateJob, ReaderStep
    <3> QED BY <1>2, <3>1
  <2> QED BY <2>1, <2>2
<1>5. ASSUME NEW r \in Objs, RecordStep(r) PROVE [Scope!Next]_(Scope!vars)
  <2>1. CASE RunnerPublishes(r) BY <2>1, PublishesInScope DEF Scope!Next
  <2>2. CASE PurgeUnlinks(r) BY <2>2, UnlinksInScope DEF Scope!Next
  <2>3. ASSUME NEW ok \in BOOLEAN, VerificationSettles(r, ok)
        PROVE  [Scope!Next]_(Scope!vars)
    <3>1. /\ file' = file
          /\ \A c \in Consumers :
                \/ scopeOp'[c].pc = scopeOp[c].pc
                \/ scopeOp[c].pc = "verifying" /\ scopeOp'[c].pc = "verified"
      BY <1>0, <2>3 DEF VerificationSettles, Operations
    <3> QED BY <1>1, <3>1
  <2>4. CASE PurgeUnlinkFails(r)
    <3>1. CASE file' # file BY <2>4, <3>1, UnlinksInScope DEF Scope!Next
    <3>2. CASE file' = file
      <4>1. scopeOp' = scopeOp BY <2>4 DEF PurgeUnlinkFails
      <4> QED BY <1>2, <3>2, <4>1
    <3> QED BY <3>1, <3>2
  <2>5. CASE /\ ~RunnerPublishes(r) /\ ~PurgeUnlinks(r) /\ ~PurgeUnlinkFails(r)
             /\ \A ok \in BOOLEAN : ~VerificationSettles(r, ok)
    <3>1. scopeOp' = scopeOp /\ file' = file
      BY <1>5, <2>5 DEF RecordStep, ObserverLeaseTimer, ExecutionDeadline,
         RunnerSettles, PurgeDrained, PurgeDrainTimeout, PurgeVerified,
         PurgeCompletes, UpdateJob, PurgeStep
    <3> QED BY <1>2, <3>1
  <2> QED BY <2>1, <2>2, <2>3, <2>4, <2>5
<1>6. ASSUME NEW c \in Consumers, ScopePurgeStep(c) PROVE [Scope!Next]_(Scope!vars)
  <2>1. CASE ScopeDetaches(c) BY <2>1, DetachesScope DEF Scope!Next
  <2>2. ASSUME NEW ok \in BOOLEAN, ScopeRemoved(c, ok)
        PROVE  [Scope!Next]_(Scope!vars)
    BY <2>2, ReattachesScope DEF Scope!Next
  <2>3. ASSUME NEW from, NEW to, from # "removing", to # "removing",
               ScopeStep(c, from, to), file' = file
        PROVE  [Scope!Next]_(Scope!vars)
    <3> DEFINE op == [scopeOp[c] EXCEPT !.pc = to]
    <3>1. op.pc # "removing" /\ scopeOp[c].pc # "removing"
      BY <1>0, <2>3 DEF ScopeStep, Operations
    <3>2. scopeOp' = [scopeOp EXCEPT ![c] = op] BY <2>3 DEF ScopeStep
    <3> HIDE DEF op
    <3> QED BY <1>3, <2>3, <3>1, <3>2
  <2>4. CASE \/ ScopeExecutionsSettle(c) \/ ScopeReadsDrain(c) \/ ScopeVerifies(c)
             \/ ScopeVerified(c) \/ ScopeScavenges(c)
    BY <2>3, <2>4 DEF ScopeExecutionsSettle, ScopeReadsDrain, ScopeVerifies,
                      ScopeVerified, ScopeScavenges, scopeRest
  <2>5. CASE ScopeTimeout(c) \/ ScopeInvalid(c) \/ ScopeFilesFail(c)
    <3>1. /\ scopeOp[c].pc # "removing" /\ scopeOp' = [scopeOp EXCEPT ![c] = Idle]
          /\ file' = file
      BY <2>5 DEF ScopeTimeout, ScopeInvalid, ScopeFilesFail, ScopeGivesUp
    <3>2. Idle.pc # "removing" BY DEF Idle
    <3> HIDE DEF Idle
    <3> QED BY <1>3, <3>1, <3>2
  <2> QED BY <1>6, <2>1, <2>2, <2>4, <2>5 DEF ScopePurgeStep
<1>7. CASE TimeStep
  BY <1>2, <1>7 DEF TimeStep, Outlive, LeaseLapses, TombstoneOutlives, timeRest
<1>8. CASE EngineStep
  <2>1. CASE Restart BY <2>1, RestartDies DEF Scope!Next
  <2>2. CASE ~Restart BY <1>2, <1>8, <2>2 DEF EngineStep, Close, Scavenge
  <2> QED BY <2>1, <2>2
<1>9. CASE UNCHANGED vars BY <1>2, <1>9 DEF vars
<1> QED BY <1>4, <1>5, <1>6, <1>7, <1>8, <1>9 DEF Next

\* The job manager implements the cache scope: no runner writes into a directory
\* and nobody reads from it from its rename until its removal is over.
THEOREM ManagerImplementsCacheScope ==
    ASSUME RunnersPublishAtHome
    PROVE  Spec => ImplementsCacheScope
<1>1. Init => Scope!Init
  <2> SUFFICES ASSUME Init PROVE Scope!Init
    OBVIOUS
  <2>1. /\ ~Blank.execution /\ \A r \in Objs : job[r] = Blank
        /\ Current(jobs) = {} /\ \A c \in Consumers : scopeOp[c].pc = "idle"
    BY DEF Init, Current, Blank, Idle
  <2>2. \A c \in Consumers : WritingIn(c) = {} /\ ReadingIn(c) = {}
                             /\ FilesOf(c) \subseteq Artifacts
    BY <2>1 DEF WritingIn, ReadingIn, FilesOf
  <2> QED BY <2>1, <2>2 DEF Scope!Init
<1>2. AccountInvariant /\ AccountInvariant' /\ [Next]_vars => [Scope!Next]_(Scope!vars)
  BY StepIsScopeStep
<1> QED BY <1>1, <1>2, AccountInvariantHolds, PTL DEF Spec, ImplementsCacheScope, Scope!Spec
=============================================================================
