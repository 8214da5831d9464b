--------------------------- MODULE VodJobManager ---------------------------
(***************************************************************************)
(* The VOD job manager of the local media engine                           *)
(* (scripts/chzzk-vod-job-manager.ts): one queue of materialisation jobs,  *)
(* their runners, the browser documents that observe them, the media       *)
(* readers that play their artifacts, and the two operations that delete   *)
(* artifacts from the managed cache.                                       *)
(*                                                                         *)
(* The program is single threaded: an action is what runs between two      *)
(* points at which a handler awaits.  The code compares job records by     *)
(* identity (jobs.get(id) === job), so a record is an object of a small    *)
(* heap, Objs, and jobs maps an id to the object that now stands for it.   *)
(*                                                                         *)
(* Clocks are abstracted to the events the code tells apart: an observer   *)
(* lease that has run out, a terminal record or tombstone whose lifetime   *)
(* has passed, a timer that fires.                                         *)
(***************************************************************************)
EXTENDS Integers, Sequences, FiniteSets

CONSTANTS
    Ids,            \* request fingerprints; a job's identity
    Objs,           \* bound: job records alive in the heap at once
    NoObj,
    Consumers,      \* editing sessions
    ConsumerOf,     \* request.consumerId
    Artifacts,      \* physical files a runner may publish
    ArtifactOf,     \* where the runner of a request publishes
    ScopeOf,        \* the consumer whose cache directory holds a file
    Ephemeral,      \* ids whose continuationPolicy is "ephemeral-preview"
    Observers,      \* browser documents
    Readers,        \* media or status requests being served
    Concurrency, RecordLimit, QueueLimit,
    AgingIds,       \* bound: ids whose records and tombstones outlive their TTL
    PurgeIds,       \* bound: ids a client asks to purge
    ScopePurgeIds,  \* bound: ids through which a client purges a whole scope
    Boot            \* the initialisation's entry in the quarantine chain

ASSUME IdsAssumption == Ids # {} /\ IsFiniteSet(Objs) /\ NoObj \notin Objs
ASSUME OwnershipAssumption ==
    /\ ConsumerOf \in [Ids -> Consumers]
    /\ ArtifactOf \in [Ids -> Artifacts]
    /\ ScopeOf \in [Artifacts -> Consumers]
    /\ Boot \notin Consumers
ASSUME LimitAssumption ==
    /\ Concurrency \in 1..4
    /\ RecordLimit \in Nat /\ RecordLimit >= Concurrency
    /\ QueueLimit \in 1..RecordLimit
ASSUME BoundAssumption == PurgeIds \subseteq Ids /\ ScopePurgeIds \subseteq Ids

VARIABLES
    jobs,             \* id -> object, the Map of current records
    job,              \* the objects themselves
    queue,            \* object -> its 1-based place in the FIFO, 0 when outside
    runningJobs,
    reader,           \* media and status requests in progress
    scopeOp,          \* consumerPurgeOperations: one descriptor per consumer
    purgeTombstones, consumerPurgeTombstones,
    quarantineTail,   \* the serial chain of quarantine operations, head running
    closing,
    file,             \* which artifacts exist on disk
    quarantined       \* trees left under the quarantine directory, per consumer

vars == << jobs, job, queue, runningJobs, reader, scopeOp, purgeTombstones,
           consumerPurgeTombstones, quarantineTail, closing, file, quarantined >>

Terminal == {"completed", "failed", "cancelled"}

Reasons == {"user-requested", "queued-observer-expired",
            "ephemeral-observer-expired", "engine-shutdown",
            "execution-deadline"}

JobRecord ==
    [ id             : Ids,
      \* "running" stands for the runner's stages, resolving to muxing
      state          : {"free", "queued", "running"} \cup Terminal,
      cancellation   : Reasons \cup {"none"},   \* also: controller aborted
      execution      : BOOLEAN,                 \* the runner has not settled
      published      : BOOLEAN,                 \* the runner has its artifact
      deadlineTimer  : BOOLEAN,
      enforced       : BOOLEAN,                 \* observerLeaseEnforced
      leases         : SUBSET Observers,        \* observerLeaseExpiries
      lapsed         : SUBSET Observers,        \* those whose expiry has passed
      leaseTimer     : BOOLEAN,
      outlived       : BOOLEAN,                 \* older than its TTL
      reads          : Nat,                     \* activeMediaReads
      verification   : BOOLEAN,                 \* artifactVerification pending
      purging        : BOOLEAN,
      purgeOperation : {"none", "draining", "verifying", "verified",
                        "unlinking", "unlinked"},
      consumerPurging : BOOLEAN ]

\* What the heap holds where no record is alive.
Blank ==
    [ id |-> CHOOSE i \in Ids : TRUE, state |-> "free", cancellation |-> "none",
      execution |-> FALSE, published |-> FALSE, deadlineTimer |-> FALSE,
      enforced |-> FALSE, leases |-> {}, lapsed |-> {}, leaseTimer |-> FALSE,
      outlived |-> FALSE, reads |-> 0, verification |-> FALSE,
      purging |-> FALSE, purgeOperation |-> "none", consumerPurging |-> FALSE ]

NewJob(i) == [Blank EXCEPT !.id = i, !.state = "queued"]

Idle == [pc |-> "idle", job |-> NoObj, scope |-> {}]

-----------------------------------------------------------------------------
(* Records and the map *)

Current(js) == {js[i] : i \in Ids} \ {NoObj}

Consumer(o) == ConsumerOf[o.id]

TerminalJob(o) == o.state \in Terminal

\* Fault: eviction forgets the open reads.
EvictsRead(o) ==
    TerminalJob(o) /\ ~o.execution /\ ~o.purging /\ ~o.consumerPurging
        /\ o.purgeOperation = "none" /\ ~o.verification

EvictableTerminalJob(o) ==
    /\ TerminalJob(o)
    /\ ~o.execution
    /\ o.reads = 0
    /\ ~o.purging
    /\ ~o.consumerPurging
    /\ o.purgeOperation = "none"
    /\ ~o.verification

\* The garbage collector: an object that neither the map nor a promise still
\* holds is free again.
Collected(js, j) ==
    [r \in Objs |->
        IF r \in Current(js) \/ j[r].execution \/ j[r].verification
             \/ j[r].reads > 0 \/ j[r].purgeOperation # "none"
        THEN j[r] ELSE Blank]

\* Fault: the compacted queue comes out in reverse.
CompactReversed(q, keep) ==
    [r \in Objs |->
        IF r \in keep /\ q[r] > 0
        THEN Cardinality({s \in keep : q[s] > 0 /\ q[s] >= q[r]})
        ELSE 0]

\* compactQueue: keep what is still queued and current, closing the gaps.
Compact(q, keep) ==
    [r \in Objs |->
        IF r \in keep /\ q[r] > 0
        THEN Cardinality({s \in keep : q[s] > 0 /\ q[s] <= q[r]})
        ELSE 0]

\* Fault: a cancelled record stays in the queue.
CompactNothing(q, js, j) == q

CompactQueue(q, js, j) ==
    Compact(q, {r \in Current(js) : j[r].state = "queued"})

-----------------------------------------------------------------------------
(* Cancellation and observer leases *)

FinishObserverLeases(o) ==
    [o EXCEPT !.leases = {}, !.lapsed = {}, !.leaseTimer = FALSE]

\* Fault: a second initiator overwrites the first.
FinalizeAgain(o, reason) ==
    IF o.state \in {"completed", "failed"} THEN o
    ELSE FinishObserverLeases([o EXCEPT !.cancellation = reason,
            !.state = "cancelled", !.deadlineTimer = FALSE, !.outlived = FALSE])

\* Fault: shutdown cancels the queue and leaves the runners to themselves.
FinalizeSparesRunners(o, reason) ==
    IF TerminalJob(o) \/ o.cancellation # "none"
         \/ (reason = "engine-shutdown" /\ o.state = "running") THEN o
    ELSE FinishObserverLeases([o EXCEPT !.cancellation = reason,
            !.state = "cancelled", !.deadlineTimer = FALSE, !.outlived = FALSE])

\* The first initiator wins: a terminal or already cancelled record is left
\* alone.  Every caller passes a record that is current.
FinalizeCancellation(o, reason) ==
    IF TerminalJob(o) \/ o.cancellation # "none" THEN o
    ELSE FinishObserverLeases(
            [o EXCEPT !.cancellation = reason, !.state = "cancelled",
                      !.deadlineTimer = FALSE, !.outlived = FALSE])

\* Fault: only a queued job is given up with its last observer.
AbandonQueuedOnly(o) ==
    CASE TerminalJob(o) -> FinishObserverLeases(o)
      [] o.state = "queued" -> FinalizeCancellation(o, "queued-observer-expired")
      [] OTHER -> [o EXCEPT !.leaseTimer = FALSE]

CancelAbandonedJob(o) ==
    CASE TerminalJob(o) -> FinishObserverLeases(o)
      [] o.state = "queued" -> FinalizeCancellation(o, "queued-observer-expired")
      [] o.state = "running" /\ o.id \in Ephemeral ->
            FinalizeCancellation(o, "ephemeral-observer-expired")
      [] OTHER -> [o EXCEPT !.leaseTimer = FALSE]

ExpireObserverLeases(o) ==
    CASE TerminalJob(o) -> FinishObserverLeases(o)
      [] ~TerminalJob(o) /\ ~o.enforced -> o
      [] OTHER ->
            LET kept == [o EXCEPT !.leases = o.leases \ o.lapsed, !.lapsed = {}]
            IN  IF kept.leases = {} THEN CancelAbandonedJob(kept) ELSE kept

ScheduleObserverLeaseExpiry(o) ==
    [o EXCEPT !.leaseTimer = o.enforced /\ ~TerminalJob(o) /\ o.leases # {}]

ReapObserverLeases ==
    [r \in Objs |->
        IF r \in Current(jobs)
        THEN ScheduleObserverLeaseExpiry(ExpireObserverLeases(job[r]))
        ELSE job[r]]

-----------------------------------------------------------------------------
(* evictExpired, which opens most handlers: reap the leases, then drop what   *)
(* has outlived its TTL.                                                      *)

KeptJobs ==
    [i \in Ids |->
        IF jobs[i] # NoObj /\ ReapObserverLeases[jobs[i]].outlived
             /\ EvictableTerminalJob(ReapObserverLeases[jobs[i]])
        THEN NoObj ELSE jobs[i]]

KeptRecords == Collected(KeptJobs, ReapObserverLeases)

KeptQueue == CompactQueue(queue, KeptJobs, ReapObserverLeases)

Unexpired(tombstones) ==
    [i \in Ids |-> IF tombstones[i] = "outlived" THEN "none" ELSE tombstones[i]]

EvictTombstones ==
    /\ purgeTombstones' = Unexpired(purgeTombstones)
    /\ consumerPurgeTombstones' = Unexpired(consumerPurgeTombstones)

-----------------------------------------------------------------------------
(* startNext: fill the free slots from the head of the queue. *)

\* Fault: a runner starts without its deadline.
StartedWithoutDeadline(o) == [o EXCEPT !.state = "running", !.execution = TRUE]

Started(o) ==
    [o EXCEPT !.state = "running", !.execution = TRUE, !.deadlineTimer = TRUE]

\* Fault: the last slot is never used.
SlotsMinusOne(q, run) ==
    LET waiting == Cardinality({r \in Objs : q[r] > 0})
    IN  IF closing \/ waiting = 0 \/ run + 1 >= Concurrency THEN 0 ELSE 1

Slots(q, run) ==
    LET waiting == Cardinality({r \in Objs : q[r] > 0})
        free == IF closing THEN 0 ELSE Concurrency - run
    IN  IF waiting < free THEN waiting ELSE free

\* q holds no cancelled record: every cancellation compacts the queue.
StartNext(j, q, run) ==
    LET n == Slots(q, run) IN
    /\ job' = [r \in Objs |-> IF q[r] \in 1..n THEN Started(j[r]) ELSE j[r]]
    /\ queue' = [r \in Objs |-> IF q[r] > n THEN q[r] - n ELSE 0]
    /\ runningJobs' = run + n

-----------------------------------------------------------------------------
(* Clients create, observe and cancel jobs *)

EvictExpired ==
    /\ jobs' = KeptJobs
    /\ job' = KeptRecords
    /\ queue' = KeptQueue
    /\ EvictTombstones
    /\ UNCHANGED <<runningJobs, reader, scopeOp, quarantineTail, closing, file,
                   quarantined>>

\* get, and every refusal or de-duplicated answer of a handler that evicts
\* before it looks.
Get == EvictExpired

\* A purge in progress and a record that is not failed or cancelled stand in
\* the way of a new one.
MayReplace(i) ==
    KeptJobs[i] # NoObj =>
        /\ ~KeptRecords[KeptJobs[i]].purging
        /\ KeptRecords[KeptJobs[i]].purgeOperation = "none"
        /\ KeptRecords[KeptJobs[i]].state \in {"failed", "cancelled"}

CancelledWriterIn(c) ==
    \E r \in Current(KeptJobs) :
        /\ Consumer(KeptRecords[r]) = c
        /\ KeptRecords[r].state = "cancelled" /\ KeptRecords[r].execution

\* Fault: a retry does not wait for the writer it cancelled.
CreateOverWriter(i) ==
    ~closing /\ scopeOp[ConsumerOf[i]].pc = "idle" /\ MayReplace(i)

\* What must hold of the map for create to go on past its early exits.
MayCreate(i) ==
    /\ ~closing
    /\ scopeOp[ConsumerOf[i]].pc = "idle"
    /\ ~CancelledWriterIn(ConsumerOf[i])
    /\ MayReplace(i)

\* evictOldestTerminal, while the map is full: at most one record goes, since
\* the map never exceeds the limit.  Which one is oldest is not modelled.
Roomier ==
    LET candidates == {k \in Ids : /\ KeptJobs[k] # NoObj
                                   /\ EvictableTerminalJob(KeptRecords[KeptJobs[k]])}
    IN  IF Cardinality(Current(KeptJobs)) >= RecordLimit /\ candidates # {}
        THEN {[KeptJobs EXCEPT ![k] = NoObj] : k \in candidates}
        ELSE {KeptJobs}

Waiting(q) == Cardinality({r \in Objs : q[r] > 0})

HasRoom(js) ==
    /\ Cardinality(Current(js)) < RecordLimit
    /\ Waiting(CompactQueue(KeptQueue, js, KeptRecords)) < QueueLimit

\* Both tombstones of the id go before the limits are looked at.
ForgetTombstones(i) ==
    /\ purgeTombstones' = [Unexpired(purgeTombstones) EXCEPT ![i] = "none"]
    /\ consumerPurgeTombstones' =
            [Unexpired(consumerPurgeTombstones) EXCEPT ![i] = "none"]

Create(i) ==
    /\ MayCreate(i)
    /\ \E js \in Roomier, r \in Objs :
        LET roomy == Collected(js, KeptRecords)
            q     == CompactQueue(KeptQueue, js, KeptRecords)
            js2   == [js EXCEPT ![i] = r]
        IN  /\ HasRoom(js)
            /\ job[r].state = "free" /\ \A x \in Readers : reader[x].obj # r
            /\ jobs' = js2
            /\ StartNext(Collected(js2, [roomy EXCEPT ![r] = NewJob(i)]),
                         [q EXCEPT ![r] = Waiting(q) + 1], runningJobs)
    /\ ForgetTombstones(i)
    /\ UNCHANGED <<reader, scopeOp, quarantineTail, closing, file, quarantined>>

\* The answer is BUSY, yet a terminal record and the tombstones are gone.
CreateRefused(i) ==
    /\ MayCreate(i)
    /\ \E js \in Roomier :
        /\ ~HasRoom(js)
        /\ jobs' = js
        /\ job' = Collected(js, KeptRecords)
        /\ queue' = CompactQueue(KeptQueue, js, KeptRecords)
    /\ ForgetTombstones(i)
    /\ UNCHANGED <<runningJobs, reader, scopeOp, quarantineTail, closing, file,
                   quarantined>>

Observe(i, w) ==
    LET r == KeptJobs[i]
        observed == [KeptRecords[r] EXCEPT !.enforced = TRUE,
                        !.leases = @ \cup {w}, !.lapsed = @ \ {w}]
    IN
    /\ r # NoObj /\ ~TerminalJob(KeptRecords[r])
    /\ jobs' = KeptJobs
    /\ job' = [KeptRecords EXCEPT ![r] = ScheduleObserverLeaseExpiry(observed)]
    /\ queue' = KeptQueue
    /\ EvictTombstones
    /\ UNCHANGED <<runningJobs, reader, scopeOp, quarantineTail, closing, file,
                   quarantined>>

\* An update of a single current record, and of the queue it may leave.
UpdateJob(r, o) ==
    /\ job' = [job EXCEPT ![r] = o]
    /\ queue' = CompactQueue(queue, jobs, [job EXCEPT ![r] = o])
    /\ UNCHANGED <<jobs, runningJobs, reader, scopeOp, purgeTombstones,
                   consumerPurgeTombstones, quarantineTail, closing, file,
                   quarantined>>

RenewObserver(i, w) ==
    LET o == ExpireObserverLeases(job[jobs[i]]) IN
    /\ jobs[i] # NoObj /\ ~TerminalJob(job[jobs[i]])
    /\ UpdateJob(jobs[i],
            IF TerminalJob(o) \/ w \notin o.leases THEN o
            ELSE ScheduleObserverLeaseExpiry(o))

ObserverLeaseTimer(r) ==
    /\ job[r].leaseTimer /\ job[r].lapsed # {}
    /\ UpdateJob(r, ScheduleObserverLeaseExpiry(
            ExpireObserverLeases([job[r] EXCEPT !.leaseTimer = FALSE])))

Cancel(i) ==
    /\ jobs[i] # NoObj /\ ~TerminalJob(job[jobs[i]])
    /\ ~job[jobs[i]].consumerPurging /\ scopeOp[ConsumerOf[i]].pc = "idle"
    /\ UpdateJob(jobs[i], FinalizeCancellation(job[jobs[i]], "user-requested"))

ExecutionDeadline(r) ==
    /\ job[r].deadlineTimer
    /\ UpdateJob(r, FinalizeCancellation([job[r] EXCEPT !.deadlineTimer = FALSE],
                                         "execution-deadline"))

-----------------------------------------------------------------------------
(* Runners *)

\* The runner moves its finished artifact into place, or finds the same file
\* there and takes it over.  Nothing stops one that was just cancelled.
RunnerPublishes(r) ==
    /\ job[r].execution /\ ~job[r].published
    /\ job' = [job EXCEPT ![r].published = TRUE]
    /\ file' = [file EXCEPT ![ArtifactOf[job[r].id]] = "present"]
    /\ UNCHANGED <<jobs, queue, runningJobs, reader, scopeOp, purgeTombstones,
                   consumerPurgeTombstones, quarantineTail, closing, quarantined>>

\* Fault: the collision is looked for among the jobs of the same consumer.
SameConsumerPathCollision(r) ==
    \E s \in Current(jobs) \ {r} :
        /\ Consumer(job[s]) = Consumer(job[r])
        /\ job[s].state = "completed"
        /\ ArtifactOf[job[s].id] = ArtifactOf[job[r].id]

CrossConsumerPathCollision(r) ==
    \E s \in Current(jobs) \ {r} :
        /\ Consumer(job[s]) # Consumer(job[r])
        /\ job[s].state = "completed"
        /\ ArtifactOf[job[s].id] = ArtifactOf[job[r].id]

\* The runner's promise settles: the result is judged, the slot is given back
\* and the next job starts, with nothing in between.
Settled(o, outcome) ==
    LET final == IF o.cancellation # "none" THEN o ELSE [o EXCEPT !.state = outcome]
    IN  FinishObserverLeases([final EXCEPT !.execution = FALSE,
                                !.deadlineTimer = FALSE, !.outlived = FALSE])

RunnerSettles(r, outcome) ==
    /\ job[r].execution
    /\ outcome = "completed" => job[r].published /\ ~CrossConsumerPathCollision(r)
    /\ StartNext([job EXCEPT ![r] = Settled(job[r], outcome)], queue,
                 runningJobs - 1)
    /\ UNCHANGED <<jobs, reader, scopeOp, purgeTombstones,
                   consumerPurgeTombstones, quarantineTail, closing, file,
                   quarantined>>

-----------------------------------------------------------------------------
(* Serving a completed artifact *)

\* resolveMedia or publicStatus starts, or joins, the verification of r.
RequestMedia(x, i, kind) ==
    LET r == KeptJobs[i] IN
    /\ reader[x].pc = "idle"
    /\ r # NoObj /\ KeptRecords[r].state = "completed"
    /\ ~KeptRecords[r].purging /\ ~KeptRecords[r].consumerPurging
    /\ jobs' = KeptJobs
    /\ job' = [KeptRecords EXCEPT ![r].verification = TRUE]
    /\ queue' = KeptQueue
    /\ reader' = [reader EXCEPT ![x] = [pc |-> kind, id |-> i, obj |-> r]]
    /\ EvictTombstones
    /\ UNCHANGED <<runningJobs, scopeOp, quarantineTail, closing, file,
                   quarantined>>

Invalidated(o) == [o EXCEPT !.state = "failed", !.outlived = FALSE]

\* verifyArtifactNow settles.  It succeeds only on an intact file; an I/O error
\* or the shutdown's abort fails it on any file.  Whoever awaited it goes on.
VerificationSettles(r, ok) ==
    LET o == [job[r] EXCEPT !.verification = FALSE,
                !.purgeOperation = IF @ = "verifying" THEN "verified" ELSE @]
    IN
    /\ job[r].verification
    /\ ok => file[ArtifactOf[job[r].id]] = "present"
    /\ job' = Collected(jobs, [job EXCEPT ![r] = IF ok THEN o ELSE Invalidated(o)])
    /\ reader' = [x \in Readers |->
            IF reader[x].obj = r /\ reader[x].pc = "media"
            THEN [reader[x] EXCEPT !.pc = "resolved"]
            ELSE IF reader[x].obj = r /\ reader[x].pc = "status"
            THEN [reader[x] EXCEPT !.pc = "answering"]
            ELSE reader[x]]
    /\ scopeOp' = [c \in Consumers |->
            IF scopeOp[c].pc = "verifying" /\ scopeOp[c].job = r
            THEN [scopeOp[c] EXCEPT !.pc = "verified"] ELSE scopeOp[c]]
    /\ UNCHANGED <<jobs, queue, runningJobs, purgeTombstones,
                   consumerPurgeTombstones, quarantineTail, closing, file,
                   quarantined>>

IdleReader == [pc |-> "idle", id |-> CHOOSE i \in Ids : TRUE, obj |-> NoObj]

ReaderStep(x, o, next) ==
    /\ job' = Collected(jobs, [job EXCEPT ![reader[x].obj] = o])
    /\ reader' = [reader EXCEPT ![x] = next]
    /\ UNCHANGED <<jobs, queue, runningJobs, scopeOp, purgeTombstones,
                   consumerPurgeTombstones, quarantineTail, closing, file,
                   quarantined>>

\* What awaited the verification may have changed while it waited.
Available(x) ==
    /\ jobs[reader[x].id] = reader[x].obj
    /\ ~job[reader[x].obj].purging
    /\ ~job[reader[x].obj].consumerPurging

\* Fault: the lease is counted before the record is checked again.
CountsBeforeCheck(x) ==
    LET o == job[reader[x].obj] IN
    /\ reader[x].pc = "resolved"
    /\ ReaderStep(x, [o EXCEPT !.reads = @ + 1],
                  IF o.state = "completed" /\ Available(x)
                  THEN [reader[x] EXCEPT !.pc = "reading"] ELSE IdleReader)

AcquireMedia(x) ==
    LET o == job[reader[x].obj]
        touched == IF o.state = "completed" THEN [o EXCEPT !.outlived = FALSE] ELSE o
    IN
    /\ reader[x].pc = "resolved"
    /\ IF o.state = "completed" /\ Available(x)
       THEN ReaderStep(x, [touched EXCEPT !.reads = @ + 1],
                       [reader[x] EXCEPT !.pc = "reading"])
       ELSE ReaderStep(x, touched, IdleReader)

StatusAnswers(x) ==
    LET o == job[reader[x].obj] IN
    /\ reader[x].pc = "answering"
    /\ ReaderStep(x, IF o.state = "completed" /\ Available(x)
                     THEN [o EXCEPT !.outlived = FALSE] ELSE o,
                  IdleReader)

\* Fault: a repeated release counts again.
ReleasesTwice(x) ==
    /\ reader[x].pc \in {"reading", "released"}
    /\ ReaderStep(x, [job[reader[x].obj] EXCEPT !.reads = @ - 1],
                  IF reader[x].pc = "reading"
                  THEN [reader[x] EXCEPT !.pc = "released"] ELSE IdleReader)

\* release may be called again, by the stream's close and by its finally.
ReleaseMedia(x) ==
    LET o == job[reader[x].obj] IN
    \/ /\ reader[x].pc = "reading"
       /\ ReaderStep(x, [o EXCEPT !.reads = IF @ > 0 THEN @ - 1 ELSE 0],
                     [reader[x] EXCEPT !.pc = "released"])
    \/ /\ reader[x].pc = "released"
       /\ ReaderStep(x, o, IdleReader)

-----------------------------------------------------------------------------
(* purge: delete the one artifact of a completed job *)

PurgeStep(r, o) ==
    /\ job' = [job EXCEPT ![r] = o]
    /\ UNCHANGED <<jobs, queue, runningJobs, reader, scopeOp, purgeTombstones,
                   consumerPurgeTombstones, quarantineTail, closing, file,
                   quarantined>>

PurgeGivesUp(o) == [o EXCEPT !.purging = FALSE, !.purgeOperation = "none"]

Purge(i) ==
    LET r == KeptJobs[i] IN
    /\ Unexpired(purgeTombstones)[i] = "none"
    /\ r # NoObj /\ KeptRecords[r].state = "completed"
    /\ ~KeptRecords[r].consumerPurging /\ scopeOp[ConsumerOf[i]].pc = "idle"
    /\ KeptRecords[r].purgeOperation = "none"
    /\ jobs' = KeptJobs
    /\ job' = [KeptRecords EXCEPT ![r].purging = TRUE,
                                  ![r].purgeOperation = "draining"]
    /\ queue' = KeptQueue
    /\ EvictTombstones
    /\ UNCHANGED <<runningJobs, reader, scopeOp, quarantineTail, closing, file,
                   quarantined>>

\* The open reads of this record end, or the drain timer fires first.
PurgeDrained(r) ==
    LET o == job[r] IN
    /\ o.purgeOperation = "draining" /\ o.reads = 0
    /\ PurgeStep(r, IF o.state = "completed"
                    THEN [o EXCEPT !.verification = TRUE,
                                   !.purgeOperation = "verifying"]
                    ELSE PurgeGivesUp(o))

PurgeDrainTimeout(r) ==
    /\ job[r].purgeOperation = "draining" /\ job[r].reads > 0
    /\ PurgeStep(r, PurgeGivesUp(job[r]))

PurgeVerified(r) ==
    LET o == job[r] IN
    /\ o.purgeOperation = "verified"
    /\ PurgeStep(r, IF o.state = "completed" /\ o.reads = 0
                    THEN [o EXCEPT !.purgeOperation = "unlinking"]
                    ELSE PurgeGivesUp(o))

\* assertCurrentJob, in the code's last step before the unlink.
PurgeUnlinks(r) ==
    /\ job[r].purgeOperation = "unlinking"
    /\ jobs[job[r].id] = r
    /\ file[ArtifactOf[job[r].id]] = "present"
    /\ file' = [file EXCEPT ![ArtifactOf[job[r].id]] = "absent"]
    /\ job' = [job EXCEPT ![r].purgeOperation = "unlinked"]
    /\ UNCHANGED <<jobs, queue, runningJobs, reader, scopeOp, purgeTombstones,
                   consumerPurgeTombstones, quarantineTail, closing, quarantined>>

\* The file is not the verified one any more, or the file system refuses; if it
\* refuses the stat that follows the unlink, the file is gone all the same.
PurgeUnlinkFails(r) ==
    LET a == ArtifactOf[job[r].id] IN
    /\ job[r].purgeOperation = "unlinking"
    /\ \/ UNCHANGED file
       \/ /\ jobs[job[r].id] = r /\ file[a] = "present"
          /\ file' = [file EXCEPT ![a] = "absent"]
    /\ job' = [job EXCEPT ![r] = PurgeGivesUp(job[r])]
    /\ UNCHANGED <<jobs, queue, runningJobs, reader, scopeOp, purgeTombstones,
                   consumerPurgeTombstones, quarantineTail, closing, quarantined>>

PurgeCompletes(r) ==
    LET js == [jobs EXCEPT ![job[r].id] = NoObj] IN
    /\ job[r].purgeOperation = "unlinked" /\ jobs[job[r].id] = r
    /\ purgeTombstones' = [purgeTombstones EXCEPT ![job[r].id] = "fresh"]
    /\ jobs' = js
    /\ job' = Collected(js, [job EXCEPT ![r].purgeOperation = "none"])
    /\ queue' = CompactQueue(queue, js, job)
    /\ UNCHANGED <<runningJobs, reader, scopeOp, consumerPurgeTombstones,
                   quarantineTail, closing, file, quarantined>>

-----------------------------------------------------------------------------
(* purgeConsumerCache: delete a consumer's whole cache scope *)

ScopeJobs(c, js, j) == {r \in Current(js) : Consumer(j[r]) = c}

PurgeConsumerCache(i) ==
    LET c     == ConsumerOf[i]
        scope == ScopeJobs(c, KeptJobs, KeptRecords)
        j     == [r \in Objs |-> IF r \in scope
                    THEN FinalizeCancellation(
                            [KeptRecords[r] EXCEPT !.consumerPurging = TRUE],
                            "user-requested")
                    ELSE KeptRecords[r]]
    IN
    /\ Unexpired(consumerPurgeTombstones)[i] = "none"
    /\ KeptJobs[i] # NoObj /\ KeptRecords[KeptJobs[i]].state = "completed"
    /\ scopeOp[c].pc = "idle"
    /\ \A r \in scope :
        /\ ~KeptRecords[r].purging /\ ~KeptRecords[r].consumerPurging
        /\ KeptRecords[r].purgeOperation = "none"
        /\ KeptRecords[r].state = "running" => KeptRecords[r].execution
        /\ KeptRecords[r].state = "completed" =>
                ScopeOf[ArtifactOf[KeptRecords[r].id]] = c
    /\ scopeOp' = [scopeOp EXCEPT
            ![c] = [pc |-> "settling", job |-> KeptJobs[i], scope |-> scope]]
    /\ jobs' = KeptJobs
    /\ job' = j
    /\ queue' = CompactQueue(KeptQueue, KeptJobs, j)
    /\ EvictTombstones
    /\ UNCHANGED <<runningJobs, reader, quarantineTail, closing, file, quarantined>>

\* assertCurrentConsumer
CurrentScope(c) ==
    /\ ScopeJobs(c, jobs, job) = scopeOp[c].scope
    /\ \A r \in scopeOp[c].scope : job[r].consumerPurging

ScopeStep(c, from, to) ==
    /\ scopeOp[c].pc = from
    /\ CurrentScope(c)
    /\ scopeOp' = [scopeOp EXCEPT ![c].pc = to]

ScopeGivesUp(c) ==
    /\ scopeOp' = [scopeOp EXCEPT ![c] = Idle]
    /\ job' = [r \in Objs |-> IF r \in scopeOp[c].scope \cap Current(jobs)
                              THEN [job[r] EXCEPT !.consumerPurging = FALSE]
                              ELSE job[r]]
    /\ UNCHANGED <<jobs, queue, runningJobs, reader, purgeTombstones,
                   consumerPurgeTombstones, closing, file, quarantined>>

scopeRest == <<jobs, queue, runningJobs, reader, purgeTombstones,
               consumerPurgeTombstones, closing, file>>

\* Fault: the purge does not wait for the runners it cancelled.
ScopeIgnoresExecutions(c) ==
    /\ ScopeStep(c, "settling", "draining")
    /\ UNCHANGED <<scopeRest, job, quarantineTail, quarantined>>

\* The cancelled runners of the scope stop writing.
ScopeExecutionsSettle(c) ==
    /\ ScopeStep(c, "settling", "draining")
    /\ \A r \in scopeOp[c].scope : ~job[r].execution
    /\ UNCHANGED <<scopeRest, job, quarantineTail, quarantined>>

\* Fault: only the reads of the purged job itself are waited for.
ScopeDrainsOne(c) ==
    /\ ScopeStep(c, "draining", "awaiting")
    /\ job[scopeOp[c].job].reads = 0
    /\ UNCHANGED <<scopeRest, job, quarantineTail, quarantined>>

ScopeReadsDrain(c) ==
    /\ ScopeStep(c, "draining", "awaiting")
    /\ \A r \in scopeOp[c].scope : job[r].reads = 0
    /\ UNCHANGED <<scopeRest, job, quarantineTail, quarantined>>

\* Fault: neither wait has a timer.
ScopeWaitsForever(c) ==
    /\ scopeOp[c].pc = "settling" /\ scopeOp[c].scope = {}
    /\ ScopeGivesUp(c)
    /\ UNCHANGED quarantineTail

\* One of the two timers fires first.
ScopeTimeout(c) ==
    /\ \/ scopeOp[c].pc = "settling" /\ \E r \in scopeOp[c].scope : job[r].execution
       \/ scopeOp[c].pc = "draining" /\ \E r \in scopeOp[c].scope : job[r].reads > 0
    /\ ScopeGivesUp(c)
    /\ UNCHANGED quarantineTail

\* Verifications begun before the purge are over; the job's own is run again.
ScopeVerifies(c) ==
    LET r == scopeOp[c].job IN
    /\ ScopeStep(c, "awaiting", "verifying")
    /\ \A s \in scopeOp[c].scope : ~job[s].verification
    /\ job[r].state = "completed"
    /\ job' = [job EXCEPT ![r].verification = TRUE]
    /\ UNCHANGED <<scopeRest, quarantineTail, quarantined>>

ScopeVerified(c) ==
    /\ ScopeStep(c, "verified", "queued")
    /\ job[scopeOp[c].job].state = "completed" /\ job[scopeOp[c].job].reads = 0
    /\ quarantineTail' = Append(quarantineTail, c)
    /\ UNCHANGED <<scopeRest, job, quarantined>>

ScopeInvalid(c) ==
    /\ \/ /\ scopeOp[c].pc = "awaiting"
          /\ \A s \in scopeOp[c].scope : ~job[s].verification
       \/ scopeOp[c].pc = "verified"
    /\ job[scopeOp[c].job].state # "completed"
    /\ ScopeGivesUp(c)
    /\ UNCHANGED quarantineTail

\* Fault: the operation does not wait for the one ahead of it in the chain.
ScopeIgnoresChain(c) ==
    /\ ScopeStep(c, "queued", "inspecting")
    /\ quarantined' = [quarantined EXCEPT ![c] = 0]
    /\ UNCHANGED <<scopeRest, job, quarantineTail>>

\* Inside the serial chain: first whatever an earlier purge left behind.
ScopeScavenges(c) ==
    /\ quarantineTail # <<>> /\ Head(quarantineTail) = c
    /\ ScopeStep(c, "queued", "inspecting")
    /\ quarantined' = [quarantined EXCEPT ![c] = 0]
    /\ UNCHANGED <<scopeRest, job, quarantineTail>>

\* Then the whole scope is renamed away in one step,
ScopeDetaches(c) ==
    /\ ScopeStep(c, "inspecting", "removing")
    /\ file' = [a \in Artifacts |-> IF ScopeOf[a] = c THEN "absent" ELSE file[a]]
    /\ quarantined' = [quarantined EXCEPT ![c] = @ + 1]
    /\ UNCHANGED <<jobs, job, queue, runningJobs, reader, purgeTombstones,
                   consumerPurgeTombstones, quarantineTail, closing>>

\* scavenging, the inspection or the rename fails: nothing was detached,
ScopeFilesFail(c) ==
    /\ quarantineTail # <<>> /\ Head(quarantineTail) = c
    /\ scopeOp[c].pc \in {"queued", "inspecting"}
    /\ ScopeGivesUp(c)
    /\ quarantineTail' = Tail(quarantineTail)

\* or the detached tree is removed, or not; the records go in both cases.
ScopeRemoved(c, ok) ==
    LET js == [i \in Ids |-> IF jobs[i] \in scopeOp[c].scope THEN NoObj ELSE jobs[i]]
    IN
    /\ quarantineTail # <<>> /\ Head(quarantineTail) = c
    /\ scopeOp[c].pc = "removing"
    /\ quarantined' = IF ok THEN [quarantined EXCEPT ![c] = @ - 1] ELSE quarantined
    /\ consumerPurgeTombstones' =
            IF ok THEN [consumerPurgeTombstones EXCEPT
                            ![job[scopeOp[c].job].id] = "fresh"]
            ELSE consumerPurgeTombstones
    /\ jobs' = js
    /\ job' = Collected(js, job)
    /\ queue' = CompactQueue(queue, js, job)
    /\ scopeOp' = [scopeOp EXCEPT ![c] = Idle]
    /\ quarantineTail' = Tail(quarantineTail)
    /\ UNCHANGED <<runningJobs, reader, purgeTombstones, closing, file>>

-----------------------------------------------------------------------------
(* Start, time, shutdown and crash *)

\* initialize: the gateway queues a scavenge of every consumer's leftovers
\* before it serves anything.  It removes all of them, or stops at an error.
Scavenge(failedAt) ==
    /\ quarantineTail # <<>> /\ Head(quarantineTail) = Boot
    /\ quarantineTail' = Tail(quarantineTail)
    /\ quarantined' = [c \in Consumers |-> IF c \in failedAt THEN quarantined[c] ELSE 0]
    /\ UNCHANGED <<jobs, job, queue, runningJobs, reader, scopeOp, purgeTombstones,
                   consumerPurgeTombstones, closing, file>>

timeRest == <<jobs, queue, runningJobs, reader, scopeOp, quarantineTail, closing,
              file, quarantined>>

LeaseLapses(r, w) ==
    /\ w \in job[r].leases \ job[r].lapsed
    /\ job' = [job EXCEPT ![r].lapsed = @ \cup {w}]
    /\ UNCHANGED <<timeRest, purgeTombstones, consumerPurgeTombstones>>

Outlive(r) ==
    /\ r \in Current(jobs) /\ job[r].id \in AgingIds
    /\ TerminalJob(job[r]) /\ ~job[r].outlived
    /\ job' = [job EXCEPT ![r].outlived = TRUE]
    /\ UNCHANGED <<timeRest, purgeTombstones, consumerPurgeTombstones>>

TombstoneOutlives(i) ==
    /\ i \in AgingIds
    /\ \/ /\ purgeTombstones[i] = "fresh"
          /\ purgeTombstones' = [purgeTombstones EXCEPT ![i] = "outlived"]
          /\ UNCHANGED consumerPurgeTombstones
       \/ /\ consumerPurgeTombstones[i] = "fresh"
          /\ consumerPurgeTombstones' =
                [consumerPurgeTombstones EXCEPT ![i] = "outlived"]
          /\ UNCHANGED purgeTombstones
    /\ UNCHANGED <<timeRest, job>>

Close ==
    /\ ~closing
    /\ closing' = TRUE
    /\ job' = [r \in Objs |-> IF r \in Current(jobs)
            THEN FinishObserverLeases(
                    [FinalizeCancellation(job[r], "engine-shutdown")
                        EXCEPT !.deadlineTimer = FALSE])
            ELSE job[r]]
    /\ queue' = [r \in Objs |-> 0]
    /\ UNCHANGED <<jobs, runningJobs, reader, scopeOp, purgeTombstones,
                   consumerPurgeTombstones, quarantineTail, file, quarantined>>

\* The disk may already hold artifacts, and what a killed purge left behind.
Init ==
    /\ jobs = [i \in Ids |-> NoObj]
    /\ job = [r \in Objs |-> Blank]
    /\ queue = [r \in Objs |-> 0]
    /\ runningJobs = 0
    /\ reader = [x \in Readers |-> IdleReader]
    /\ scopeOp = [c \in Consumers |-> Idle]
    /\ purgeTombstones = [i \in Ids |-> "none"]
    /\ consumerPurgeTombstones = [i \in Ids |-> "none"]
    /\ quarantineTail = <<Boot>>
    /\ closing = FALSE
    /\ file \in [Artifacts -> {"present", "absent"}]
    /\ quarantined \in [Consumers -> 0..1]

\* The engine process ends, at any point, and a new one starts on its disk.
Restart ==
    /\ jobs' = [i \in Ids |-> NoObj]
    /\ job' = [r \in Objs |-> Blank]
    /\ queue' = [r \in Objs |-> 0]
    /\ runningJobs' = 0
    /\ reader' = [x \in Readers |-> IdleReader]
    /\ scopeOp' = [c \in Consumers |-> Idle]
    /\ purgeTombstones' = [i \in Ids |-> "none"]
    /\ consumerPurgeTombstones' = [i \in Ids |-> "none"]
    /\ quarantineTail' = <<Boot>>
    /\ closing' = FALSE
    /\ UNCHANGED <<file, quarantined>>

ClientStep ==
    \/ Get
    \/ \E i \in Ids : Create(i) \/ CreateRefused(i) \/ Cancel(i)
    \/ \E i \in Ids, w \in Observers : Observe(i, w) \/ RenewObserver(i, w)
    \/ \E x \in Readers :
        \/ \E i \in Ids, kind \in {"media", "status"} : RequestMedia(x, i, kind)
        \/ AcquireMedia(x) \/ StatusAnswers(x) \/ ReleaseMedia(x)
    \/ \E i \in PurgeIds : Purge(i)
    \/ \E i \in ScopePurgeIds : PurgeConsumerCache(i)

RecordStep(r) ==
    \/ ObserverLeaseTimer(r) \/ ExecutionDeadline(r)
    \/ RunnerPublishes(r)
    \/ \E outcome \in {"completed", "failed"} : RunnerSettles(r, outcome)
    \/ \E ok \in BOOLEAN : VerificationSettles(r, ok)
    \/ PurgeDrained(r) \/ PurgeDrainTimeout(r) \/ PurgeVerified(r)
    \/ PurgeUnlinks(r) \/ PurgeUnlinkFails(r) \/ PurgeCompletes(r)

ScopePurgeStep(c) ==
    \/ ScopeExecutionsSettle(c) \/ ScopeReadsDrain(c) \/ ScopeTimeout(c)
    \/ ScopeVerifies(c) \/ ScopeVerified(c) \/ ScopeInvalid(c)
    \/ ScopeScavenges(c) \/ ScopeDetaches(c) \/ ScopeFilesFail(c)
    \/ \E ok \in BOOLEAN : ScopeRemoved(c, ok)

TimeStep ==
    \/ \E r \in Objs : Outlive(r) \/ \E w \in Observers : LeaseLapses(r, w)
    \/ \E i \in Ids : TombstoneOutlives(i)

EngineStep == Close \/ Restart \/ \E S \in SUBSET Consumers : Scavenge(S)

Next ==
    \/ ClientStep
    \/ \E r \in Objs : RecordStep(r)
    \/ \E c \in Consumers : ScopePurgeStep(c)
    \/ TimeStep
    \/ EngineStep

Spec == Init /\ [][Next]_vars

=============================================================================
