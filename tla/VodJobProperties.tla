-------------------------- MODULE VodJobProperties --------------------------
(***************************************************************************)
(* What the VOD job manager must guarantee, whatever order clients, timers, *)
(* runners and file system calls come in.                                   *)
(***************************************************************************)
EXTENDS VodJobManager

-----------------------------------------------------------------------------
(* Safety *)

\* Every variable stays within its type.
TypeOK ==
    /\ jobs \in [Ids -> Objs \cup {NoObj}]
    /\ job \in [Objs -> JobRecord]
    /\ queue \in [Objs -> Nat]
    /\ runningJobs \in Int
    /\ reader \in [Readers -> [pc : {"idle", "media", "status", "resolved",
                                     "answering", "reading", "released"},
                               id : Ids, obj : Objs \cup {NoObj}]]
    /\ scopeOp \in [Consumers -> [pc : {"idle", "settling", "draining",
                                        "awaiting", "verifying", "verified",
                                        "queued", "inspecting", "removing"},
                                  job : Objs \cup {NoObj},
                                  scope : SUBSET Objs]]
    /\ purgeTombstones \in [Ids -> {"none", "fresh", "outlived"}]
    /\ consumerPurgeTombstones \in [Ids -> {"none", "fresh", "outlived"}]
    /\ quarantineTail \in Seq(Consumers \cup {Boot})
    /\ closing \in BOOLEAN
    /\ file \in [Artifacts -> {"present", "absent"}]
    /\ quarantined \in [Consumers -> Int]

\* A runner that may still write belongs to a record the map knows.  Eviction,
\* replacement, purge and retry could each orphan a cancelled runner that has
\* not stopped yet, and a scope purge would no longer wait for it.
LiveRunnersAreCurrent ==
    \A r \in Objs : job[r].execution => jobs[job[r].id] = r

\* From the moment a scope purge has seen its runners stop until it is over,
\* no runner of that consumer can write, and once the reads of the scope have
\* drained none is opened.
ScopeIsQuiescent ==
    \A c \in Consumers :
        /\ scopeOp[c].pc \notin {"idle", "settling"} =>
            \A r \in Objs : job[r].execution => Consumer(job[r]) # c
        /\ scopeOp[c].pc \notin {"idle", "settling", "draining"} =>
            \A r \in scopeOp[c].scope : job[r].reads = 0

\* The slot counter is the number of runners that have not settled, cancelled
\* ones included, and never passes the limit.
SlotsAreAccounted ==
    /\ runningJobs = Cardinality({r \in Objs : job[r].execution})
    /\ runningJobs <= Concurrency

\* The FIFO holds exactly the current queued records, without gaps or ties.
QueueIsExact ==
    LET inside == {r \in Objs : queue[r] > 0} IN
    /\ inside = {r \in Current(jobs) : job[r].state = "queued"}
    /\ {queue[r] : r \in inside} = 1..Cardinality(inside)

\* A job waits only for a slot: cancelling, settling or evicting a job never
\* leaves one free in front of a waiting job.
NoSlotIsWasted ==
    (~closing /\ \E r \in Objs : queue[r] > 0) => runningJobs = Concurrency

\* The map and the queue stay within their limits, retries included.
RecordsAreBounded ==
    /\ Cardinality(Current(jobs)) <= RecordLimit
    /\ Waiting(queue) <= QueueLimit

\* The read counter a purge waits on is the number of leases not released,
\* whatever the order of releases and however often one is repeated.
ReadsAreCounted ==
    \A r \in Objs : job[r].reads =
        Cardinality({x \in Readers : reader[x].pc = "reading" /\ reader[x].obj = r})

\* The checks assertCurrentJob and assertCurrentConsumer never fail: a record
\* under purge is neither evicted nor replaced, and the set of records of a
\* consumer does not change under a scope purge.
PurgesPinRecords ==
    /\ \A r \in Objs : job[r].purgeOperation # "none" => jobs[job[r].id] = r
    /\ \A c \in Consumers : scopeOp[c].pc # "idle" =>
            CurrentScope(c) /\ scopeOp[c].job \in scopeOp[c].scope

\* The busy flags of a current record say which operation holds it, at most
\* one does, and no failed or timed out purge leaves a flag behind.
BusyFlagsAreAccounted ==
    \A r \in Current(jobs) :
        LET op == scopeOp[Consumer(job[r])] IN
        /\ job[r].purging <=> job[r].purgeOperation # "none"
        /\ job[r].consumerPurging <=> (op.pc # "idle" /\ r \in op.scope)
        /\ ~(job[r].purging /\ job[r].consumerPurging)

\* A purge answered from a tombstone is never wrong about a live record.
TombstonesMeanGone ==
    \A i \in Ids :
        purgeTombstones[i] # "none" \/ consumerPurgeTombstones[i] # "none"
            => jobs[i] = NoObj

\* Two consumers never both hold a completed job on the same file.
CompletedPathsAreDisjoint ==
    \A r, s \in Current(jobs) :
        /\ job[r].state = "completed" /\ job[s].state = "completed"
        /\ ArtifactOf[job[r].id] = ArtifactOf[job[s].id]
        => Consumer(job[r]) = Consumer(job[s])

\* However often removal or scavenging fails, or the engine is killed, a
\* consumer leaves at most one tree behind in the quarantine: a purge clears
\* the leftover before it detaches its own tree.
LeftoversAreBounded ==
    \A c \in Consumers :
        /\ quarantined[c] \in 0..1
        /\ scopeOp[c].pc = "inspecting" => quarantined[c] = 0
        /\ scopeOp[c].pc = "removing" => quarantined[c] = 1

\* The chain runs one quarantine operation at a time, the head being the one
\* whose scope is open or detached; it holds the purges that have reached it,
\* each once, and no other.
QuarantineIsSerial ==
    /\ \A c \in Consumers : scopeOp[c].pc \in {"inspecting", "removing"} =>
            quarantineTail # <<>> /\ Head(quarantineTail) = c
    /\ \A m, n \in 1..Len(quarantineTail) :
            quarantineTail[m] = quarantineTail[n] => m = n
    /\ \A c \in Consumers :
            scopeOp[c].pc \in {"queued", "inspecting", "removing"} <=>
                \E n \in 1..Len(quarantineTail) : quarantineTail[n] = c

\* Once observed, a queued job or a running preview has an observer; only a
\* running editor job may go on detached.
UnobservedWorkIsPersistent ==
    \A r \in Current(jobs) :
        /\ job[r].enforced /\ ~TerminalJob(job[r]) /\ job[r].leases = {}
        => job[r].state = "running" /\ job[r].id \notin Ephemeral

\* The limits are met and used: the slot counter is true, no slot stays free in
\* front of a waiting job, and the map and the queue never exceed their sizes.
LimitsAreExact == SlotsAreAccounted /\ NoSlotIsWasted /\ RecordsAreBounded

\* What a purge decides by is true of the readers, the records and the other
\* purges at every moment: its read counts, the records it holds, the flags
\* that say who holds them, and the tombstones it may be answered from.
AccountsAreExact ==
    ReadsAreCounted /\ PurgesPinRecords /\ BusyFlagsAreAccounted /\ TombstonesMeanGone

\* Removals that fail, an engine that is killed and two sessions that purge at
\* once neither pile up trees in the quarantine nor break into each other.
QuarantineIsSound == LeftoversAreBounded /\ QuarantineIsSerial

-----------------------------------------------------------------------------
(* What the safety of a scope purge rests on *)

\* What a record may hold in which state: a runner only while it runs or has
\* been cancelled; reads, verifications and purges only once it has completed.
RecordIsConsistent(o) ==
    /\ o.execution => o.state \in {"running", "cancelled"}
    /\ o.cancellation # "none" => o.state = "cancelled"
    /\ o.verification \/ o.purgeOperation # "none" \/ o.reads > 0
         => o.state \in {"completed", "failed"}

MapIsConsistent ==
    \A i \in Ids : jobs[i] # NoObj =>
        job[jobs[i]].id = i /\ job[jobs[i]].state # "free"

QueueHoldsQueued ==
    \A r \in Objs : queue[r] > 0 =>
        r \in Current(jobs) /\ job[r].state = "queued"

\* A scope purge holds its records: they stay current and flagged, none is
\* under a purge of its own, and no job of the consumer is live.
ScopeIsHeld ==
    \A c \in Consumers : scopeOp[c].pc # "idle" =>
        /\ \A r \in scopeOp[c].scope :
            /\ jobs[job[r].id] = r /\ Consumer(job[r]) = c
            /\ job[r].consumerPurging /\ job[r].purgeOperation = "none"
        /\ \A r \in Current(jobs) : Consumer(job[r]) = c => TerminalJob(job[r])

\* The inductive invariant.
ScopePurgeInvariant ==
    /\ TypeOK
    /\ runningJobs <= Concurrency
    /\ \A r \in Objs : RecordIsConsistent(job[r])
    /\ MapIsConsistent
    /\ QueueHoldsQueued
    /\ LiveRunnersAreCurrent
    /\ ScopeIsHeld
    /\ ScopeIsQuiescent

-----------------------------------------------------------------------------
(* What no step may do *)

Survives(r) == r \in Current(jobs) /\ r \in Current(jobs')

\* The first cancellation is the one reported: no later timer, settlement,
\* purge or shutdown rewrites its reason or its outcome.
CancellationIsFinal ==
    [][\A r \in Objs : Survives(r) /\ job[r].cancellation # "none" =>
            /\ job'[r].cancellation = job[r].cancellation
            /\ job'[r].state = "cancelled"]_vars

\* Jobs start in the order in which they were queued: whatever compacts the
\* queue, a waiting job is neither overtaken nor started before its elders.
StartsInOrder ==
    [][\A r, s \in Objs :
            queue[r] > 0 /\ queue[s] > queue[r] /\ queue'[r] > 0
            => \/ queue'[s] > queue'[r]
               \/ queue'[s] = 0 /\ ~job'[s].execution]_vars

Busy(o) ==
    \/ o.execution \/ o.reads > 0 \/ o.verification
    \/ o.purging \/ o.purgeOperation # "none" \/ o.consumerPurging

\* Work in progress is not forgotten: no eviction and no full map drops a live
\* job before the leases of all its observers have lapsed, nor one that is over
\* but is still being stopped, read, verified or purged. A record leaves with its
\* purge or its session's, and a failed one is replaced by a retry, its reads
\* notwithstanding.
ActiveRecordsStay ==
    [][\A r \in Current(jobs) :
            \/ r \in Current(jobs')
            \/ Restart
            \/ TerminalJob(job[r]) /\ ~Busy(job[r])
            \/ job[r].purgeOperation = "unlinked"
            \/ job[r].consumerPurging /\ scopeOp[Consumer(job[r])].pc = "removing"
            \/ job[r].state = "failed" /\ jobs'[job[r].id] # NoObj
            \/ /\ ~TerminalJob(job[r]) /\ job[r].enforced
               /\ job[r].leases \subseteq job[r].lapsed]_vars

\* The file of a purged job is not unlinked while a lease on that very file is
\* open, through whichever record it was acquired.
UnlinksOnlyUnreadFiles ==
    [][\A r \in Objs :
            /\ job[r].purgeOperation = "unlinking"
            /\ job'[r].purgeOperation # "unlinking"
            /\ file'[ArtifactOf[job[r].id]] # file[ArtifactOf[job[r].id]]
            => \A x \in Readers : reader[x].pc = "reading" =>
                    ArtifactOf[job[reader[x].obj].id] # ArtifactOf[job[r].id]]_vars

-----------------------------------------------------------------------------
(* Liveness *)

RecordPurgeStep(r) ==
    \/ PurgeDrained(r) \/ PurgeDrainTimeout(r) \/ PurgeVerified(r)
    \/ PurgeUnlinks(r) \/ PurgeUnlinkFails(r) \/ PurgeCompletes(r)

\* Timers fire and file system calls return.  A runner settles once it is
\* aborted, which is what the record's execution promise is for; one that is
\* not aborted may run for ever, and clients and readers may do nothing.
Fairness ==
    /\ \A r \in Objs :
        /\ WF_vars(ExecutionDeadline(r))
        /\ WF_vars(job[r].cancellation # "none" /\ RunnerSettles(r, "failed"))
        /\ WF_vars(\E ok \in BOOLEAN : VerificationSettles(r, ok))
        /\ WF_vars(RecordPurgeStep(r))
    /\ \A c \in Consumers : WF_vars(ScopePurgeStep(c))
    /\ WF_vars(\E S \in SUBSET Consumers : Scavenge(S))

FairSpec == Spec /\ Fairness

\* Every accepted job reaches a terminal state, a runner that never returns in
\* front of it included.
JobsFinish ==
    \A r \in Objs : job[r].state \in {"queued", "running"}
        ~> job[r].state \notin {"queued", "running"}

\* A purge ends, in success or in failure, even if a reader never lets go; so
\* does a scope purge, behind whatever else is in the quarantine chain.
PurgesEnd ==
    /\ \A r \in Objs : job[r].purgeOperation # "none" ~> job[r].purgeOperation = "none"
    /\ \A c \in Consumers : scopeOp[c].pc # "idle" ~> scopeOp[c].pc = "idle"

\* close can return: every runner stops.
ShutdownDrains ==
    closing ~> \A r \in Objs : ~job[r].execution

-----------------------------------------------------------------------------
(* The job manager implements the cache scope contract: its runners write,    *)
(* the leases on current records read.                                        *)

WritingIn(c) == {r \in Objs : job[r].execution /\ Consumer(job[r]) = c}

ReadingIn(c) ==
    {r \in Current(jobs) : job[r].reads > 0 /\ Consumer(job[r]) = c}

FilesOf(c) == {a \in Artifacts : ScopeOf[a] = c /\ file[a] = "present"}

Scope == INSTANCE CacheScope WITH
    Scopes   <- Consumers,
    Files    <- Artifacts,
    Users    <- Objs,
    writing  <- [c \in Consumers |-> WritingIn(c)],
    reading  <- [c \in Consumers |-> ReadingIn(c)],
    content  <- [c \in Consumers |-> FilesOf(c)],
    detached <- {c \in Consumers : scopeOp[c].pc = "removing"}

\* A scope is renamed away only while no runner of its consumer may write and
\* no current record of it is read; none enters and no file appears there until
\* the removal is over.
ImplementsCacheScope == Scope!Spec
=============================================================================
