------------------------------ MODULE JobLease ------------------------------
(* Materializing one plan of a broadcast, by jobs of several processes that  *)
(* share its directory: a row of an SQLite database says who works on it,    *)
(* a worker thread renews it against the boot clock, and the job asks it     *)
(* before it replaces a file. The artifact is published first and the        *)
(* manifest that points to it last; a later job reuses a pair that matches.  *)
(* Downloading, muxing and hashing are one step; files carry the name of     *)
(* the job that made them, which stands for their digest.                    *)
EXTENDS Integers

CONSTANTS
    Jobs,       \* calls of materializeChzzkVod for the plan
    Processes,
    ProcessOf,  \* the process each call is made in
    None,
    Old,        \* whoever made the files that an earlier life left
    Lease,      \* CHZZK_JOB_LOCK_LEASE_MS
    Margin,     \* the busy timeout and retry delay that a beat must leave
    Attempts,   \* 16 in the code
    MaxClock, MaxReboots

ASSUME LeaseAssumption ==
    /\ {None, Old} \cap Jobs = {} /\ None # Old /\ ProcessOf \in [Jobs -> Processes]
    /\ Lease \in Nat /\ Margin \in 0..Lease
    /\ Attempts \in Nat \ {0} /\ MaxClock \in Nat /\ MaxReboots \in Nat

VARIABLES
    clock,      \* the boot clock
    process,    \* "new", "alive" or "dead"
    reboots,
    row,        \* the row of materialization_job_lease, or None
    synced,     \* the row as the last FULL commit left it on disk
    writer,     \* the job whose thread holds the write lock of the database
    job,        \* the call of materializeChzzkVod
    outcome,    \* what its caller was told
    thread,     \* its heartbeat worker
    artifact, manifest,  \* whose file each path names
    late        \* history: a rename came after the window asserted for it

clockVars == <<clock, process, reboots>>
rowVars == <<row, synced, writer>>
fileVars == <<artifact, manifest, late>>
vars == <<clockVars, rowVars, fileVars, job, outcome, thread>>

Acquiring == {"insert", "observe", "judge", "swap"}
Publishing == {"staged", "replaced", "pointing", "cleanup"}
Owning == {"starting", "relook", "rehash", "work"} \cup Publishing
Releasing == {"stopping", "deleting"}
Places == {"idle", "look", "hash", "done", "dead"} \cup Acquiring \cup Owning \cup Releasing

Row == [owner : Jobs, revision : Nat \ {0}, beat : Nat]
ASSUME RowAssumption == None \notin Row

File == Jobs \cup {Old, None}

Job == [pc : Places,
        seen : File,                 \* the manifest a reuse check has read
        tries : Nat,
        observed : Row \cup {None},  \* the row acquireJobLock judges
        stamp : Nat,                 \* the clock reading its next write carries
        failure : BOOLEAN,           \* lockLease.failure
        asserted : Nat,              \* history: the beat assertOwned accepted
        result : {"none", "fresh", "reused", "failed"}]

Thread == [at : {"off", "waiting", "begun", "stamped", "failed"},
           ready : BOOLEAN,          \* "ready" was posted
           revision : Nat, beat : Nat,   \* what it believes of the row
           stamp : Nat]

At(place) ==
    [pc |-> place, seen |-> None, tries |-> 0, observed |-> None, stamp |-> 0,
     failure |-> FALSE, asserted |-> 0, result |-> "none"]

NoThread == [at |-> "off", ready |-> FALSE, revision |-> 0, beat |-> 0, stamp |-> 0]

Init ==
    /\ clock = 0 /\ process = [p \in Processes |-> "new"] /\ reboots = 0
    /\ row = None /\ synced = None /\ writer = None
    /\ job = [j \in Jobs |-> At("idle")] /\ outcome = [j \in Jobs |-> "none"]
    /\ thread = [j \in Jobs |-> NoThread]
    /\ artifact \in {None, Old} /\ manifest \in {None, Old} /\ late = FALSE

Becomes(j, state) == job' = [job EXCEPT ![j] = state]
Goto(j, place) == Becomes(j, [job[j] EXCEPT !.pc = place])
Returns(j, what) == Becomes(j, At("done")) /\ outcome' = [outcome EXCEPT ![j] = what]

(* The reuse check: the manifest, then the digest of the artifact. It runs   *)
(* before the lock, and again under it.                                      *)

Start(j) ==
    /\ job[j].pc = "idle" /\ process[ProcessOf[j]] # "dead"
    /\ process' = [process EXCEPT ![ProcessOf[j]] = "alive"]
    /\ Goto(j, "look")
    /\ UNCHANGED <<clock, reboots, rowVars, fileVars, outcome, thread>>

ReadManifest(j) ==
    /\ \/ job[j].pc = "look"
          /\ Becomes(j, [job[j] EXCEPT !.pc = "hash", !.seen = manifest])
       \/ job[j].pc = "relook"
          /\ Becomes(j, [job[j] EXCEPT !.pc = "rehash", !.seen = manifest])
    /\ UNCHANGED <<clockVars, rowVars, fileVars, outcome, thread>>

PairMatches(j) == job[j].seen # None /\ artifact = job[j].seen

ReuseUnlocked(j) ==
    /\ job[j].pc = "hash" /\ PairMatches(j) /\ Returns(j, "reused")
    /\ UNCHANGED <<clockVars, rowVars, fileVars, thread>>

ReuseLocked(j) ==
    /\ job[j].pc = "rehash" /\ PairMatches(j)
    /\ Becomes(j, [job[j] EXCEPT !.pc = "stopping", !.seen = None, !.result = "reused"])
    /\ UNCHANGED <<clockVars, rowVars, fileVars, outcome, thread>>

NothingToReuse(j) ==
    /\ ~PairMatches(j)
    /\ \/ job[j].pc = "hash" /\ Becomes(j, [At("insert") EXCEPT !.stamp = clock])
       \/ job[j].pc = "rehash" /\ Becomes(j, [job[j] EXCEPT !.pc = "work", !.seen = None])
    /\ UNCHANGED <<clockVars, rowVars, fileVars, outcome, thread>>

(* acquireJobLock. Each statement commits on its own and waits for a thread  *)
(* that is inside its transaction.                                           *)

\* Fault: a lease counts as lost while its thread may still renew it.
FreshForLess(r) == r.beat <= clock /\ clock - r.beat < Lease - Margin

Fresh(r) == r.beat <= clock /\ clock - r.beat <= Lease

\* Fault: the first revision is not valid.
InsertAtZero(j) ==
    /\ job[j].pc = "insert" /\ writer = None /\ row = None
    /\ row' = [owner |-> j, revision |-> 0, beat |-> job[j].stamp] /\ synced' = row'
    /\ Becomes(j, At("starting")) /\ UNCHANGED thread
    /\ UNCHANGED <<clockVars, writer, fileVars, outcome>>

\* startAcquiredLease: the thread starts from the row just written.
Acquired(j, r) ==
    /\ row' = r /\ synced' = r
    /\ Becomes(j, At("starting"))
    /\ thread' = [thread EXCEPT ![j] =
           [NoThread EXCEPT !.at = "waiting", !.revision = r.revision, !.beat = r.beat]]

TryAgain(j) ==
    IF job[j].tries + 1 < Attempts
    THEN /\ Becomes(j, [At("insert") EXCEPT !.tries = job[j].tries + 1, !.stamp = clock])
         /\ UNCHANGED outcome
    ELSE Returns(j, "failed")

Insert(j) ==
    /\ job[j].pc = "insert" /\ writer = None
    /\ IF row = None
       THEN Acquired(j, [owner |-> j, revision |-> 1, beat |-> job[j].stamp])
       ELSE Goto(j, "observe") /\ UNCHANGED <<row, synced, thread>>
    /\ UNCHANGED <<clockVars, writer, fileVars, outcome>>

Observe(j) ==
    /\ job[j].pc = "observe"
    /\ IF row = None
       THEN TryAgain(j)
       ELSE /\ Becomes(j, [job[j] EXCEPT !.pc = "judge", !.observed = row])
            /\ UNCHANGED outcome
    /\ UNCHANGED <<clockVars, rowVars, fileVars, thread>>

\* jobLeaseIsActive. A process that died may seem alive: its number can have
\* been given to another one, and only Linux rows tell the two apart.
JudgeActive(j) ==
    /\ job[j].pc = "judge" /\ Fresh(job[j].observed)
    /\ Returns(j, "refused")
    /\ UNCHANGED <<clockVars, rowVars, fileVars, thread>>

JudgeInactive(j) ==
    /\ job[j].pc = "judge"
    /\ \/ ~Fresh(job[j].observed)
       \/ process[ProcessOf[job[j].observed.owner]] = "dead"
    /\ Becomes(j, [job[j] EXCEPT !.pc = "swap", !.stamp = clock])
    /\ UNCHANGED <<clockVars, rowVars, fileVars, outcome, thread>>

\* Fault: the swap compares only the owner.
SameOwnerObserved(j) == row # None /\ row.owner = job[j].observed.owner

StillObserved(j) ==
    /\ row # None
    /\ row.owner = job[j].observed.owner /\ row.revision = job[j].observed.revision

CompareAndSwap(j) ==
    /\ job[j].pc = "swap" /\ writer = None
    /\ IF StillObserved(j)
       THEN /\ Acquired(j, [owner |-> j, revision |-> row.revision + 1,
                            beat |-> job[j].stamp])
            /\ UNCHANGED outcome
       ELSE TryAgain(j) /\ UNCHANGED <<row, synced, thread>>
    /\ UNCHANGED <<clockVars, writer, fileVars>>

\* A thread kept the write lock for longer than the busy timeout.
AcquireBusy(j) ==
    /\ job[j].pc \in {"insert", "swap"} /\ writer # None
    /\ Returns(j, "failed")
    /\ UNCHANGED <<clockVars, rowVars, fileVars, thread>>

(* The heartbeat thread.                                                     *)

Deadline(beat) == beat + Lease - Margin

\* It first beats at once, then after its interval, which is a tick or more.
BeginBeat(j) ==
    /\ thread[j].at = "waiting" /\ writer = None
    /\ thread[j].ready => clock > thread[j].beat
    /\ clock < Deadline(thread[j].beat)
    /\ writer' = j /\ thread' = [thread EXCEPT ![j].at = "begun"]
    /\ UNCHANGED <<clockVars, row, synced, fileVars, job, outcome>>

StampBeat(j) ==
    /\ thread[j].at = "begun"
    /\ clock < Deadline(thread[j].beat)
    /\ row # None /\ row.owner = j /\ row.revision = thread[j].revision
    /\ thread' = [thread EXCEPT ![j].at = "stamped", ![j].stamp = clock]
    /\ UNCHANGED <<clockVars, rowVars, fileVars, job, outcome>>

\* COMMIT, without waiting for the disk: a power cut may still undo it.
CommitBeat(j) ==
    /\ thread[j].at = "stamped"
    /\ row' = [row EXCEPT !.revision = @ + 1, !.beat = thread[j].stamp]
    /\ writer' = None
    /\ LET inTime == clock < Deadline(thread[j].stamp)
       IN  thread' = [thread EXCEPT ![j] =
               [at |-> IF inTime THEN "waiting" ELSE "failed",
                ready |-> @.ready \/ inTime,
                revision |-> @.revision + 1, beat |-> @.stamp, stamp |-> 0]]
    /\ UNCHANGED <<clockVars, synced, fileVars, job, outcome>>

\* failClosed: the deadline has passed, the row is not its own, the database is
\* over its limits, or the thread ended. What it had begun is rolled back.
ThreadFails(j) ==
    /\ thread[j].at \in {"waiting", "begun", "stamped"}
    /\ thread' = [thread EXCEPT ![j] = [NoThread EXCEPT !.at = "failed", !.ready = thread[j].ready]]
    /\ writer' = IF writer = j THEN None ELSE writer
    /\ UNCHANGED <<clockVars, row, synced, fileVars, job, outcome>>

\* recordHeartbeatFailure: the message reaches the job.
NoticeFailure(j) ==
    /\ thread[j].at = "failed" /\ job[j].pc \in Owning /\ ~job[j].failure
    /\ Becomes(j, [job[j] EXCEPT !.failure = TRUE])
    /\ UNCHANGED <<clockVars, rowVars, fileVars, outcome, thread>>

\* Fault: what was finished while this job waited for the lock is not looked at.
StartedWithoutRecheck(j) ==
    /\ job[j].pc = "starting" /\ thread[j].ready /\ Goto(j, "work")
    /\ UNCHANGED <<clockVars, rowVars, fileVars, outcome, thread>>

Started(j) ==
    /\ job[j].pc = "starting" /\ thread[j].ready /\ Goto(j, "relook")
    /\ UNCHANGED <<clockVars, rowVars, fileVars, outcome, thread>>

(* The work, and the publication of what it made.                            *)

RowIsMine(j) == row # None /\ row.owner = j

Owned(j) == ~job[j].failure /\ RowIsMine(j) /\ Fresh(row)

\* assertOwned returns, and the job goes on.
Asserted(j, place) ==
    /\ Owned(j)
    /\ Becomes(j, [job[j] EXCEPT !.pc = place, !.asserted = row.beat])
    /\ UNCHANGED <<clockVars, rowVars, fileVars, outcome, thread>>

AssertBeforeArtifact(j) == job[j].pc = "work" /\ Asserted(j, "staged")
AssertBeforeManifest(j) == job[j].pc = "replaced" /\ Asserted(j, "pointing")

InItsWindow(j) == clock - job[j].asserted <= Lease

\* Fault: the manifest of the replaced artifact is left in place.
RenameArtifactOnly(j) ==
    /\ job[j].pc = "staged" /\ Goto(j, "cleanup")
    /\ artifact' = j /\ late' = (late \/ ~InItsWindow(j))
    /\ UNCHANGED <<clockVars, rowVars, manifest, outcome, thread>>

\* rename(stagedArtifactPath, artifactPath): it follows an await, so the lease
\* may have been lost since it was asserted.
RenameArtifact(j) ==
    /\ job[j].pc = "staged" /\ Goto(j, "replaced")
    /\ artifact' = j /\ late' = (late \/ ~InItsWindow(j))
    /\ UNCHANGED <<clockVars, rowVars, manifest, outcome, thread>>

\* The rename of atomicWriteJson: the manifest is the publication pointer.
RenameManifest(j) ==
    /\ job[j].pc = "pointing" /\ Goto(j, "cleanup")
    /\ manifest' = j /\ late' = (late \/ ~InItsWindow(j))
    /\ UNCHANGED <<clockVars, rowVars, artifact, outcome, thread>>

\* The runs are removed, asserting before each; then the job has its result.
Finish(j) ==
    /\ job[j].pc = "cleanup" /\ Owned(j)
    /\ Becomes(j, [job[j] EXCEPT !.pc = "stopping", !.asserted = 0, !.result = "fresh"])
    /\ UNCHANGED <<clockVars, rowVars, fileVars, outcome, thread>>

\* Anything throws: a lease that is not owned, an abort, the network, a tool,
\* a budget, an artifact that is no longer the file verified.
JobFails(j) ==
    /\ job[j].pc \in Owning
    /\ job[j].pc = "starting" => job[j].failure
    /\ Becomes(j, [At("stopping") EXCEPT !.result = "failed"])
    /\ UNCHANGED <<clockVars, rowVars, fileVars, outcome, thread>>

\* release: the thread is gone before the row is deleted.
StopThread(j) ==
    /\ job[j].pc = "stopping" /\ Goto(j, "deleting")
    /\ thread' = [thread EXCEPT ![j] = NoThread]
    /\ writer' = IF writer = j THEN None ELSE writer
    /\ UNCHANGED <<clockVars, row, synced, fileVars, outcome>>

DeleteRow(j) ==
    /\ job[j].pc = "deleting" /\ writer = None
    /\ IF RowIsMine(j) THEN row' = None /\ synced' = None ELSE UNCHANGED <<row, synced>>
    /\ Returns(j, IF RowIsMine(j) /\ ~job[j].failure THEN job[j].result ELSE "failed")
    /\ UNCHANGED <<clockVars, writer, fileVars, thread>>

DeleteBusy(j) ==
    /\ job[j].pc = "deleting" /\ writer # None
    /\ Returns(j, "failed")
    /\ UNCHANGED <<clockVars, rowVars, fileVars, thread>>

(* The environment.                                                          *)

Tick ==
    /\ clock < MaxClock /\ clock' = clock + 1
    /\ UNCHANGED <<process, reboots, rowVars, fileVars, job, outcome, thread>>

\* The jobs of dead processes stop where they are; a transaction is undone.
Killed(dead) ==
    /\ process' = [p \in Processes |-> IF p \in dead THEN "dead" ELSE process[p]]
    /\ job' = [j \in Jobs |-> IF ProcessOf[j] \in dead THEN At("dead") ELSE job[j]]
    /\ thread' = [j \in Jobs |-> IF ProcessOf[j] \in dead THEN NoThread ELSE thread[j]]
    /\ writer' = IF writer # None /\ ProcessOf[writer] \in dead THEN None ELSE writer
    /\ UNCHANGED <<fileVars, outcome>>

Crash(p) ==
    /\ process[p] = "alive" /\ Killed({p})
    /\ UNCHANGED <<clock, reboots, row, synced>>

\* The boot clock starts again. Renamed files stay: the directory is synced
\* after each rename, before the next step of the publication.
Reboot ==
    /\ reboots < MaxReboots /\ reboots' = reboots + 1
    /\ clock' = 0 /\ Killed({p \in Processes : process[p] = "alive"})
    /\ row' \in {row, synced} /\ synced' = row'

Reuse(j) == ReadManifest(j) \/ ReuseUnlocked(j) \/ ReuseLocked(j) \/ NothingToReuse(j)
Acquire(j) ==
    Insert(j) \/ Observe(j) \/ JudgeActive(j) \/ JudgeInactive(j)
    \/ CompareAndSwap(j) \/ AcquireBusy(j)
Heartbeat(j) == BeginBeat(j) \/ StampBeat(j) \/ CommitBeat(j) \/ ThreadFails(j)
Publish(j) ==
    AssertBeforeArtifact(j) \/ RenameArtifact(j) \/ AssertBeforeManifest(j)
    \/ RenameManifest(j) \/ Finish(j) \/ JobFails(j)
Release(j) == StopThread(j) \/ DeleteRow(j) \/ DeleteBusy(j)

Next ==
    \/ \E j \in Jobs : Start(j) \/ Reuse(j) \/ Acquire(j) \/ Heartbeat(j)
                       \/ NoticeFailure(j) \/ Started(j) \/ Publish(j) \/ Release(j)
    \/ \E p \in Processes : Crash(p)
    \/ Tick \/ Reboot

Spec == Init /\ [][Next]_vars
=============================================================================
