------------------------- MODULE JobLeaseProperties -------------------------
(* What the lease of a materialization protects.                             *)
EXTENDS JobLease

\* Every variable keeps its type (the columns of materialization_job_lease).
TypeOK ==
    /\ clock \in 0..MaxClock /\ reboots \in 0..MaxReboots
    /\ process \in [Processes -> {"new", "alive", "dead"}]
    /\ row \in Row \cup {None} /\ synced \in Row \cup {None}
    /\ writer \in Jobs \cup {None}
    /\ job \in [Jobs -> Job] /\ thread \in [Jobs -> Thread]
    /\ outcome \in [Jobs -> {"none", "fresh", "reused", "failed", "refused"}]
    /\ artifact \in File /\ manifest \in File
    /\ late \in BOOLEAN

\* A job that has asserted its lease owns the row for the whole window of the
\* beat it saw, however the threads, a takeover and the clock interleave: two
\* jobs publish at once only if one has stalled past its window. This is what
\* the assertOwned calls before each rename rely on.
AssertionHoldsForTheLease ==
    \A j \in Jobs : job[j].pc \in Publishing /\ InItsWindow(j) => RowIsMine(j)

\* A result that was reported, fresh or reused, stays on disk as a matching
\* pair of manifest and artifact, unless a job renamed a file after its
\* window: jobs that follow reuse it and crashes do not tear it.
FinishedWorkStays ==
    ~late => \A j \in Jobs : outcome[j] \in {"fresh", "reused"} =>
                 artifact # None /\ manifest = artifact

\* A torn pair is never the last word of a job that reported success: it is
\* there only while its artifact's job is publishing, or after that job failed
\* or died between the two renames.
TornPairIsUnfinished ==
    artifact \in Jobs /\ manifest # artifact /\ ~late =>
        \/ job[artifact].pc \in {"replaced", "pointing", "stopping", "deleting", "dead"}
        \/ outcome[artifact] = "failed"

-----------------------------------------------------------------------------
(* What the lease rests on.                                                  *)

\* Where a job that has once owned the row can be. It never acquires again.
Had == Owning \cup Releasing \cup {"done", "dead"}

\* A job dies with its process, and runs in one that was started.
ProcessesAgree ==
    \A j \in Jobs :
        /\ job[j].pc = "dead" <=> process[ProcessOf[j]] = "dead"
        /\ job[j].pc # "idle" => process[ProcessOf[j]] # "new"

\* The write lock is the one transaction that is open; it keeps the row as the
\* thread has read it, and its job is not done.
TransactionsAgree ==
    \A j \in Jobs :
        /\ writer = j <=> thread[j].at \in {"begun", "stamped"}
        /\ thread[j].at # "off" => job[j].pc \in Owning \cup {"stopping"}
        /\ thread[j].at = "stamped" =>
              /\ RowIsMine(j)
              /\ row.beat <= thread[j].stamp /\ thread[j].stamp <= clock

\* A row of a living owner is not of the future, and a power cut takes back
\* heartbeats but no change of owner.
RowFits(r, disk, jobs, now) ==
    /\ r = None <=> disk = None
    /\ r # None =>
          /\ jobs[r.owner].pc \in Had
          /\ jobs[r.owner].pc # "dead" => r.beat <= now
          /\ disk.owner = r.owner /\ disk.beat <= r.beat

RowAgrees == RowFits(row, synced, job, clock)

\* A row may be judged long after it was read: it was of a job that had the
\* lease, and if its owner has it still then with no lower revision.
Judged(o, r, jobs, now) ==
    /\ o.pc \in {"insert", "swap"} => o.stamp <= now
    /\ o.pc \in {"judge", "swap"} =>
          /\ o.observed # None
          /\ jobs[o.observed.owner].pc \in Had
          /\ jobs[o.observed.owner].pc # "dead" => o.observed.beat <= now
          /\ r # None /\ r.owner = o.observed.owner =>
                /\ o.observed.revision <= r.revision
                /\ o.observed.revision = r.revision => o.observed.beat = r.beat
    /\ o.pc = "swap" =>
          \/ jobs[o.observed.owner].pc = "dead"
          \/ now - o.observed.beat > Lease

JudgementsAgree == \A j \in Jobs : Judged(job[j], row, job, clock)

\* The beat that was asserted is not later than the one in the row.
AssertionsAgree ==
    \A j \in Jobs : job[j].pc \in Publishing /\ RowIsMine(j) =>
        job[j].asserted <= row.beat

\* The inductive invariant.
LeaseInvariant ==
    /\ TypeOK
    /\ ProcessesAgree /\ TransactionsAgree /\ RowAgrees
    /\ JudgementsAgree /\ AssertionsAgree
    /\ AssertionHoldsForTheLease

-----------------------------------------------------------------------------
(* What the publication rests on.                                            *)

\* Where a job can be once it has renamed its manifest, or its artifact.
Pointed == {"cleanup", "done", "dead"} \cup Releasing
Replaced == {"replaced", "pointing"} \cup Pointed

Matched == artifact # None /\ manifest = artifact

\* A path that names a job is one that this job renamed a file to; a manifest
\* that a reuse check has read was there.
FilesAgree ==
    \A j \in Jobs :
        /\ artifact = j =>
              /\ job[j].pc \in Replaced
              /\ job[j].pc = "done" => outcome[j] \in {"fresh", "reused", "failed"}
        /\ manifest = j => job[j].pc \in Pointed
        /\ \A k \in Jobs : job[k].seen = j => job[j].pc \in Pointed
        /\ job[j].pc \in Releasing => job[j].result # "none"

\* A manifest read some time ago whose artifact is there now is still the
\* manifest: no digest comes back once it was replaced.
SightingsAgree ==
    \A j \in Jobs : job[j].seen # None /\ artifact = job[j].seen => manifest = artifact

\* What a job knows of the files for as long as it owns the row: nobody else
\* writes them. A pair is replaced only if it did not match.
WorkAgrees ==
    \A j \in Jobs :
        /\ RowIsMine(j) =>
              /\ job[j].pc = "rehash" => job[j].seen = manifest
              /\ job[j].pc \in {"work", "staged"} => ~Matched
              /\ job[j].pc \in {"replaced", "pointing"} => artifact = j
              /\ job[j].pc \in Releasing /\ job[j].result # "failed" => Matched
        /\ job[j].pc = "cleanup" =>
              /\ artifact = j => manifest = j
              /\ RowIsMine(j) => artifact = j

\* The inductive invariant of the publication.
PublicationInvariant ==
    /\ LeaseInvariant
    /\ FilesAgree
    /\ ~late => SightingsAgree /\ WorkAgrees
    /\ FinishedWorkStays

-----------------------------------------------------------------------------
Contract == INSTANCE ExclusiveLease WITH
    Window <- Lease,
    holder <- IF row = None THEN None ELSE row.owner,
    beat <- IF row = None THEN 0 ELSE row.beat,
    now <- clock,
    alive <- {j \in Jobs : process[ProcessOf[j]] # "dead"}

\* The row, its compare-and-swap and the heartbeats implement the lease: it is
\* never taken from a live job within the window of its last beat.
ImplementsExclusiveLease == Contract!Spec
=============================================================================
