--------------------------- MODULE JobLeaseProofs ---------------------------
(* For any number of jobs and processes, any lease and any clock: who may    *)
(* publish, and that the row implements the abstract lease.                  *)
EXTENDS JobLeaseProperties, TLAPS

-----------------------------------------------------------------------------
(* Types.                                                                    *)

\* A call that starts over at some place is well typed.
LEMMA AtType == ASSUME NEW place \in Places PROVE At(place) \in Job
BY DEF At, Job, File

\* So is a heartbeat that does not run.
LEMMA NoThreadType == NoThread \in Thread
BY DEF NoThread, Thread

\* And a call that counts a try and takes a clock reading.
LEMMA Stamped ==
    ASSUME NEW o \in Job, NEW n \in Nat, NEW t \in Nat
    PROVE  [o EXCEPT !.tries = n, !.stamp = t] \in Job
BY DEF Job

\* Where a job may go, and what it may bring there, when it is assigned.
LEMMA JobAfter ==
    ASSUME job \in [Jobs -> Job], NEW j \in Jobs, NEW s \in Job, Becomes(j, s)
    PROVE  /\ job' \in [Jobs -> Job]
           /\ job'[j] = s
           /\ \A k \in Jobs \ {j} : job'[k] = job[k]
BY DEF Becomes

\* A call that returns is done and tells its caller one of the outcomes.
LEMMA ReturnsType ==
    ASSUME TypeOK, NEW j \in Jobs,
           NEW what \in {"none", "fresh", "reused", "failed", "refused"}, Returns(j, what)
    PROVE  /\ job' \in [Jobs -> Job]
           /\ outcome' \in [Jobs -> {"none", "fresh", "reused", "failed", "refused"}]
           /\ Becomes(j, At("done"))
<1>1. At("done") \in Job
  BY AtType DEF Places
<1> QED BY <1>1, JobAfter DEF Returns, TypeOK

-----------------------------------------------------------------------------
(* What one step may do to what the others rely on. The lemmas take the row, *)
(* the jobs and the clock as values.                                         *)

\* A job that has had the lease has had it for ever, and so with death.
Grows(jobs, next) ==
    \A k \in Jobs :
        /\ jobs[k].pc \in Had => next[k].pc \in Had
        /\ jobs[k].pc = "dead" => next[k].pc = "dead"

\* The row stays, goes, is renewed, or gets an owner that had it never before.
Onward(r, next, jobs) ==
    \/ next = r \/ next = None
    \/ r # None /\ next.owner = r.owner /\ r.revision < next.revision
    \/ jobs[next.owner].pc \notin Had

\* What a job has concluded about the row remains true.
LEMMA JudgementStays ==
    ASSUME NEW o, NEW jobs, NEW jobs2, NEW r, NEW r2, NEW now \in Nat, NEW now2 \in Nat,
           o.observed \in Row \cup {None}, o.stamp \in Nat,
           r \in Row \cup {None}, r2 \in Row \cup {None},
           Judged(o, r, jobs, now), Grows(jobs, jobs2), now <= now2,
           Onward(r, r2, jobs)
    PROVE  Judged(o, r2, jobs2, now2)
<1> USE LeaseAssumption
<1> DEFINE b == o.observed
<1>1. ASSUME o.pc \in {"judge", "swap"}
      PROVE  /\ b \in Row /\ b.owner \in Jobs /\ b.beat \in Nat /\ b.revision \in Nat
             /\ jobs2[b.owner].pc \in Had
             /\ jobs2[b.owner].pc # "dead" => b.beat <= now2
  BY <1>1 DEF Judged, Grows, Row
<1>2. ASSUME o.pc \in {"judge", "swap"}, r2 # None, r2.owner = b.owner
      PROVE  b.revision <= r2.revision /\ (b.revision = r2.revision => b.beat = r2.beat)
  <2>1. jobs[r2.owner].pc \in Had
    BY <1>2 DEF Judged
  <2>2. r # None /\ r.owner = r2.owner
    BY <1>2, <2>1 DEF Onward
  <2>3. r2.revision \in Nat /\ r.revision \in Nat /\ b.revision \in Nat
    BY <1>1, <1>2, <2>2 DEF Row
  <2> QED BY <1>2, <2>1, <2>2, <2>3 DEF Onward, Judged
<1>3. ASSUME o.pc = "swap"
      PROVE  jobs2[b.owner].pc = "dead" \/ now2 - b.beat > Lease
  BY <1>3, <1>1 DEF Judged, Grows
<1>4. o.pc \in {"insert", "swap"} => o.stamp <= now2
  BY DEF Judged
<1> QED BY <1>1, <1>2, <1>3, <1>4 DEF Judged

\* The row is still right when jobs go on and time passes.
LEMMA RowStays ==
    ASSUME NEW jobs, NEW jobs2, NEW r \in Row \cup {None}, NEW disk,
           NEW now \in Nat, NEW now2 \in Nat,
           RowFits(r, disk, jobs, now), Grows(jobs, jobs2), now <= now2
    PROVE  RowFits(r, disk, jobs2, now2)
<1>1. r # None => r.owner \in Jobs /\ r.beat \in Nat
  BY LeaseAssumption DEF Row
<1> QED BY <1>1 DEF RowFits, Grows

\* The same for all jobs, in one step of the system.
LEMMA JudgementsStay ==
    ASSUME TypeOK, TypeOK', \A k \in Jobs : Judged(job'[k], row, job, clock),
           Grows(job, job'), clock <= clock', Onward(row, row', job)
    PROVE  JudgementsAgree'
<1> SUFFICES ASSUME NEW k \in Jobs PROVE Judged(job'[k], row', job', clock')
  BY DEF JudgementsAgree
<1>1. job'[k].observed \in Row \cup {None} /\ job'[k].stamp \in Nat
  BY DEF Job, TypeOK
<1>2. /\ clock \in Nat /\ clock' \in Nat
      /\ row \in Row \cup {None} /\ row' \in Row \cup {None}
  BY LeaseAssumption DEF TypeOK
<1> HIDE DEF Judged, Grows, Onward
<1>3. Judged(job'[k], row, job, clock)
  OBVIOUS
<1> QED BY <1>1, <1>2, <1>3, JudgementStays

\* What is known of a job that publishes, and of the row.
Covered(j, o, r, now) ==
    o.pc \in Publishing =>
        /\ r # None /\ r.owner = j => o.asserted <= r.beat
        /\ now - o.asserted <= Lease => r # None /\ r.owner = j

\* The two invariants about assertions, job by job.
LEMMA CoveredMeans ==
    AssertionsAgree /\ AssertionHoldsForTheLease <=>
        \A j \in Jobs : Covered(j, job[j], row, clock)
BY DEF AssertionsAgree, AssertionHoldsForTheLease, Covered, RowIsMine, InItsWindow

\* The same in the next state.
LEMMA CoveredNext ==
    (\A j \in Jobs : Covered(j, job'[j], row', clock'))
        => AssertionsAgree' /\ AssertionHoldsForTheLease'
BY DEF AssertionsAgree, AssertionHoldsForTheLease, Covered, RowIsMine, InItsWindow

-----------------------------------------------------------------------------
(* A step of one job that leaves the row and the threads alone.              *)

Moves(j, s) ==
    /\ Becomes(j, s) /\ s \in Job
    /\ \/ process' = process /\ job[j].pc # "idle"
       \/ process' = [process EXCEPT ![ProcessOf[j]] = "alive"]
    /\ job[j].pc # "dead" /\ s.pc \notin {"idle", "dead"}
    /\ job[j].pc \in Had => s.pc \in Had
    /\ thread[j].at # "off" => s.pc \in Owning \cup {"stopping"}
    /\ Judged(s, row, job, clock) /\ Covered(j, s, row, clock)
    /\ UNCHANGED <<clock, reboots, rowVars, thread>>

\* What it writes into the files and tells its caller.
FilesTyped ==
    /\ outcome \in [Jobs -> {"none", "fresh", "reused", "failed", "refused"}]
    /\ artifact \in File /\ manifest \in File
    /\ late \in BOOLEAN

\* Such a step preserves the invariant.
LEMMA JobStep ==
    ASSUME LeaseInvariant, NEW j \in Jobs, NEW s, Moves(j, s), FilesTyped'
    PROVE  LeaseInvariant'
<1>1. /\ job' \in [Jobs -> Job] /\ job'[j] = s
      /\ \A k \in Jobs \ {j} : job'[k] = job[k]
  BY JobAfter DEF Moves, LeaseInvariant, TypeOK
<1>2. /\ process' \in [Processes -> {"new", "alive", "dead"}]
      /\ \A q \in Processes : q # ProcessOf[j] => process'[q] = process[q]
      /\ process[ProcessOf[j]] # "dead"
      /\ process'[ProcessOf[j]] \notin {"dead", "new"}
  BY LeaseAssumption DEF Moves, LeaseInvariant, TypeOK, ProcessesAgree
<1>3. TypeOK'
  BY <1>1, <1>2 DEF TypeOK, Moves, FilesTyped, LeaseInvariant, rowVars
<1>4. ProcessesAgree'
  <2> SUFFICES ASSUME NEW k \in Jobs
               PROVE  /\ job'[k].pc = "dead" <=> process'[ProcessOf[k]] = "dead"
                      /\ job'[k].pc # "idle" => process'[ProcessOf[k]] # "new"
    BY DEF ProcessesAgree
  <2>1. CASE k = j
    BY <2>1, <1>1, <1>2 DEF Moves
  <2>2. CASE k # j
    <3>1. job'[k] = job[k] /\ ProcessOf[k] \in Processes
      BY <2>2, <1>1, LeaseAssumption
    <3> QED BY <3>1, <1>2 DEF LeaseInvariant, ProcessesAgree
  <2> QED BY <2>1, <2>2
<1>5. Grows(job, job')
  BY <1>1 DEF Grows, Moves
<1>6. TransactionsAgree'
  BY <1>1 DEF TransactionsAgree, LeaseInvariant, Moves, rowVars, RowIsMine
<1>7. clock \in Nat /\ clock' = clock /\ row' = row /\ synced' = synced
  BY LeaseAssumption DEF LeaseInvariant, TypeOK, Moves, rowVars
<1>8. RowAgrees'
  BY <1>5, <1>7, RowStays DEF RowAgrees, LeaseInvariant, TypeOK
<1>9. JudgementsAgree'
  <2>1. \A k \in Jobs : Judged(job'[k], row, job, clock)
    BY <1>1 DEF LeaseInvariant, JudgementsAgree, Moves
  <2>2. Onward(row, row', job)
    BY <1>7 DEF Onward
  <2> QED BY <1>3, <1>5, <1>7, <2>1, <2>2, JudgementsStay DEF LeaseInvariant
<1>10. \A k \in Jobs : Covered(k, job'[k], row', clock')
  BY <1>1, <1>7, CoveredMeans DEF Moves, LeaseInvariant
<1> QED
  BY <1>3, <1>4, <1>6, <1>8, <1>9, <1>10, CoveredNext DEF LeaseInvariant
\* What every step of a job starts from.
LEMMA JobFacts ==
    ASSUME LeaseInvariant, NEW j \in Jobs
    PROVE  /\ job[j] \in Job /\ clock \in Nat
           /\ row \in Row \cup {None} /\ manifest \in File
           /\ thread[j].at # "off" => job[j].pc \in Owning \cup {"stopping"}
           /\ Judged(job[j], row, job, clock) /\ Covered(j, job[j], row, clock)
<1>1. Covered(j, job[j], row, clock)
  BY CoveredMeans DEF LeaseInvariant
<1> QED
  BY <1>1, LeaseAssumption
     DEF LeaseInvariant, TypeOK, TransactionsAgree, JudgementsAgree

\* A job that neither acquires the lease nor relies on it.
Plain == {"look", "hash", "observe", "starting", "relook", "rehash", "work",
          "stopping", "deleting", "done"}

\* A step from one plain place to another.
LEMMA PlainMove ==
    ASSUME LeaseInvariant, NEW j \in Jobs, NEW s \in Job, Becomes(j, s), s.pc \in Plain,
           job[j].pc # "dead",
           \/ process' = process /\ job[j].pc # "idle"
           \/ process' = [process EXCEPT ![ProcessOf[j]] = "alive"],
           job[j].pc \in Had => s.pc \in Had,
           job[j].pc \in Owning \cup {"stopping"} => s.pc \in Owning \cup {"stopping"},
           UNCHANGED <<clock, reboots, rowVars, thread>>
    PROVE  Moves(j, s)
<1>1. Judged(s, row, job, clock) /\ Covered(j, s, row, clock)
  BY DEF Plain, Judged, Covered, Publishing
<1>2. s.pc \notin {"idle", "dead"}
  BY DEF Plain
<1>3. thread[j].at # "off" => s.pc \in Owning \cup {"stopping"}
  BY JobFacts
<1> QED BY <1>1, <1>2, <1>3 DEF Moves

JobMoves(j) == (\E s : Moves(j, s)) /\ FilesTyped'

\* So does a step of this kind, whatever it writes into the files.
LEMMA JobMovesPreserves ==
    ASSUME LeaseInvariant, NEW j \in Jobs, JobMoves(j)
    PROVE  LeaseInvariant'
BY JobStep DEF JobMoves

\* Only the job changes.
Stays == UNCHANGED <<clockVars, rowVars, fileVars, thread>>

\* The variables that such a step leaves as they are.
LEMMA StaysMeans ==
    ASSUME LeaseInvariant, Stays
    PROVE  /\ process' = process /\ UNCHANGED <<clock, reboots, rowVars, thread>>
           /\ outcome' = outcome => FilesTyped'
           /\ outcome' \in [Jobs -> {"none", "fresh", "reused", "failed", "refused"}]
                  => FilesTyped'
BY DEF Stays, clockVars, fileVars, LeaseInvariant, TypeOK, FilesTyped

\* A call that returns without owning the lease.
LEMMA ReturnMoves ==
    ASSUME LeaseInvariant, NEW j \in Jobs, Stays,
           NEW what \in {"none", "fresh", "reused", "failed", "refused"}, Returns(j, what),
           job[j].pc \notin {"idle", "dead"} \cup Owning \cup {"stopping"}
    PROVE  JobMoves(j)
<1>1. At("done") \in Job /\ At("done").pc = "done"
  BY AtType DEF Places, At
<1>2. Becomes(j, At("done")) /\ FilesTyped'
  BY ReturnsType, StaysMeans DEF LeaseInvariant
<1>3. Moves(j, At("done"))
  BY <1>1, <1>2, PlainMove, StaysMeans DEF Plain, Had
<1> QED BY <1>2, <1>3 DEF JobMoves

\* A job on its way to the lease owns nothing.
LEMMA AcquiringMoves ==
    ASSUME LeaseInvariant, NEW j \in Jobs, Stays, NEW s \in Job, Becomes(j, s),
           job[j].pc \in Acquiring \cup {"hash"}, s.pc \in Acquiring,
           Judged(s, row, job, clock)
    PROVE  Moves(j, s)
<1>1. job[j].pc \notin Had /\ job[j].pc \notin {"idle", "dead"} /\ thread[j].at = "off"
  BY JobFacts DEF Acquiring, Had, Owning, Publishing, Releasing
<1>2. s.pc \notin {"idle", "dead"} /\ s.pc \notin Publishing
  BY DEF Acquiring, Publishing
<1> QED BY <1>1, <1>2, StaysMeans DEF Moves, Covered

\* A lost round of acquireJobLock.
LEMMA TryAgainMoves ==
    ASSUME LeaseInvariant, NEW j \in Jobs, Stays, TryAgain(j), job[j].pc \in Acquiring
    PROVE  JobMoves(j)
<1>1. CASE job[j].tries + 1 < Attempts
  <2> DEFINE s == [At("insert") EXCEPT !.tries = job[j].tries + 1, !.stamp = clock]
  <2>1. At("insert") \in Job /\ job[j].tries + 1 \in Nat /\ clock \in Nat
    BY AtType, JobFacts DEF Places, Acquiring, Job
  <2>2. s \in Job
    BY <2>1, Stamped
  <2>3. s.pc = "insert" /\ s.stamp = clock
    BY DEF At
  <2>4. Becomes(j, s) /\ outcome' = outcome
    BY <1>1 DEF TryAgain
  <2>5. Judged(s, row, job, clock) /\ s.pc \in Acquiring
    BY <2>1, <2>3 DEF Judged, Acquiring
  <2> HIDE DEF s
  <2>6. Moves(j, s)
    BY <2>2, <2>4, <2>5, AcquiringMoves
  <2> QED BY <2>4, <2>6, StaysMeans DEF JobMoves
<1>2. CASE ~(job[j].tries + 1 < Attempts)
  BY <1>2, ReturnMoves DEF TryAgain, Acquiring, Owning, Publishing
<1> QED BY <1>1, <1>2

-----------------------------------------------------------------------------
(* The steps of a job, but for those that take, renew or give up the lease.  *)

\* Going on to a place that needs no lease, with what is at hand.
LEMMA PlainMoves ==
    ASSUME LeaseInvariant, NEW j \in Jobs, Stays, outcome' = outcome,
           NEW s \in Job, Becomes(j, s), s.pc \in Plain,
           job[j].pc \notin {"idle", "dead"},
           job[j].pc \in Had => s.pc \in Had,
           job[j].pc \in Owning \cup {"stopping"} => s.pc \in Owning \cup {"stopping"}
    PROVE  JobMoves(j)
BY PlainMove, StaysMeans DEF JobMoves

\* materializeChzzkVod is called.
LEMMA StartMoves ==
    ASSUME LeaseInvariant, NEW j \in Jobs, Start(j)
    PROVE  JobMoves(j)
<1> DEFINE s == [job[j] EXCEPT !.pc = "look"]
<1>1. s \in Job /\ s.pc = "look" /\ Becomes(j, s)
  BY JobFacts DEF Job, Places, Start, Goto
<1>2. job[j].pc \notin Had \cup Owning \cup {"stopping", "dead"}
  BY DEF Start, Had, Owning, Publishing, Releasing
<1>3. /\ process' = [process EXCEPT ![ProcessOf[j]] = "alive"]
      /\ UNCHANGED <<clock, reboots, rowVars, thread>> /\ FilesTyped'
  BY DEF Start, FilesTyped, LeaseInvariant, TypeOK, fileVars
<1> HIDE DEF s
<1>4. Moves(j, s)
  BY <1>1, <1>2, <1>3, PlainMove DEF Plain
<1> QED BY <1>3, <1>4 DEF JobMoves

\* The reuse check, before the lock and under it.
LEMMA ReuseMoves ==
    ASSUME LeaseInvariant, NEW j \in Jobs, Reuse(j)
    PROVE  JobMoves(j)
<1> USE JobFacts
<1>1. CASE job[j].pc = "look" /\ ReadManifest(j)
  <2> DEFINE s == [job[j] EXCEPT !.pc = "hash", !.seen = manifest]
  <2>1. s \in Job /\ s.pc = "hash" /\ Becomes(j, s) /\ Stays /\ outcome' = outcome
    BY <1>1 DEF Job, Places, ReadManifest, Stays
  <2> HIDE DEF s
  <2> QED BY <1>1, <2>1, PlainMoves DEF Plain, Had, Owning, Publishing, Releasing
<1>2. CASE job[j].pc = "relook" /\ ReadManifest(j)
  <2> DEFINE s == [job[j] EXCEPT !.pc = "rehash", !.seen = manifest]
  <2>1. s \in Job /\ s.pc = "rehash" /\ Becomes(j, s) /\ Stays /\ outcome' = outcome
    BY <1>2 DEF Job, Places, Owning, ReadManifest, Stays
  <2> HIDE DEF s
  <2> QED BY <1>2, <2>1, PlainMoves DEF Plain, Had, Owning
<1>3. CASE ReuseUnlocked(j)
  BY <1>3, ReturnMoves DEF ReuseUnlocked, Stays, Owning, Publishing
<1>4. CASE ReuseLocked(j)
  <2> DEFINE s == [job[j] EXCEPT !.pc = "stopping", !.seen = None, !.result = "reused"]
  <2>1. s \in Job /\ s.pc = "stopping" /\ Becomes(j, s) /\ Stays /\ outcome' = outcome
    BY <1>4 DEF Job, File, Places, Releasing, ReuseLocked, Stays
  <2> HIDE DEF s
  <2> QED BY <1>4, <2>1, PlainMoves DEF Plain, Had, Owning, Releasing, ReuseLocked
<1>5. CASE job[j].pc = "hash" /\ NothingToReuse(j)
  <2> DEFINE s == [At("insert") EXCEPT !.stamp = clock]
  <2>1. At("insert") \in Job
    BY AtType DEF Places, Acquiring
  <2>2. s \in Job /\ s.pc = "insert" /\ s.stamp = clock
    BY <2>1 DEF Job, At
  <2>3. Becomes(j, s) /\ Stays /\ outcome' = outcome
    BY <1>5 DEF NothingToReuse, Stays
  <2>4. Judged(s, row, job, clock) /\ s.pc \in Acquiring
    BY <2>2 DEF Judged, Acquiring
  <2> HIDE DEF s
  <2> QED BY <1>5, <2>2, <2>3, <2>4, AcquiringMoves, StaysMeans DEF JobMoves
<1>6. CASE job[j].pc = "rehash" /\ NothingToReuse(j)
  <2> DEFINE s == [job[j] EXCEPT !.pc = "work", !.seen = None]
  <2>1. s \in Job /\ s.pc = "work" /\ Becomes(j, s) /\ Stays /\ outcome' = outcome
    BY <1>6 DEF Job, File, Places, Owning, NothingToReuse, Stays
  <2> HIDE DEF s
  <2> QED BY <1>6, <2>1, PlainMoves DEF Plain, Had, Owning
<1> QED
  BY <1>1, <1>2, <1>3, <1>4, <1>5, <1>6 DEF Reuse, ReadManifest, NothingToReuse

\* Reading the row and judging it.
LEMMA JudgeMoves ==
    ASSUME LeaseInvariant, NEW j \in Jobs,
           Observe(j) \/ JudgeActive(j) \/ JudgeInactive(j) \/ AcquireBusy(j)
    PROVE  JobMoves(j)
<1> USE JobFacts
<1>1. CASE Observe(j) /\ row = None
  BY <1>1, TryAgainMoves DEF Observe, Stays, Acquiring
<1>2. CASE Observe(j) /\ row # None
  <2> DEFINE s == [job[j] EXCEPT !.pc = "judge", !.observed = row]
  <2>1. s \in Job /\ s.pc = "judge" /\ s.observed = row
    BY DEF Job, Places, Acquiring
  <2>2. Becomes(j, s) /\ Stays /\ outcome' = outcome /\ job[j].pc \in Acquiring
    BY <1>2 DEF Observe, Stays, Acquiring
  <2> HIDE DEF s
  <2>3. row.revision \in Nat
    BY <1>2 DEF Row
  <2>4. Judged(s, row, job, clock) /\ s.pc \in Acquiring
    BY <1>2, <2>1, <2>3 DEF Judged, Acquiring, LeaseInvariant, RowAgrees, RowFits
  <2> QED BY <2>1, <2>2, <2>4, AcquiringMoves, StaysMeans DEF JobMoves
<1>3. CASE JudgeActive(j)
  BY <1>3, ReturnMoves DEF JudgeActive, Stays, Owning, Publishing
<1>4. CASE JudgeInactive(j)
  <2> DEFINE s == [job[j] EXCEPT !.pc = "swap", !.stamp = clock]
             b == job[j].observed
  <2>1. s \in Job /\ s.pc = "swap" /\ s.stamp = clock /\ s.observed = b
    BY DEF Job, Places, Acquiring
  <2>2. Becomes(j, s) /\ Stays /\ outcome' = outcome /\ job[j].pc = "judge"
    BY <1>4 DEF JudgeInactive, Stays
  <2>3. b \in Row /\ b.owner \in Jobs /\ b.beat \in Nat
    BY <2>2 DEF Judged, Job, Row
  <2> HIDE DEF s
  <2>4. job[b.owner].pc = "dead" \/ clock - b.beat > Lease
    <3>1. CASE process[ProcessOf[b.owner]] = "dead"
      BY <2>3, <3>1 DEF LeaseInvariant, ProcessesAgree
    <3>2. CASE ~Fresh(b)
      BY <2>2, <2>3, <3>2, LeaseAssumption DEF Fresh, Judged
    <3> QED BY <1>4, <3>1, <3>2 DEF JudgeInactive
  <2>5. Judged(s, row, job, clock) /\ s.pc \in Acquiring
    BY <2>1, <2>2, <2>4 DEF Judged, Acquiring
  <2> QED BY <2>1, <2>2, <2>5, AcquiringMoves, StaysMeans DEF JobMoves, Acquiring
<1>5. CASE AcquireBusy(j)
  BY <1>5, ReturnMoves DEF AcquireBusy, Stays, Owning, Publishing
<1> QED BY <1>1, <1>2, <1>3, <1>4, <1>5

\* The two writes, when the row is not as they need it.
LEMMA RefusedMoves ==
    ASSUME LeaseInvariant, NEW j \in Jobs,
           \/ Insert(j) /\ row # None
           \/ CompareAndSwap(j) /\ ~StillObserved(j)
    PROVE  JobMoves(j)
<1> USE JobFacts
<1>1. CASE Insert(j) /\ row # None
  <2> DEFINE s == [job[j] EXCEPT !.pc = "observe"]
  <2>1. s \in Job /\ s.pc = "observe" /\ Becomes(j, s) /\ Stays /\ outcome' = outcome
    BY <1>1 DEF Job, Places, Acquiring, Insert, Goto, Stays, rowVars
  <2> HIDE DEF s
  <2> QED BY <1>1, <2>1, PlainMoves DEF Plain, Had, Owning, Publishing, Releasing, Insert
<1>2. CASE CompareAndSwap(j) /\ ~StillObserved(j)
  BY <1>2, TryAgainMoves DEF CompareAndSwap, Stays, rowVars, Acquiring
<1> QED BY <1>1, <1>2

\* A step of the owner whose assertion, if it has one, still covers it.
LEMMA OwnerMoves ==
    ASSUME LeaseInvariant, NEW j \in Jobs, NEW s \in Job, Becomes(j, s),
           job[j].pc \in Owning, s.pc \in Owning, Covered(j, s, row, clock),
           UNCHANGED <<clockVars, rowVars, thread>>, FilesTyped'
    PROVE  JobMoves(j)
<1>1. job[j].pc \notin {"idle", "dead"} /\ s.pc \notin {"idle", "dead"} /\ s.pc \in Had
  BY DEF Owning, Publishing, Had
<1>2. Judged(s, row, job, clock)
  BY DEF Judged, Owning, Publishing
<1> QED BY <1>1, <1>2 DEF JobMoves, Moves, clockVars

\* The job while its thread beats.
LEMMA OwnedMoves ==
    ASSUME LeaseInvariant, NEW j \in Jobs, NoticeFailure(j) \/ Started(j)
    PROVE  JobMoves(j)
<1> USE JobFacts
<1>1. CASE NoticeFailure(j)
  <2> DEFINE s == [job[j] EXCEPT !.failure = TRUE]
  <2>1. /\ s \in Job /\ s.pc = job[j].pc /\ s.asserted = job[j].asserted
        /\ Becomes(j, s) /\ Stays /\ outcome' = outcome /\ job[j].pc \in Owning
    BY <1>1 DEF Job, NoticeFailure, Stays
  <2> HIDE DEF s
  <2>2. Covered(j, s, row, clock)
    BY <2>1 DEF Covered
  <2> QED BY <2>1, <2>2, OwnerMoves, StaysMeans DEF Stays
<1>2. CASE Started(j)
  <2> DEFINE s == [job[j] EXCEPT !.pc = "relook"]
  <2>1. s \in Job /\ s.pc = "relook" /\ Becomes(j, s) /\ Stays /\ outcome' = outcome
    BY <1>2 DEF Job, Places, Owning, Started, Goto, Stays
  <2> HIDE DEF s
  <2> QED BY <1>2, <2>1, PlainMoves DEF Plain, Had, Owning, Started
<1> QED BY <1>1, <1>2

\* The work: assertions, renames, the result or a failure.
LEMMA PublishMoves ==
    ASSUME LeaseInvariant, NEW j \in Jobs, Publish(j)
    PROVE  JobMoves(j)
<1> USE JobFacts
<1>1. ASSUME NEW place \in Publishing, Asserted(j, place), job[j].pc \in Owning
      PROVE  JobMoves(j)
  <2> DEFINE s == [job[j] EXCEPT !.pc = place, !.asserted = row.beat]
  <2>1. row \in Row /\ row.owner = j /\ row.beat \in Nat
    BY <1>1 DEF Asserted, Owned, RowIsMine, Row
  <2>2. s \in Job /\ s.pc = place /\ s.asserted = row.beat
    BY <2>1 DEF Job, Places, Owning
  <2>3. Becomes(j, s) /\ Stays /\ outcome' = outcome
    BY <1>1 DEF Asserted, Stays
  <2> HIDE DEF s
  <2>4. Covered(j, s, row, clock)
    BY <2>1, <2>2, RowAssumption DEF Covered
  <2> QED BY <1>1, <2>2, <2>3, <2>4, OwnerMoves, StaysMeans DEF Owning, Stays
<1>2. ASSUME NEW place \in Publishing, Goto(j, place), job[j].pc \in Publishing,
             UNCHANGED <<clockVars, rowVars, thread>>, FilesTyped'
      PROVE  JobMoves(j)
  <2> DEFINE s == [job[j] EXCEPT !.pc = place]
  <2>1. s \in Job /\ s.pc = place /\ s.asserted = job[j].asserted /\ Becomes(j, s)
    BY <1>2 DEF Job, Places, Owning, Goto
  <2> HIDE DEF s
  <2>2. Covered(j, s, row, clock)
    BY <1>2, <2>1 DEF Covered
  <2> QED BY <1>2, <2>1, <2>2, OwnerMoves DEF Owning
<1>3. CASE AssertBeforeArtifact(j) \/ AssertBeforeManifest(j)
  BY <1>1, <1>3 DEF AssertBeforeArtifact, AssertBeforeManifest, Owning, Publishing
<1>4. CASE RenameArtifact(j)
  <2>1. FilesTyped'
    BY <1>4 DEF RenameArtifact, FilesTyped, LeaseInvariant, TypeOK, File, InItsWindow
  <2> QED BY <1>2, <1>4, <2>1 DEF RenameArtifact, Publishing
<1>5. CASE RenameManifest(j)
  <2>1. FilesTyped'
    BY <1>5 DEF RenameManifest, FilesTyped, LeaseInvariant, TypeOK, File, InItsWindow
  <2> QED BY <1>2, <1>5, <2>1 DEF RenameManifest, Publishing
<1>6. CASE Finish(j)
  <2> DEFINE s == [job[j] EXCEPT !.pc = "stopping", !.asserted = 0, !.result = "fresh"]
  <2>1. s \in Job /\ s.pc = "stopping" /\ Becomes(j, s) /\ Stays /\ outcome' = outcome
    BY <1>6 DEF Job, Places, Releasing, Finish, Stays
  <2> HIDE DEF s
  <2> QED BY <1>6, <2>1, PlainMoves DEF Plain, Had, Owning, Releasing, Publishing, Finish
<1>7. CASE JobFails(j)
  <2> DEFINE s == [At("stopping") EXCEPT !.result = "failed"]
  <2>1. At("stopping") \in Job
    BY AtType DEF Places, Releasing
  <2>2. s \in Job /\ s.pc = "stopping"
    BY <2>1 DEF Job, At
  <2>3. Becomes(j, s) /\ Stays /\ outcome' = outcome
    BY <1>7 DEF JobFails, Stays
  <2> HIDE DEF s
  <2> QED BY <1>7, <2>2, <2>3, PlainMoves DEF Plain, Had, Owning, Releasing, Publishing, JobFails
<1> QED BY <1>3, <1>4, <1>5, <1>6, <1>7 DEF Publish

-----------------------------------------------------------------------------
(* Taking the lease.                                                         *)

\* What the insert and the swap have in common: the row is free, or its owner
\* is dead or past the window of its last beat; no transaction is open.
Takes(j) ==
    /\ job[j].pc \in {"insert", "swap"} /\ writer = None
    /\ row # None =>
          /\ job[row.owner].pc \in Had
          /\ job[row.owner].pc = "dead" \/ clock - row.beat > Lease
    /\ \E n \in Nat \ {0} : Acquired(j, [owner |-> j, revision |-> n, beat |-> job[j].stamp])
    /\ UNCHANGED <<clockVars, writer, fileVars, outcome>>

\* The insert finds no row; the swap finds the one that was judged.
LEMMA TakeMeans ==
    ASSUME LeaseInvariant, NEW j \in Jobs,
           \/ Insert(j) /\ row = None
           \/ CompareAndSwap(j) /\ StillObserved(j)
    PROVE  Takes(j)
<1> USE JobFacts
<1>1. CASE Insert(j) /\ row = None
  BY <1>1 DEF Insert, Takes
<1>2. CASE CompareAndSwap(j) /\ StillObserved(j)
  <2>1. /\ job[j].pc = "swap" /\ writer = None /\ row # None /\ row \in Row
        /\ row.owner = job[j].observed.owner /\ row.revision = job[j].observed.revision
    BY <1>2 DEF CompareAndSwap, StillObserved
  <2>2. row.revision + 1 \in Nat \ {0}
    BY <2>1 DEF Row
  <2>3. row.beat = job[j].observed.beat /\ job[row.owner].pc \in Had
    BY <2>1 DEF Judged
  <2>4. job[row.owner].pc = "dead" \/ clock - row.beat > Lease
    BY <2>1, <2>3 DEF Judged
  <2> QED BY <1>2, <2>1, <2>2, <2>3, <2>4 DEF CompareAndSwap, Takes
<1> QED BY <1>1, <1>2

\* Who takes the lease disturbs no assertion: the owner was past its window.
LEMMA TakePreserves ==
    ASSUME LeaseInvariant, NEW j \in Jobs, Takes(j)
    PROVE  LeaseInvariant'
<1> USE JobFacts
<1>1. PICK n \in Nat \ {0} :
          Acquired(j, [owner |-> j, revision |-> n, beat |-> job[j].stamp])
  BY DEF Takes
<1> DEFINE r == [owner |-> j, revision |-> n, beat |-> job[j].stamp]
           t == [NoThread EXCEPT !.at = "waiting", !.revision = n, !.beat = job[j].stamp]
<1>2. /\ r \in Row /\ r.owner = j /\ r.beat = job[j].stamp
      /\ job[j].stamp \in Nat /\ job[j].stamp <= clock
  BY DEF Row, Job, Takes, Judged
<1>3. t \in Thread /\ t.at = "waiting"
  BY <1>2, NoThreadType DEF Thread, NoThread
<1>4. row' = r /\ synced' = r /\ thread' = [thread EXCEPT ![j] = t] /\ r # None
  BY <1>1, <1>2, RowAssumption DEF Acquired
<1>5. At("starting") \in Job /\ At("starting").pc = "starting"
  BY AtType DEF Places, Owning, At
<1>6. /\ job' \in [Jobs -> Job] /\ job'[j].pc = "starting"
      /\ \A k \in Jobs \ {j} : job'[k] = job[k]
  BY <1>1, <1>5, JobAfter DEF Acquired, LeaseInvariant, TypeOK
<1>7. /\ UNCHANGED <<clock, process, reboots, writer, artifact, manifest, late, outcome>>
      /\ writer = None /\ job[j].pc \in {"insert", "swap"}
  BY DEF Takes, clockVars, fileVars
<1>8. /\ thread' \in [Jobs -> Thread] /\ thread'[j].at = "waiting"
      /\ \A k \in Jobs \ {j} : thread'[k] = thread[k]
  BY <1>3, <1>4 DEF LeaseInvariant, TypeOK
<1> HIDE DEF r, t
<1>9. TypeOK'
  BY <1>2, <1>4, <1>6, <1>7, <1>8 DEF LeaseInvariant, TypeOK
<1>10. ProcessesAgree'
  BY <1>6, <1>7 DEF LeaseInvariant, ProcessesAgree
<1>11. TransactionsAgree'
  <2> SUFFICES ASSUME NEW k \in Jobs
               PROVE  /\ thread'[k].at \notin {"begun", "stamped"}
                      /\ thread'[k].at # "off" => job'[k].pc \in Owning \cup {"stopping"}
    BY <1>7, LeaseAssumption DEF TransactionsAgree
  <2>1. CASE k = j
    BY <2>1, <1>6, <1>8 DEF Owning
  <2>2. CASE k # j
    BY <2>2, <1>6, <1>7, <1>8, LeaseAssumption DEF LeaseInvariant, TransactionsAgree
  <2> QED BY <2>1, <2>2
<1>12. RowAgrees'
  BY <1>2, <1>4, <1>6, <1>7 DEF RowAgrees, RowFits, Had, Owning
<1>13. Grows(job, job')
  BY <1>6, <1>7 DEF Grows, Had, Owning, Publishing
<1>14. JudgementsAgree'
  <2>1. Onward(row, row', job)
    BY <1>2, <1>4, <1>7 DEF Onward, Had, Owning, Publishing, Releasing
  <2>2. \A k \in Jobs : Judged(job'[k], row, job, clock)
    BY <1>6 DEF LeaseInvariant, JudgementsAgree, Judged
  <2> QED BY <1>7, <1>9, <1>13, <2>1, <2>2, JudgementsStay DEF LeaseInvariant
<1>15. ASSUME NEW k \in Jobs PROVE Covered(k, job'[k], row', clock')
  <2>1. CASE k = j
    BY <2>1, <1>6 DEF Covered, Publishing
  <2>2. CASE k # j
    <3> SUFFICES ASSUME job[k].pc \in Publishing PROVE ~(clock - job[k].asserted <= Lease)
      BY <2>2, <1>2, <1>4, <1>6, <1>7 DEF Covered
    <3>1. job[k] \in Job /\ job[k].asserted \in Nat
      BY DEF Job
    <3>2. Covered(k, job[k], row, clock) /\ job[k].pc # "dead"
      BY DEF Publishing
    <3>3. CASE row = None \/ row.owner # k
      BY <3>2, <3>3 DEF Covered
    <3>4. CASE row # None /\ row.owner = k
      <4>1. job[k].asserted <= row.beat /\ row.beat \in Nat
        BY <3>2, <3>4 DEF Covered, Row
      <4>2. clock - row.beat > Lease
        BY <3>2, <3>4 DEF Takes
      <4> QED BY <3>1, <4>1, <4>2, LeaseAssumption
    <3> QED BY <3>3, <3>4
  <2> QED BY <2>1, <2>2
<1> QED
  BY <1>9, <1>10, <1>11, <1>12, <1>14, <1>15, CoveredNext DEF LeaseInvariant

-----------------------------------------------------------------------------
(* The heartbeat thread.                                                     *)

\* What the thread of a job knows.
LEMMA ThreadFacts ==
    ASSUME LeaseInvariant, NEW j \in Jobs
    PROVE  /\ thread[j] \in Thread
           /\ writer = j <=> thread[j].at \in {"begun", "stamped"}
           /\ thread[j].at \in {"begun", "stamped"} => job[j].pc # "dead"
           /\ thread[j].at = "stamped" =>
                 RowIsMine(j) /\ row.beat <= thread[j].stamp /\ thread[j].stamp <= clock
BY DEF LeaseInvariant, TypeOK, TransactionsAgree, Owning, Publishing

\* The beat up to its commit, and its failure: the row is as it was.
LEMMA ThreadPreserves ==
    ASSUME LeaseInvariant, NEW j \in Jobs, BeginBeat(j) \/ StampBeat(j) \/ ThreadFails(j)
    PROVE  LeaseInvariant'
<1> USE ThreadFacts, JobFacts
<1>1. /\ thread' \in [Jobs -> Thread]
      /\ \A k \in Jobs \ {j} : thread'[k] = thread[k]
      /\ thread[j].at # "off"
  <2>1. thread \in [Jobs -> Thread] /\ thread[j] \in Thread /\ clock \in Nat
    BY DEF LeaseInvariant, TypeOK
  <2>2. CASE BeginBeat(j)
    <3> DEFINE t == [thread[j] EXCEPT !.at = "begun"]
    <3>1. t \in Thread /\ thread' = [thread EXCEPT ![j] = t] /\ thread[j].at # "off"
      BY <2>1, <2>2 DEF BeginBeat, Thread
    <3> HIDE DEF t
    <3> QED BY <2>1, <3>1
  <2>3. CASE StampBeat(j)
    <3> DEFINE t == [thread[j] EXCEPT !.at = "stamped", !.stamp = clock]
    <3>1. t \in Thread /\ thread' = [thread EXCEPT ![j] = t] /\ thread[j].at # "off"
      BY <2>1, <2>3 DEF StampBeat, Thread
    <3> HIDE DEF t
    <3> QED BY <2>1, <3>1
  <2>4. CASE ThreadFails(j)
    <3> DEFINE t == [NoThread EXCEPT !.at = "failed", !.ready = thread[j].ready]
    <3>1. t \in Thread /\ thread' = [thread EXCEPT ![j] = t] /\ thread[j].at # "off"
      BY <2>1, <2>4, NoThreadType DEF ThreadFails, NoThread, Thread
    <3> HIDE DEF t
    <3> QED BY <2>1, <3>1
  <2> QED BY <2>2, <2>3, <2>4
<1>2. UNCHANGED <<clockVars, row, synced, fileVars, job, outcome>>
  BY DEF BeginBeat, StampBeat, ThreadFails, rowVars
<1>3. writer' \in {None, writer, j}
  BY DEF BeginBeat, StampBeat, ThreadFails, rowVars
<1>4. TypeOK'
  BY <1>1, <1>2, <1>3 DEF LeaseInvariant, TypeOK, clockVars, fileVars
<1>5. TransactionsAgree'
  <2>1. ASSUME NEW k \in Jobs
        PROVE  thread'[k].at # "off" => job'[k].pc \in Owning \cup {"stopping"}
    BY <1>1, <1>2
  <2>2. CASE BeginBeat(j)
    <3>1. writer = None /\ writer' = j /\ thread'[j].at = "begun"
      BY <2>2 DEF BeginBeat, LeaseInvariant, TypeOK, Thread
    <3> QED BY <1>1, <1>2, <2>1, <3>1, LeaseAssumption DEF TransactionsAgree, RowIsMine
  <2>3. CASE StampBeat(j)
    <3>1. /\ writer' = writer /\ thread[j].at = "begun"
          /\ thread'[j].at = "stamped" /\ thread'[j].stamp = clock
          /\ RowIsMine(j) /\ row \in Row
      BY <2>3 DEF StampBeat, rowVars, RowIsMine, LeaseInvariant, TypeOK, Thread
    <3>2. row.beat <= clock
      BY <3>1 DEF LeaseInvariant, RowAgrees, RowFits, RowIsMine
    <3> QED BY <1>1, <1>2, <2>1, <3>1, <3>2 DEF TransactionsAgree, RowIsMine, clockVars
  <2>4. CASE ThreadFails(j)
    <3>1. /\ thread'[j].at = "failed"
          /\ writer' = IF writer = j THEN None ELSE writer
      BY <2>4 DEF ThreadFails, NoThread, LeaseInvariant, TypeOK
    <3> QED BY <1>1, <1>2, <2>1, <3>1, LeaseAssumption DEF TransactionsAgree, RowIsMine, clockVars
  <2> QED BY <2>2, <2>3, <2>4
<1>6. /\ ProcessesAgree' /\ RowAgrees' /\ JudgementsAgree' /\ AssertionsAgree'
      /\ AssertionHoldsForTheLease'
  BY <1>2 DEF clockVars, LeaseInvariant, ProcessesAgree, RowAgrees, JudgementsAgree,
              AssertionsAgree, AssertionHoldsForTheLease, InItsWindow, RowIsMine
<1> QED BY <1>4, <1>5, <1>6 DEF LeaseInvariant

\* A beat that commits: the row keeps its owner, and its beat does not go back.
LEMMA CommitMeans ==
    ASSUME LeaseInvariant, NEW j \in Jobs, CommitBeat(j)
    PROVE  /\ row # None /\ row \in Row /\ row.owner = j /\ job[j].pc # "dead"
           /\ row' # None /\ row' \in Row /\ row'.owner = j
           /\ row'.revision = row.revision + 1
           /\ row.beat <= row'.beat /\ row'.beat <= clock
           /\ UNCHANGED <<clockVars, synced, fileVars, job, outcome>>
<1>1. /\ row # None /\ row \in Row /\ row.owner = j
      /\ row.beat <= thread[j].stamp /\ thread[j].stamp <= clock /\ thread[j].stamp \in Nat
      /\ job[j].pc # "dead"
  BY JobFacts, ThreadFacts DEF CommitBeat, RowIsMine, Thread
<1>2. row' = [row EXCEPT !.revision = @ + 1, !.beat = thread[j].stamp]
  BY DEF CommitBeat
<1>3. /\ row' \in Row /\ row'.owner = j /\ row'.beat = thread[j].stamp
      /\ row'.revision = row.revision + 1
  <2>1. row.revision + 1 \in Nat \ {0}
    BY <1>1 DEF Row
  <2>2. row' = [owner |-> j, revision |-> row.revision + 1, beat |-> thread[j].stamp]
    BY <1>1, <1>2 DEF Row
  <2> QED BY <1>1, <2>1, <2>2 DEF Row
<1> QED BY <1>1, <1>3, RowAssumption DEF CommitBeat

\* A committed beat preserves the invariant.
LEMMA CommitPreserves ==
    ASSUME LeaseInvariant, NEW j \in Jobs, CommitBeat(j)
    PROVE  LeaseInvariant'
<1> USE JobFacts
<1>1. /\ row # None /\ row \in Row /\ row.owner = j /\ job[j].pc # "dead"
      /\ row' # None /\ row' \in Row /\ row'.owner = j
      /\ row'.revision = row.revision + 1
      /\ row.beat <= row'.beat /\ row'.beat <= clock
      /\ UNCHANGED <<clockVars, synced, fileVars, job, outcome>>
  BY CommitMeans
<1>2. /\ thread' \in [Jobs -> Thread] /\ thread'[j].at \in {"waiting", "failed"}
      /\ \A k \in Jobs \ {j} : thread'[k] = thread[k]
      /\ thread[j].at = "stamped" /\ writer' = None
  <2>1. thread[j] \in Thread
    BY ThreadFacts
  <2> QED BY <2>1 DEF CommitBeat, Thread, LeaseInvariant, TypeOK
<1>3. TypeOK'
  BY <1>1, <1>2 DEF LeaseInvariant, TypeOK, clockVars, fileVars
<1>4. TransactionsAgree'
  <2>1. \A k \in Jobs : writer = k => k = j
    BY <1>2, ThreadFacts
  <2> QED
    BY <1>1, <1>2, <2>1, LeaseAssumption DEF LeaseInvariant, TransactionsAgree
<1>5. row.beat \in Nat /\ row'.beat \in Nat /\ row.revision \in Nat
  BY <1>1 DEF Row
<1>6. RowAgrees'
  <2>1. synced # None /\ synced \in Row /\ synced.beat \in Nat
    BY <1>1 DEF LeaseInvariant, RowAgrees, RowFits, TypeOK, Row
  <2> QED BY <1>1, <1>5, <2>1 DEF LeaseInvariant, RowAgrees, RowFits, clockVars
<1>7. JudgementsAgree'
  <2>1. Grows(job, job') /\ clock' = clock
    BY <1>1 DEF Grows, clockVars
  <2>2. Onward(row, row', job)
    BY <1>1, <1>5 DEF Onward
  <2>3. \A k \in Jobs : Judged(job'[k], row, job, clock)
    BY <1>1
  <2> QED BY <1>3, <2>1, <2>2, <2>3, JudgementsStay DEF LeaseInvariant
<1>8. ASSUME NEW k \in Jobs PROVE Covered(k, job'[k], row', clock')
  <2>1. job[k] \in Job /\ job[k].asserted \in Nat /\ Covered(k, job[k], row, clock)
    BY DEF Job
  <2> QED BY <1>1, <1>5, <2>1 DEF Covered, clockVars
<1>9. ProcessesAgree'
  BY <1>1 DEF LeaseInvariant, ProcessesAgree, clockVars
<1> QED BY <1>3, <1>4, <1>6, <1>7, <1>8, <1>9, CoveredNext DEF LeaseInvariant

-----------------------------------------------------------------------------
(* Giving the lease up.                                                      *)

\* release: the thread ends.
LEMMA StopPreserves ==
    ASSUME LeaseInvariant, NEW j \in Jobs, StopThread(j)
    PROVE  LeaseInvariant'
<1> USE JobFacts
<1> DEFINE s == [job[j] EXCEPT !.pc = "deleting"]
<1>1. s \in Job /\ s.pc = "deleting" /\ Becomes(j, s)
  BY DEF Job, Places, Releasing, StopThread, Goto
<1> HIDE DEF s
<1>2. /\ job' \in [Jobs -> Job] /\ job'[j].pc = "deleting" /\ job[j].pc = "stopping"
      /\ \A k \in Jobs \ {j} : job'[k] = job[k]
  BY <1>1, JobAfter DEF StopThread, LeaseInvariant, TypeOK
<1>3. /\ thread' \in [Jobs -> Thread] /\ thread'[j].at = "off"
      /\ \A k \in Jobs \ {j} : thread'[k] = thread[k]
  BY NoThreadType DEF NoThread, StopThread, LeaseInvariant, TypeOK
<1>4. UNCHANGED <<clockVars, row, synced, fileVars, outcome>>
  BY DEF StopThread
<1>5. writer' = IF writer = j THEN None ELSE writer
  BY DEF StopThread
<1>6. TypeOK'
  BY <1>2, <1>3, <1>4, <1>5 DEF LeaseInvariant, TypeOK, clockVars, fileVars
<1>7. ProcessesAgree'
  BY <1>2, <1>4 DEF LeaseInvariant, ProcessesAgree, clockVars
<1>8. TransactionsAgree'
  BY <1>2, <1>3, <1>4, <1>5, LeaseAssumption
     DEF LeaseInvariant, TransactionsAgree, RowIsMine, clockVars
<1>9. Grows(job, job') /\ clock' = clock /\ row' = row /\ synced' = synced
  BY <1>2, <1>4 DEF Grows, Had, Releasing, clockVars
<1>10. RowAgrees'
  BY <1>9, RowStays DEF RowAgrees, LeaseInvariant
<1>11. JudgementsAgree'
  <2>1. \A k \in Jobs : Judged(job'[k], row, job, clock)
    BY <1>2 DEF Judged
  <2>2. Onward(row, row', job)
    BY <1>9 DEF Onward
  <2> QED BY <1>6, <1>9, <2>1, <2>2, JudgementsStay DEF LeaseInvariant
<1>12. \A k \in Jobs : Covered(k, job'[k], row', clock')
  BY <1>2, <1>9 DEF Covered, Publishing
<1> QED
  BY <1>6, <1>7, <1>8, <1>10, <1>11, <1>12, CoveredNext DEF LeaseInvariant

\* release: the row is deleted only by its owner.
LEMMA DeletePreserves ==
    ASSUME LeaseInvariant, NEW j \in Jobs, DeleteRow(j)
    PROVE  LeaseInvariant'
<1> USE JobFacts
<1>1. /\ At("done").pc = "done" /\ job'[j] = At("done") /\ job[j].pc = "deleting"
      /\ job' \in [Jobs -> Job] /\ \A k \in Jobs \ {j} : job'[k] = job[k]
      /\ outcome' \in [Jobs -> {"none", "fresh", "reused", "failed", "refused"}]
  <2>1. job[j].result \in {"none", "fresh", "reused", "failed", "refused"}
    BY DEF Job
  <2>2. At("done") \in Job
    BY AtType DEF Places
  <2>3. (IF RowIsMine(j) /\ ~job[j].failure THEN job[j].result ELSE "failed")
            \in {"none", "fresh", "reused", "failed", "refused"}
    BY <2>1
  <2>4. /\ Becomes(j, At("done")) /\ job[j].pc = "deleting"
        /\ outcome' \in [Jobs -> {"none", "fresh", "reused", "failed", "refused"}]
    BY <2>3, ReturnsType DEF DeleteRow, LeaseInvariant
  <2>5. At("done").pc = "done" /\ job \in [Jobs -> Job]
    BY DEF At, LeaseInvariant, TypeOK
  <2> QED BY <2>2, <2>4, <2>5, JobAfter
<1>2. UNCHANGED <<clockVars, writer, fileVars, thread>> /\ writer = None
  BY DEF DeleteRow
<1>3. \/ RowIsMine(j) /\ row' = None /\ synced' = None
      \/ ~RowIsMine(j) /\ row' = row /\ synced' = synced
  BY DEF DeleteRow
<1>4. TypeOK'
  BY <1>1, <1>2, <1>3 DEF LeaseInvariant, TypeOK, clockVars, fileVars
<1>5. ProcessesAgree'
  BY <1>1, <1>2 DEF LeaseInvariant, ProcessesAgree, clockVars
<1>6. TransactionsAgree'
  <2>1. thread[j].at = "off" /\ \A k \in Jobs : thread[k].at \notin {"begun", "stamped"}
    BY <1>1, <1>2, LeaseAssumption DEF LeaseInvariant, TransactionsAgree, Owning, Publishing
  <2> QED BY <1>1, <1>2, <2>1 DEF LeaseInvariant, TransactionsAgree
<1>7. Grows(job, job') /\ clock' = clock
  BY <1>1, <1>2 DEF Grows, Had, Releasing, clockVars
<1>8. RowAgrees'
  <2>1. CASE row' = None /\ synced' = None
    BY <2>1 DEF RowAgrees, RowFits
  <2>2. CASE row' = row /\ synced' = synced
    BY <1>7, <2>2, RowStays DEF RowAgrees, LeaseInvariant
  <2> QED BY <1>3, <2>1, <2>2
<1>9. JudgementsAgree'
  <2>1. \A k \in Jobs : Judged(job'[k], row, job, clock)
    BY <1>1 DEF Judged
  <2>2. Onward(row, row', job)
    BY <1>3 DEF Onward
  <2> QED BY <1>4, <1>7, <2>1, <2>2, JudgementsStay DEF LeaseInvariant
<1>10. \A k \in Jobs : Covered(k, job'[k], row', clock')
  <2>1. ASSUME NEW k \in Jobs, k # j PROVE Covered(k, job[k], row', clock)
    BY <1>3, <2>1 DEF Covered, RowIsMine
  <2> QED BY <1>1, <1>7, <2>1 DEF Covered, Publishing
<1> QED BY <1>4, <1>5, <1>6, <1>8, <1>9, <1>10, CoveredNext DEF LeaseInvariant

-----------------------------------------------------------------------------
(* The environment.                                                          *)

\* Time only makes judgements truer and windows shorter.
LEMMA TickPreserves ==
    ASSUME LeaseInvariant, Tick
    PROVE  LeaseInvariant'
<1>1. /\ clock' = clock + 1 /\ clock \in Nat /\ clock <= clock'
      /\ UNCHANGED <<process, reboots, row, synced, writer, fileVars, job, outcome, thread>>
  BY LeaseAssumption DEF Tick, LeaseInvariant, TypeOK, rowVars
<1>2. TypeOK'
  BY <1>1, LeaseAssumption DEF Tick, LeaseInvariant, TypeOK, fileVars
<1>3. ProcessesAgree'
  BY <1>1 DEF LeaseInvariant, ProcessesAgree
<1>4. TransactionsAgree'
  <2>1. \A k \in Jobs : thread[k].stamp \in Nat
    BY DEF LeaseInvariant, TypeOK, Thread
  <2> QED BY <1>1, <2>1 DEF LeaseInvariant, TransactionsAgree, RowIsMine
<1>5. Grows(job, job') /\ Onward(row, row', job)
  BY <1>1 DEF Grows, Onward
<1>6. RowAgrees'
  BY <1>1, <1>2, <1>5, RowStays, LeaseAssumption DEF RowAgrees, LeaseInvariant, TypeOK
<1>7. JudgementsAgree'
  <2>1. \A k \in Jobs : Judged(job'[k], row, job, clock)
    BY <1>1, JobFacts
  <2> QED BY <1>1, <1>2, <1>5, <2>1, JudgementsStay DEF LeaseInvariant
<1>8. ASSUME NEW k \in Jobs PROVE Covered(k, job'[k], row', clock')
  <2>1. job[k].asserted \in Nat /\ Covered(k, job[k], row, clock)
    BY JobFacts DEF Job
  <2> QED BY <1>1, <2>1, LeaseAssumption DEF Covered
<1> QED BY <1>2, <1>3, <1>4, <1>6, <1>7, <1>8, CoveredNext DEF LeaseInvariant

\* What the end of some processes does to jobs and threads.
LEMMA KilledMeans ==
    ASSUME LeaseInvariant, NEW dead \in SUBSET Processes, Killed(dead)
    PROVE  /\ process' \in [Processes -> {"new", "alive", "dead"}]
           /\ job' \in [Jobs -> Job] /\ thread' \in [Jobs -> Thread]
           /\ writer' \in Jobs \cup {None} /\ UNCHANGED <<fileVars, outcome>>
           /\ \A k \in Jobs :
                 IF ProcessOf[k] \in dead
                 THEN /\ job'[k].pc = "dead" /\ thread'[k].at = "off"
                      /\ process'[ProcessOf[k]] = "dead" /\ writer' # k
                 ELSE /\ job'[k] = job[k] /\ thread'[k] = thread[k]
                      /\ process'[ProcessOf[k]] = process[ProcessOf[k]]
                      /\ writer' = k <=> writer = k
           /\ Grows(job, job')
<1>1. /\ At("dead") \in Job /\ At("dead").pc = "dead"
      /\ NoThread \in Thread /\ NoThread.at = "off"
  BY AtType, NoThreadType DEF Places, At, NoThread
<1>2. \A k \in Jobs : ProcessOf[k] \in Processes
  BY LeaseAssumption
<1>3. /\ job \in [Jobs -> Job] /\ thread \in [Jobs -> Thread]
      /\ process \in [Processes -> {"new", "alive", "dead"}] /\ writer \in Jobs \cup {None}
  BY DEF LeaseInvariant, TypeOK
<1>4. process' \in [Processes -> {"new", "alive", "dead"}]
  BY <1>3 DEF Killed
<1>5. job' = [k \in Jobs |-> IF ProcessOf[k] \in dead THEN At("dead") ELSE job[k]]
  BY DEF Killed
<1>6. thread' = [k \in Jobs |-> IF ProcessOf[k] \in dead THEN NoThread ELSE thread[k]]
  BY DEF Killed
<1>7. job' \in [Jobs -> Job] /\ thread' \in [Jobs -> Thread]
  <2> HIDE DEF At, NoThread, Job, Thread
  <2> QED BY <1>1, <1>3, <1>5, <1>6
<1>8. /\ writer' = IF writer # None /\ ProcessOf[writer] \in dead THEN None ELSE writer
      /\ UNCHANGED <<fileVars, outcome>>
  BY DEF Killed
<1>9. writer' \in Jobs \cup {None}
  BY <1>3, <1>8
<1>10. ASSUME NEW k \in Jobs
       PROVE  IF ProcessOf[k] \in dead
              THEN /\ job'[k].pc = "dead" /\ thread'[k].at = "off"
                   /\ process'[ProcessOf[k]] = "dead" /\ writer' # k
              ELSE /\ job'[k] = job[k] /\ thread'[k] = thread[k]
                   /\ process'[ProcessOf[k]] = process[ProcessOf[k]]
                   /\ writer' = k <=> writer = k
  <2>1. k # None
    BY LeaseAssumption
  <2>2. process'[ProcessOf[k]] =
            IF ProcessOf[k] \in dead THEN "dead" ELSE process[ProcessOf[k]]
    BY <1>2 DEF Killed
  <2>3. /\ job'[k] = IF ProcessOf[k] \in dead THEN At("dead") ELSE job[k]
        /\ thread'[k] = IF ProcessOf[k] \in dead THEN NoThread ELSE thread[k]
    BY <1>5, <1>6
  <2> QED BY <1>1, <1>8, <2>1, <2>2, <2>3
<1>11. Grows(job, job')
  BY <1>10 DEF Grows, Had
<1> QED BY <1>4, <1>7, <1>8, <1>9, <1>10, <1>11

\* A process dies; its row stays for others to judge.
LEMMA CrashPreserves ==
    ASSUME LeaseInvariant, NEW p \in Processes, Crash(p)
    PROVE  LeaseInvariant'
<1> USE JobFacts
<1>1. /\ Killed({p}) /\ {p} \in SUBSET Processes /\ UNCHANGED <<clock, reboots, row, synced>>
      /\ clock \in Nat /\ clock <= clock /\ row \in Row \cup {None}
  BY LeaseAssumption DEF Crash, LeaseInvariant, TypeOK
<1>2. /\ process' \in [Processes -> {"new", "alive", "dead"}]
      /\ job' \in [Jobs -> Job] /\ thread' \in [Jobs -> Thread]
      /\ writer' \in Jobs \cup {None} /\ UNCHANGED <<fileVars, outcome>>
      /\ Grows(job, job')
  BY <1>1, KilledMeans
<1>3. ASSUME NEW k \in Jobs
      PROVE  IF ProcessOf[k] \in {p}
             THEN /\ job'[k].pc = "dead" /\ thread'[k].at = "off"
                  /\ process'[ProcessOf[k]] = "dead" /\ writer' # k
             ELSE /\ job'[k] = job[k] /\ thread'[k] = thread[k]
                  /\ process'[ProcessOf[k]] = process[ProcessOf[k]]
                  /\ writer' = k <=> writer = k
  BY <1>1, KilledMeans
<1>4. TypeOK'
  BY <1>1, <1>2 DEF LeaseInvariant, TypeOK, fileVars
<1>5. ProcessesAgree'
  BY <1>3 DEF LeaseInvariant, ProcessesAgree
<1>6. TransactionsAgree'
  <2> SUFFICES ASSUME NEW k \in Jobs
               PROVE  /\ writer' = k <=> thread'[k].at \in {"begun", "stamped"}
                      /\ thread'[k].at # "off" => job'[k].pc \in Owning \cup {"stopping"}
                      /\ thread'[k].at = "stamped" =>
                            /\ row # None /\ row.owner = k
                            /\ row.beat <= thread'[k].stamp /\ thread'[k].stamp <= clock
    BY <1>1 DEF TransactionsAgree, RowIsMine
  <2> QED BY <1>3 DEF LeaseInvariant, TransactionsAgree, RowIsMine
<1>7. RowAgrees'
  BY <1>1, <1>2, RowStays DEF RowAgrees, LeaseInvariant
<1>8. JudgementsAgree'
  <2>1. \A k \in Jobs : Judged(job'[k], row, job, clock)
    BY <1>3 DEF Judged
  <2>2. Onward(row, row', job)
    BY <1>1 DEF Onward
  <2> QED BY <1>1, <1>2, <1>4, <2>1, <2>2, JudgementsStay DEF LeaseInvariant
<1>9. ASSUME NEW k \in Jobs PROVE Covered(k, job'[k], row', clock')
  BY <1>1, <1>3 DEF Covered, Publishing
<1> QED BY <1>4, <1>5, <1>6, <1>7, <1>8, <1>9, CoveredNext DEF LeaseInvariant

\* After a reboot there are only jobs that died and jobs that never ran.
LEMMA RebootPreserves ==
    ASSUME LeaseInvariant, Reboot
    PROVE  LeaseInvariant'
<1> USE JobFacts
<1> DEFINE dead == {p \in Processes : process[p] = "alive"}
<1>1. /\ Killed(dead) /\ dead \in SUBSET Processes /\ clock' = 0
      /\ row' \in {row, synced} /\ synced' = row' /\ reboots' = reboots + 1
  BY DEF Reboot
<1>2. /\ process' \in [Processes -> {"new", "alive", "dead"}]
      /\ job' \in [Jobs -> Job] /\ thread' \in [Jobs -> Thread]
      /\ writer' \in Jobs \cup {None} /\ UNCHANGED <<fileVars, outcome>>
      /\ Grows(job, job')
  BY <1>1, KilledMeans
<1>3. ASSUME NEW k \in Jobs
      PROVE  IF ProcessOf[k] \in dead
             THEN /\ job'[k].pc = "dead" /\ thread'[k].at = "off"
                  /\ process'[ProcessOf[k]] = "dead" /\ writer' # k
             ELSE /\ job'[k] = job[k] /\ thread'[k] = thread[k]
                  /\ process'[ProcessOf[k]] = process[ProcessOf[k]]
                  /\ writer' = k <=> writer = k
  BY <1>1, KilledMeans
<1>4. ASSUME NEW k \in Jobs
      PROVE  /\ job'[k].pc \in {"idle", "dead"} /\ thread'[k].at = "off" /\ writer' # k
             /\ job'[k].pc = "dead" <=> process'[ProcessOf[k]] = "dead"
             /\ process'[ProcessOf[k]] # "new" \/ job'[k].pc = "idle"
  <2>1. ProcessOf[k] \in Processes /\ process[ProcessOf[k]] \in {"new", "alive", "dead"}
    BY LeaseAssumption DEF LeaseInvariant, TypeOK
  <2>2. /\ job[k].pc = "dead" <=> process[ProcessOf[k]] = "dead"
        /\ job[k].pc # "idle" => process[ProcessOf[k]] # "new"
    BY DEF LeaseInvariant, ProcessesAgree
  <2>3. CASE ProcessOf[k] \in dead
    BY <1>3, <2>3
  <2>4. CASE ProcessOf[k] \notin dead
    <3>1. job[k].pc \in {"idle", "dead"}
      BY <2>1, <2>2, <2>4
    <3>2. thread[k].at = "off" /\ writer # k
      BY <3>1, ThreadFacts DEF Owning, Publishing
    <3> QED BY <1>3, <2>1, <2>2, <2>4, <3>1, <3>2
  <2> QED BY <2>3, <2>4
<1> HIDE DEF dead
<1>5. TypeOK'
  BY <1>1, <1>2, LeaseAssumption DEF Reboot, LeaseInvariant, TypeOK, fileVars
<1>6. ProcessesAgree'
  BY <1>4 DEF ProcessesAgree
<1>7. TransactionsAgree'
  BY <1>4 DEF TransactionsAgree
<1>8. RowAgrees'
  <2> SUFFICES ASSUME row' # None
               PROVE  /\ job'[row'.owner].pc = "dead" /\ row'.beat <= row'.beat
    BY <1>1 DEF RowAgrees, RowFits, Had
  <2>1. row # None /\ synced # None /\ synced.owner = row.owner /\ job[row.owner].pc \in Had
    BY <1>1 DEF LeaseInvariant, RowAgrees, RowFits
  <2>2. row' \in Row /\ row'.owner = row.owner /\ row.owner \in Jobs /\ row'.beat \in Nat
    BY <1>1, <2>1 DEF LeaseInvariant, TypeOK, Row
  <2>3. job'[row.owner].pc \in Had
    BY <1>2, <2>1, <2>2 DEF Grows
  <2> QED BY <1>4, <2>2, <2>3 DEF Had, Owning, Publishing, Releasing
<1>9. JudgementsAgree' /\ \A k \in Jobs : Covered(k, job'[k], row', clock')
  BY <1>4 DEF JudgementsAgree, Judged, Covered, Publishing
<1> QED BY <1>5, <1>6, <1>7, <1>8, <1>9, CoveredNext DEF LeaseInvariant

-----------------------------------------------------------------------------
(* The steps together.                                                       *)

\* Nobody has the lease at first.
LEMMA InitInvariant == Init => LeaseInvariant
<1> SUFFICES ASSUME Init PROVE LeaseInvariant
  OBVIOUS
<1>1. At("idle") \in Job /\ At("idle").pc = "idle" /\ NoThread \in Thread /\ NoThread.at = "off"
  BY AtType, NoThreadType DEF Places, At, NoThread
<1>2. /\ job = [k \in Jobs |-> At("idle")] /\ thread = [k \in Jobs |-> NoThread]
      /\ clock = 0 /\ reboots = 0 /\ row = None /\ synced = None /\ writer = None
      /\ process = [q \in Processes |-> "new"] /\ outcome = [k \in Jobs |-> "none"]
      /\ artifact \in File /\ manifest \in File /\ late = FALSE
  BY DEF Init, File
<1> HIDE DEF At, NoThread, Job, Thread
<1>3. TypeOK
  <2>1. job \in [Jobs -> Job] /\ thread \in [Jobs -> Thread]
    BY <1>1, <1>2
  <2>2. clock \in 0..MaxClock /\ reboots \in 0..MaxReboots
    BY <1>2, LeaseAssumption
  <2>3. /\ process \in [Processes -> {"new", "alive", "dead"}]
        /\ outcome \in [Jobs -> {"none", "fresh", "reused", "failed", "refused"}]
    BY <1>2, Zenon
  <2> QED BY <1>2, <2>1, <2>2, <2>3 DEF TypeOK
<1>4. ASSUME NEW k \in Jobs
      PROVE  /\ job[k].pc = "idle" /\ thread[k].at = "off" /\ writer # k
             /\ process[ProcessOf[k]] = "new"
  BY <1>1, <1>2, LeaseAssumption
<1>5. ProcessesAgree /\ TransactionsAgree
  BY <1>4 DEF ProcessesAgree, TransactionsAgree
<1>6. RowAgrees
  BY <1>2 DEF RowAgrees, RowFits
<1>7. JudgementsAgree /\ AssertionsAgree /\ AssertionHoldsForTheLease
  BY <1>4 DEF JudgementsAgree, Judged, AssertionsAgree, AssertionHoldsForTheLease, Publishing
<1> QED BY <1>3, <1>5, <1>6, <1>7 DEF LeaseInvariant

\* Which steps of a job there are, as the lease sees them.
LEMMA StepsOfAJob ==
    ASSUME LeaseInvariant, NEW j \in Jobs,
           Start(j) \/ Reuse(j) \/ Acquire(j) \/ Heartbeat(j)
           \/ NoticeFailure(j) \/ Started(j) \/ Publish(j) \/ Release(j)
    PROVE  \/ JobMoves(j) \/ Takes(j)
           \/ BeginBeat(j) \/ StampBeat(j) \/ ThreadFails(j) \/ CommitBeat(j)
           \/ StopThread(j) \/ DeleteRow(j)
<1>1. CASE Start(j) \/ Reuse(j) \/ NoticeFailure(j) \/ Started(j) \/ Publish(j)
  BY <1>1, StartMoves, ReuseMoves, OwnedMoves, PublishMoves
<1>2. CASE Observe(j) \/ JudgeActive(j) \/ JudgeInactive(j) \/ AcquireBusy(j)
  BY <1>2, JudgeMoves
<1>3. CASE Insert(j) \/ CompareAndSwap(j)
  BY <1>3, RefusedMoves, TakeMeans
<1>4. CASE DeleteBusy(j)
  BY <1>4, ReturnMoves DEF DeleteBusy, Stays, Owning, Publishing
<1> QED BY <1>1, <1>2, <1>3, <1>4 DEF Acquire, Heartbeat, Release

\* Every step preserves the invariant.
LEMMA NextPreserves ==
    ASSUME LeaseInvariant, [Next]_vars
    PROVE  LeaseInvariant'
<1>1. ASSUME NEW j \in Jobs,
             Start(j) \/ Reuse(j) \/ Acquire(j) \/ Heartbeat(j)
             \/ NoticeFailure(j) \/ Started(j) \/ Publish(j) \/ Release(j)
      PROVE  LeaseInvariant'
  BY <1>1, StepsOfAJob, JobMovesPreserves, TakePreserves, ThreadPreserves, CommitPreserves,
     StopPreserves, DeletePreserves
<1>2. CASE UNCHANGED vars
  BY <1>2 DEF vars, clockVars, rowVars, fileVars, LeaseInvariant, TypeOK, ProcessesAgree,
              TransactionsAgree, RowAgrees, JudgementsAgree, AssertionsAgree,
              AssertionHoldsForTheLease, RowIsMine, InItsWindow
<1> QED BY <1>1, <1>2, CrashPreserves, TickPreserves, RebootPreserves DEF Next

\* The invariant behind the lease: what threads, judgements, assertions and a
\* power cut may assume of the row, whatever the jobs of other processes do.
THEOREM LeaseInvariantHolds == Spec => []LeaseInvariant
BY InitInvariant, NextPreserves, PTL DEF Spec

\* An assertOwned that returned holds for the window of the beat it saw: no two
\* jobs that are within their windows publish, for any number of processes.
THEOREM AssertionHolds == Spec => []AssertionHoldsForTheLease
<1>1. LeaseInvariant => AssertionHoldsForTheLease
  BY DEF LeaseInvariant
<1> QED BY <1>1, LeaseInvariantHolds, PTL

-----------------------------------------------------------------------------
(* The row implements the abstract lease.                                    *)

Holder == IF row = None THEN None ELSE row.owner
Beat == IF row = None THEN 0 ELSE row.beat
Alive == {j \in Jobs : process[ProcessOf[j]] # "dead"}

\* Whose process has not died is whose call has not.
LEMMA AliveMeans ==
    ASSUME LeaseInvariant, NEW j \in Jobs
    PROVE  j \in Alive <=> job[j].pc # "dead"
BY DEF Alive, LeaseInvariant, ProcessesAgree

\* At first the lease is free and every job is alive.
LEMMA InitImplements == Init => Contract!Init
<1> SUFFICES ASSUME Init PROVE Contract!Init
  OBVIOUS
<1>1. \A j \in Jobs : process[ProcessOf[j]] = "new"
  BY LeaseAssumption DEF Init
<1> QED BY <1>1 DEF Init, Contract!Init

\* Steps that change neither the row, nor the clock, nor who lives.
LEMMA StutterImplements ==
    ASSUME UNCHANGED <<row, clock>>, Alive' = Alive
    PROVE  UNCHANGED Contract!vars
BY DEF Contract!vars, Alive

\* An insert or a swap takes a lease that is not held.
LEMMA TakeImplements ==
    ASSUME LeaseInvariant, NEW j \in Jobs, Takes(j)
    PROVE  Contract!Take(j)
<1> USE JobFacts
<1>1. PICK n \in Nat \ {0} :
          Acquired(j, [owner |-> j, revision |-> n, beat |-> job[j].stamp])
  BY DEF Takes
<1>2. /\ row'.owner = j /\ row'.beat = job[j].stamp /\ row' # None
  <2>1. [owner |-> j, revision |-> n, beat |-> job[j].stamp] \in Row
    BY DEF Row, Job
  <2> QED BY <1>1, <2>1, RowAssumption DEF Acquired
<1>3. job[j].stamp \in 0..clock /\ j \in Alive
  BY AliveMeans DEF Takes, Judged, Job
<1>4. UNCHANGED <<clock, process>>
  BY DEF Takes, clockVars
<1>5. ~Contract!Held
  <2>1. CASE row = None
    BY <2>1, LeaseAssumption DEF Contract!Held
  <2>2. CASE row # None
    <3>1. row \in Row /\ row.owner \in Jobs /\ row.beat \in Nat
      BY <2>2 DEF Row
    <3>2. job[row.owner].pc = "dead" \/ clock - row.beat > Lease
      BY <2>2 DEF Takes
    <3>3. row.owner \notin Alive \/ clock - row.beat > Lease
      BY <3>1, <3>2, AliveMeans
    <3> QED BY <2>2, <3>1, <3>3, LeaseAssumption DEF Contract!Held, Alive
  <2> QED BY <2>1, <2>2
<1> QED BY <1>2, <1>3, <1>4, <1>5 DEF Contract!Take, Alive

\* A beat renews the lease of a living owner.
LEMMA CommitImplements ==
    ASSUME LeaseInvariant, NEW j \in Jobs, CommitBeat(j)
    PROVE  Contract!Renew
<1>1. /\ row # None /\ row \in Row /\ row.owner = j /\ job[j].pc # "dead"
      /\ row' # None /\ row' \in Row /\ row'.owner = j
      /\ row.beat <= row'.beat /\ row'.beat <= clock
      /\ UNCHANGED <<clock, process>>
  BY CommitMeans DEF clockVars
<1>2. row.beat \in Nat /\ row'.beat \in Nat /\ clock \in Nat
  BY <1>1, JobFacts DEF Row
<1>3. j \in Alive
  BY <1>1, AliveMeans
<1> QED BY <1>1, <1>2, <1>3 DEF Contract!Renew, Alive

\* A deletion by the owner releases it; another is no step.
LEMMA DeleteImplements ==
    ASSUME LeaseInvariant, NEW j \in Jobs, DeleteRow(j)
    PROVE  [Contract!Release(j)]_(Contract!vars)
<1>1. UNCHANGED <<clock, process>> /\ j \in Alive
  BY AliveMeans DEF DeleteRow, clockVars
<1>2. CASE ~RowIsMine(j)
  BY <1>1, <1>2, StutterImplements DEF DeleteRow, Alive
<1>3. CASE RowIsMine(j)
  <2>1. row # None /\ row.owner = j /\ row' = None
    BY <1>3 DEF DeleteRow, RowIsMine
  <2> QED BY <1>1, <2>1 DEF Contract!Release, Alive
<1> QED BY <1>2, <1>3

\* A reboot leaves the row to nobody and may take beats back.
LEMMA RebootImplements ==
    ASSUME LeaseInvariant, Reboot
    PROVE  Contract!Reboot
<1> DEFINE dead == {p \in Processes : process[p] = "alive"}
<1>1. /\ Killed(dead) /\ dead \in SUBSET Processes /\ clock' = 0
      /\ row' \in {row, synced}
  BY DEF Reboot
<1>2. ASSUME NEW k \in Jobs PROVE
          /\ k \in Alive' => k \in Alive
          /\ k \in Alive' => process[ProcessOf[k]] = "new"
  <2>1. ProcessOf[k] \in Processes /\ process[ProcessOf[k]] \in {"new", "alive", "dead"}
    BY LeaseAssumption DEF LeaseInvariant, TypeOK
  <2>2. process'[ProcessOf[k]] =
            IF ProcessOf[k] \in dead THEN "dead" ELSE process[ProcessOf[k]]
    BY <1>1, <2>1 DEF Killed
  <2> QED BY <2>1, <2>2 DEF Alive
<1> HIDE DEF dead
<1>3. row = None <=> row' = None
  BY <1>1 DEF LeaseInvariant, RowAgrees, RowFits
<1>4. ASSUME row # None
      PROVE  /\ row'.owner = row.owner /\ row'.beat \in 0..row.beat
             /\ row.owner \notin Alive'
  <2>1. row \in Row /\ synced \in Row /\ synced.owner = row.owner /\ synced.beat <= row.beat
    BY <1>4 DEF LeaseInvariant, TypeOK, RowAgrees, RowFits
  <2>2. row.owner \in Jobs /\ row.beat \in Nat /\ synced.beat \in Nat
    BY <2>1 DEF Row
  <2>3. job[row.owner].pc \in Had
    BY <1>4 DEF LeaseInvariant, RowAgrees, RowFits
  <2>4. process[ProcessOf[row.owner]] # "new"
    BY <2>2, <2>3 DEF LeaseInvariant, ProcessesAgree, Had, Owning, Publishing, Releasing
  <2> QED BY <1>1, <1>2, <2>1, <2>2, <2>4
<1>5. Alive' \in SUBSET (Alive \ {Holder})
  <2>1. Alive' \subseteq Alive
    BY <1>2 DEF Alive
  <2>2. Holder \notin Alive'
    BY <1>4, LeaseAssumption DEF Holder, Alive
  <2> QED BY <2>1, <2>2
<1>6. Holder' = Holder /\ Beat' \in 0..Beat
  BY <1>3, <1>4 DEF Holder, Beat
<1> QED BY <1>1, <1>5, <1>6 DEF Contract!Reboot, Alive, Holder, Beat

\* Every step is one of the abstract lease, or none.
LEMMA NextImplements ==
    ASSUME LeaseInvariant, [Next]_vars
    PROVE  [Contract!Next]_(Contract!vars)
<1>1. ASSUME NEW j \in Jobs, JobMoves(j)
      PROVE  UNCHANGED Contract!vars
  <2>1. PICK s : Moves(j, s)
    BY <1>1 DEF JobMoves
  <2>2. UNCHANGED <<row, clock>>
    BY <2>1 DEF Moves, rowVars
  <2>3. process[ProcessOf[j]] # "dead" /\ process \in [Processes -> {"new", "alive", "dead"}]
    BY <2>1 DEF Moves, LeaseInvariant, ProcessesAgree, TypeOK
  <2>4. \A k \in Jobs : process'[ProcessOf[k]] = "dead" <=> process[ProcessOf[k]] = "dead"
    BY <2>1, <2>3, LeaseAssumption DEF Moves
  <2> QED BY <2>2, <2>4, StutterImplements DEF Alive
<1>2. ASSUME NEW j \in Jobs,
             BeginBeat(j) \/ StampBeat(j) \/ ThreadFails(j) \/ StopThread(j)
      PROVE  UNCHANGED Contract!vars
  BY <1>2, StutterImplements
     DEF BeginBeat, StampBeat, ThreadFails, StopThread, clockVars, rowVars, Alive
<1>3. ASSUME NEW j \in Jobs,
             Start(j) \/ Reuse(j) \/ Acquire(j) \/ Heartbeat(j)
             \/ NoticeFailure(j) \/ Started(j) \/ Publish(j) \/ Release(j)
      PROVE  [Contract!Next]_(Contract!vars)
  BY <1>1, <1>2, <1>3, StepsOfAJob, TakeImplements, CommitImplements, DeleteImplements
     DEF Contract!Next
<1>4. CASE UNCHANGED vars
  BY <1>4, StutterImplements DEF vars, clockVars, rowVars, Alive
<1>5. CASE Tick
  <2>1. Contract!Pass
    BY <1>5 DEF Tick, rowVars, Contract!Pass
  <2> QED BY <2>1 DEF Contract!Next
<1>6. ASSUME NEW p \in Processes, Crash(p)
      PROVE  [Contract!Next]_(Contract!vars)
  <2>1. UNCHANGED <<clock, row>> /\ Killed({p})
    BY <1>6 DEF Crash
  <2>2. Alive' \subseteq Alive
    BY <2>1, LeaseAssumption DEF Killed, Alive
  <2>3. Contract!Die
    BY <2>1, <2>2 DEF Contract!Die, Alive
  <2> QED BY <2>3 DEF Contract!Next
<1>7. CASE Reboot
  BY <1>7, RebootImplements DEF Contract!Next
<1> QED BY <1>3, <1>4, <1>5, <1>6, <1>7 DEF Next

\* The row, the compare-and-swap and the heartbeats implement the lease: it
\* leaves a live owner only after the window of its last beat.
THEOREM LeaseImplemented == Spec => ImplementsExclusiveLease
<1>1. Spec => Contract!Init /\ [][Contract!Next]_(Contract!vars)
  BY InitImplements, NextImplements, LeaseInvariantHolds, PTL DEF Spec
<1> QED BY <1>1 DEF ImplementsExclusiveLease, Contract!Spec
=============================================================================
