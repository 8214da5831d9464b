-------------------------- MODULE PublicationProofs --------------------------
(* For any number of jobs: what was reported as done stays on disk as a      *)
(* matching pair, and a torn pair is one that is not finished.               *)
EXTENDS JobLeaseProofs

-----------------------------------------------------------------------------
(* The invariant, job by job.                                                *)

\* What is known of a job, of what its caller was told and of the files, when
\* it owns the row and when it does not.
Fits(j, o, told, mine) ==
    /\ artifact = j => o.pc \in Replaced
    /\ artifact = j /\ o.pc = "done" => told \in {"fresh", "reused", "failed"}
    /\ manifest = j => o.pc \in Pointed
    /\ o.pc \in Releasing => o.result # "none"
    /\ ~late =>
          /\ o.seen # None /\ artifact = o.seen => manifest = artifact
          /\ mine =>
                /\ o.pc = "rehash" => o.seen = manifest
                /\ o.pc \in {"work", "staged"} => ~Matched
                /\ o.pc \in {"replaced", "pointing", "cleanup"} => artifact = j
                /\ o.pc \in Releasing /\ o.result # "failed" => Matched
          /\ o.pc = "cleanup" /\ artifact = j => manifest = j
          /\ told \in {"fresh", "reused"} => Matched

SeenArePointed == \A j, k \in Jobs : job[k].seen = j => job[j].pc \in Pointed

\* The invariant is this for every job.
LEMMA FitsMeans ==
    PublicationInvariant <=>
        /\ LeaseInvariant /\ SeenArePointed
        /\ \A j \in Jobs : Fits(j, job[j], outcome[j], RowIsMine(j))
BY DEF PublicationInvariant, FilesAgree, SightingsAgree, WorkAgrees, FinishedWorkStays,
       Matched, SeenArePointed, Fits, Replaced

\* A step that writes no file and lets nobody take the row from its owner.
LEMMA QuietStep ==
    ASSUME LeaseInvariant', SeenArePointed', UNCHANGED fileVars,
           \A k \in Jobs : Fits(k, job'[k], outcome'[k], RowIsMine(k)')
    PROVE  PublicationInvariant'
BY DEF PublicationInvariant, FilesAgree, SightingsAgree, WorkAgrees, FinishedWorkStays,
       Matched, SeenArePointed, Fits, Replaced, fileVars

\* Who knows less of the row has less to fit.
LEMMA FitsWithoutRow ==
    ASSUME NEW j, NEW o, NEW told, NEW mine, NEW mine2, Fits(j, o, told, mine), mine2 => mine
    PROVE  Fits(j, o, told, mine2)
BY DEF Fits

\* What a reuse check reads is the manifest.
LEMMA SeenStays ==
    ASSUME PublicationInvariant,
           \A k \in Jobs : /\ job'[k].seen \in {None, job[k].seen, manifest}
                           /\ job[k].pc \in Pointed => job'[k].pc \in Pointed
    PROVE  SeenArePointed'
<1> SUFFICES ASSUME NEW j \in Jobs, NEW k \in Jobs, job'[k].seen = j
             PROVE  job'[j].pc \in Pointed
  BY DEF SeenArePointed
<1>1. job[k].seen = j \/ manifest = j
  BY LeaseAssumption
<1> QED BY <1>1 DEF PublicationInvariant, FilesAgree

\* A step of one job that writes no file.
LEMMA JobFitsStep ==
    ASSUME PublicationInvariant, LeaseInvariant', UNCHANGED fileVars,
           NEW j \in Jobs, NEW s \in Job, Becomes(j, s),
           \A k \in Jobs \ {j} : outcome'[k] = outcome[k] /\ (RowIsMine(k)' => RowIsMine(k)),
           Fits(j, s, outcome'[j], RowIsMine(j)'),
           s.seen \in {None, job[j].seen, manifest},
           job[j].pc \in Pointed => s.pc \in Pointed
    PROVE  PublicationInvariant'
<1>1. job'[j] = s /\ \A k \in Jobs \ {j} : job'[k] = job[k]
  BY JobAfter DEF PublicationInvariant, LeaseInvariant, TypeOK
<1>2. SeenArePointed'
  BY <1>1, SeenStays
<1>3. ASSUME NEW k \in Jobs PROVE Fits(k, job'[k], outcome'[k], RowIsMine(k)')
  <2>1. Fits(k, job[k], outcome[k], RowIsMine(k))
    BY FitsMeans
  <2> QED BY <1>1, <2>1, FitsWithoutRow
<1> QED BY <1>2, <1>3, QuietStep

\* A step of the environment, or of a thread.
LEMMA OtherFitsStep ==
    ASSUME PublicationInvariant, LeaseInvariant', UNCHANGED <<fileVars, outcome>>,
           \A k \in Jobs : /\ job'[k] = job[k] \/ job'[k] = At("dead")
                           /\ RowIsMine(k)' => RowIsMine(k)
    PROVE  PublicationInvariant'
<1>1. At("dead").pc = "dead" /\ At("dead").seen = None
  BY DEF At
<1> HIDE DEF At
<1>2. SeenArePointed'
  BY <1>1, SeenStays DEF Pointed
<1>3. ASSUME NEW k \in Jobs PROVE Fits(k, job'[k], outcome'[k], RowIsMine(k)')
  <2>1. Fits(k, job[k], outcome[k], RowIsMine(k))
    BY FitsMeans
  <2>2. Fits(k, At("dead"), outcome[k], RowIsMine(k))
    BY <1>1, <2>1 DEF Fits, Pointed, Replaced, Releasing
  <2> QED BY <2>1, <2>2, FitsWithoutRow
<1> QED BY <1>2, <1>3, QuietStep

-----------------------------------------------------------------------------
(* The steps of a job that write no file.                                    *)

\* What every such step starts from.
LEMMA FitsFacts ==
    ASSUME PublicationInvariant, NEW j \in Jobs
    PROVE  /\ job[j] \in Job /\ Fits(j, job[j], outcome[j], RowIsMine(j))
           /\ artifact \in File /\ manifest \in File /\ j # None /\ LeaseInvariant
<1>1. Fits(j, job[j], outcome[j], RowIsMine(j))
  BY FitsMeans
<1> QED BY <1>1, LeaseAssumption DEF PublicationInvariant, LeaseInvariant, TypeOK

\* A step of one job that leaves the row as well.
LEMMA StaysFits ==
    ASSUME PublicationInvariant, LeaseInvariant', Stays,
           NEW j \in Jobs, NEW s \in Job, Becomes(j, s),
           outcome' = outcome \/ \E what : outcome' = [outcome EXCEPT ![j] = what],
           Fits(j, s, outcome'[j], RowIsMine(j)),
           s.seen \in {None, job[j].seen, manifest},
           job[j].pc \in Pointed => s.pc \in Pointed
    PROVE  PublicationInvariant'
<1>1. UNCHANGED fileVars /\ \A k \in Jobs : RowIsMine(k)' <=> RowIsMine(k)
  BY DEF Stays, rowVars, RowIsMine
<1>2. \A k \in Jobs \ {j} : outcome'[k] = outcome[k]
  BY DEF PublicationInvariant, LeaseInvariant, TypeOK
<1>3. Fits(j, s, outcome'[j], RowIsMine(j)')
  BY <1>1, FitsWithoutRow
<1> QED BY <1>1, <1>2, <1>3, JobFitsStep

\* A call that returns before it has published anything.
LEMMA ReturnFits ==
    ASSUME PublicationInvariant, LeaseInvariant', Stays, NEW j \in Jobs,
           NEW what \in {"reused", "failed", "refused"}, Returns(j, what),
           what = "failed" \/ job[j].pc \notin Replaced,
           what = "reused" /\ ~late => Matched
    PROVE  PublicationInvariant'
<1>1. At("done") \in Job /\ At("done").pc = "done" /\ At("done").seen = None
  BY AtType DEF At, Places
<1> HIDE DEF At
<1>2. outcome'[j] = what /\ Becomes(j, At("done"))
      /\ outcome' = [outcome EXCEPT ![j] = what]
  BY DEF Returns, PublicationInvariant, LeaseInvariant, TypeOK
<1>3. Fits(j, At("done"), what, RowIsMine(j))
  BY <1>1, FitsFacts DEF Fits, Replaced, Pointed, Releasing
<1>4. At("done").pc \in Pointed
  BY <1>1 DEF Pointed
<1> QED BY <1>1, <1>2, <1>3, <1>4, StaysFits

\* Starting, and the reuse check before the lock and under it.
LEMMA StartFits ==
    ASSUME PublicationInvariant, LeaseInvariant', NEW j \in Jobs, Start(j)
    PROVE  PublicationInvariant'
<1> DEFINE s == [job[j] EXCEPT !.pc = "look"]
<1> USE FitsFacts
<1>1. s \in Job /\ s.pc = "look" /\ s.seen = job[j].seen /\ Becomes(j, s)
      /\ job[j].pc = "idle" /\ job[j].pc \notin Pointed
  BY DEF Job, Places, Start, Goto, Pointed, Releasing
<1>2. UNCHANGED <<fileVars, outcome>> /\ \A k \in Jobs : RowIsMine(k)' <=> RowIsMine(k)
  BY DEF Start, rowVars, RowIsMine
<1> HIDE DEF s
<1>3. Fits(j, s, outcome[j], RowIsMine(j)')
  BY <1>1, <1>2 DEF Fits, Replaced, Pointed, Releasing
<1> QED BY <1>1, <1>2, <1>3, JobFitsStep

\* A pair that matched when it was hashed is the one the paths name.
LEMMA ReuseFits ==
    ASSUME PublicationInvariant, LeaseInvariant', NEW j \in Jobs, Reuse(j)
    PROVE  PublicationInvariant'
<1> USE FitsFacts
<1>1. CASE job[j].pc = "look" /\ ReadManifest(j)
  <2> DEFINE s == [job[j] EXCEPT !.pc = "hash", !.seen = manifest]
  <2>1. s \in Job /\ s.pc = "hash" /\ s.seen = manifest /\ Becomes(j, s) /\ Stays
        /\ outcome' = outcome
    BY <1>1 DEF Job, Places, ReadManifest, Stays
  <2> HIDE DEF s
  <2>2. Fits(j, s, outcome[j], RowIsMine(j)) /\ job[j].pc \notin Pointed
    BY <1>1, <2>1 DEF Fits, Replaced, Pointed, Releasing
  <2> QED BY <2>1, <2>2, StaysFits
<1>2. CASE job[j].pc = "relook" /\ ReadManifest(j)
  <2> DEFINE s == [job[j] EXCEPT !.pc = "rehash", !.seen = manifest]
  <2>1. s \in Job /\ s.pc = "rehash" /\ s.seen = manifest /\ Becomes(j, s) /\ Stays
        /\ outcome' = outcome
    BY <1>2 DEF Job, Places, Owning, ReadManifest, Stays
  <2> HIDE DEF s
  <2>2. Fits(j, s, outcome[j], RowIsMine(j)) /\ job[j].pc \notin Pointed
    BY <1>2, <2>1 DEF Fits, Replaced, Pointed, Releasing
  <2> QED BY <2>1, <2>2, StaysFits
<1>3. CASE ReuseUnlocked(j)
  <2>1. ~late => Matched
    BY <1>3 DEF ReuseUnlocked, PairMatches, Fits, Matched
  <2>2. job[j].pc \notin Replaced /\ Returns(j, "reused") /\ Stays
    BY <1>3 DEF ReuseUnlocked, Replaced, Pointed, Releasing, Stays
  <2> QED BY <2>1, <2>2, ReturnFits
<1>4. CASE ReuseLocked(j)
  <2> DEFINE s == [job[j] EXCEPT !.pc = "stopping", !.seen = None, !.result = "reused"]
  <2>1. s \in Job /\ s.pc = "stopping" /\ s.seen = None /\ s.result = "reused"
        /\ Becomes(j, s) /\ Stays /\ outcome' = outcome
    BY <1>4 DEF Job, File, Places, Releasing, ReuseLocked, Stays
  <2> HIDE DEF s
  <2>2. ~late => Matched
    BY <1>4 DEF ReuseLocked, PairMatches, Fits, Matched
  <2>3. Fits(j, s, outcome[j], RowIsMine(j)) /\ s.pc \in Pointed
    BY <1>4, <2>1, <2>2 DEF ReuseLocked, Fits, Replaced, Pointed, Releasing
  <2> QED BY <2>1, <2>3, StaysFits
<1>5. CASE job[j].pc = "hash" /\ NothingToReuse(j)
  <2> DEFINE s == [At("insert") EXCEPT !.stamp = clock]
  <2>1. At("insert") \in Job /\ clock \in Nat
    BY AtType, JobFacts DEF Places, Acquiring
  <2>2. s \in Job /\ s.pc = "insert" /\ s.seen = None
    BY <2>1 DEF Job, At
  <2>3. Becomes(j, s) /\ Stays /\ outcome' = outcome
    BY <1>5 DEF NothingToReuse, Stays
  <2> HIDE DEF s
  <2>4. Fits(j, s, outcome[j], RowIsMine(j)) /\ job[j].pc \notin Pointed
    BY <1>5, <2>2 DEF Fits, Replaced, Pointed, Releasing
  <2> QED BY <2>2, <2>3, <2>4, StaysFits
<1>6. CASE job[j].pc = "rehash" /\ NothingToReuse(j)
  <2> DEFINE s == [job[j] EXCEPT !.pc = "work", !.seen = None]
  <2>1. s \in Job /\ s.pc = "work" /\ s.seen = None /\ Becomes(j, s) /\ Stays
        /\ outcome' = outcome
    BY <1>6 DEF Job, File, Places, Owning, NothingToReuse, Stays
  <2> HIDE DEF s
  <2>2. ~late /\ RowIsMine(j) => ~Matched
    BY <1>6 DEF NothingToReuse, PairMatches, Fits, Matched
  <2>3. Fits(j, s, outcome[j], RowIsMine(j)) /\ job[j].pc \notin Pointed
    BY <1>6, <2>1, <2>2 DEF Fits, Replaced, Pointed, Releasing
  <2> QED BY <2>1, <2>3, StaysFits
<1> QED
  BY <1>1, <1>2, <1>3, <1>4, <1>5, <1>6 DEF Reuse, ReadManifest, NothingToReuse

\* A lost round of acquireJobLock.
LEMMA TryAgainFits ==
    ASSUME PublicationInvariant, LeaseInvariant', Stays, NEW j \in Jobs, TryAgain(j),
           job[j].pc \in Acquiring
    PROVE  PublicationInvariant'
<1> USE FitsFacts
<1>1. CASE job[j].tries + 1 < Attempts
  <2> DEFINE s == [At("insert") EXCEPT !.tries = job[j].tries + 1, !.stamp = clock]
  <2>1. At("insert") \in Job /\ job[j].tries + 1 \in Nat /\ clock \in Nat
    BY AtType, JobFacts DEF Places, Acquiring, Job
  <2>2. s \in Job /\ s.pc = "insert" /\ s.seen = None
    BY <2>1, Stamped DEF At
  <2>3. Becomes(j, s) /\ outcome' = outcome
    BY <1>1 DEF TryAgain
  <2> HIDE DEF s
  <2>4. Fits(j, s, outcome[j], RowIsMine(j)) /\ job[j].pc \notin Pointed
    BY <2>2 DEF Fits, Replaced, Pointed, Releasing, Acquiring
  <2> QED BY <2>2, <2>3, <2>4, StaysFits
<1>2. CASE ~(job[j].tries + 1 < Attempts)
  BY <1>2, ReturnFits DEF TryAgain
<1> QED BY <1>1, <1>2

\* A job that takes the lease knows nothing of the files yet, and whoever had
\* the row does not own it any more.
LEMMA TakeFits ==
    ASSUME PublicationInvariant, LeaseInvariant', NEW j \in Jobs, Takes(j)
    PROVE  PublicationInvariant'
<1> USE FitsFacts
<1>1. At("starting") \in Job /\ At("starting").pc = "starting" /\ At("starting").seen = None
  BY AtType DEF At, Places, Owning
<1> HIDE DEF At
<1>2. /\ Becomes(j, At("starting")) /\ UNCHANGED <<fileVars, outcome>>
      /\ row' # None => row'.owner = j
      /\ job[j].pc \in {"insert", "swap"}
  BY DEF Takes, Acquired
<1>3. \A k \in Jobs \ {j} : ~RowIsMine(k)'
  BY <1>2 DEF RowIsMine
<1>4. Fits(j, At("starting"), outcome[j], RowIsMine(j)') /\ job[j].pc \notin Pointed
  BY <1>1, <1>2 DEF Fits, Replaced, Pointed, Releasing
<1> QED BY <1>1, <1>2, <1>3, <1>4, JobFitsStep

\* Acquiring the lease, or being refused it.
LEMMA AcquireFits ==
    ASSUME PublicationInvariant, LeaseInvariant', NEW j \in Jobs, Acquire(j)
    PROVE  PublicationInvariant'
<1> USE FitsFacts
<1>1. CASE Observe(j) /\ row = None
  BY <1>1, TryAgainFits DEF Observe, Stays, Acquiring
<1>2. CASE Observe(j) /\ row # None
  <2> DEFINE s == [job[j] EXCEPT !.pc = "judge", !.observed = row]
  <2>1. s \in Job /\ s.pc = "judge" /\ s.seen = job[j].seen
    BY JobFacts DEF Job, Places, Acquiring
  <2>2. Becomes(j, s) /\ Stays /\ outcome' = outcome /\ job[j].pc = "observe"
    BY <1>2 DEF Observe, Stays
  <2> HIDE DEF s
  <2>3. Fits(j, s, outcome[j], RowIsMine(j)) /\ job[j].pc \notin Pointed
    BY <2>1, <2>2 DEF Fits, Replaced, Pointed, Releasing
  <2> QED BY <2>1, <2>2, <2>3, StaysFits
<1>3. CASE JudgeActive(j) \/ AcquireBusy(j)
  BY <1>3, ReturnFits DEF JudgeActive, AcquireBusy, Stays, Replaced, Pointed, Releasing
<1>4. CASE JudgeInactive(j)
  <2> DEFINE s == [job[j] EXCEPT !.pc = "swap", !.stamp = clock]
  <2>1. s \in Job /\ s.pc = "swap" /\ s.seen = job[j].seen
    BY JobFacts DEF Job, Places, Acquiring
  <2>2. Becomes(j, s) /\ Stays /\ outcome' = outcome /\ job[j].pc = "judge"
    BY <1>4 DEF JudgeInactive, Stays
  <2> HIDE DEF s
  <2>3. Fits(j, s, outcome[j], RowIsMine(j)) /\ job[j].pc \notin Pointed
    BY <2>1, <2>2 DEF Fits, Replaced, Pointed, Releasing
  <2> QED BY <2>1, <2>2, <2>3, StaysFits
<1>5. CASE Insert(j) /\ row # None
  <2> DEFINE s == [job[j] EXCEPT !.pc = "observe"]
  <2>1. s \in Job /\ s.pc = "observe" /\ s.seen = job[j].seen
    BY DEF Job, Places, Acquiring
  <2>2. Becomes(j, s) /\ Stays /\ outcome' = outcome /\ job[j].pc = "insert"
    BY <1>5 DEF Insert, Goto, Stays, rowVars
  <2> HIDE DEF s
  <2>3. Fits(j, s, outcome[j], RowIsMine(j)) /\ job[j].pc \notin Pointed
    BY <2>1, <2>2 DEF Fits, Replaced, Pointed, Releasing
  <2> QED BY <2>1, <2>2, <2>3, StaysFits
<1>6. CASE CompareAndSwap(j) /\ ~StillObserved(j)
  BY <1>6, TryAgainFits DEF CompareAndSwap, Stays, rowVars, Acquiring
<1>7. CASE \/ Insert(j) /\ row = None
           \/ CompareAndSwap(j) /\ StillObserved(j)
  BY <1>7, TakeMeans, TakeFits
<1> QED BY <1>1, <1>2, <1>3, <1>4, <1>5, <1>6, <1>7 DEF Acquire

\* The thread beats for whoever owns the row.
LEMMA HeartbeatFits ==
    ASSUME PublicationInvariant, LeaseInvariant', NEW j \in Jobs, Heartbeat(j)
    PROVE  PublicationInvariant'
<1>1. CASE BeginBeat(j) \/ StampBeat(j) \/ ThreadFails(j)
  <2>1. UNCHANGED <<row, fileVars, outcome, job>>
    BY <1>1 DEF BeginBeat, StampBeat, ThreadFails, rowVars
  <2> QED BY <2>1, OtherFitsStep DEF RowIsMine
<1>2. CASE CommitBeat(j)
  <2>1. row # None /\ row \in Row
    BY <1>2, FitsFacts DEF CommitBeat, LeaseInvariant, TransactionsAgree, RowIsMine, TypeOK
  <2>2. row'.owner = row.owner /\ UNCHANGED <<fileVars, outcome, job>>
    BY <1>2, <2>1 DEF CommitBeat, Row
  <2> QED BY <2>1, <2>2, OtherFitsStep DEF RowIsMine
<1> QED BY <1>1, <1>2 DEF Heartbeat

\* The owner goes on.
LEMMA OwnedFits ==
    ASSUME PublicationInvariant, LeaseInvariant', NEW j \in Jobs, NoticeFailure(j) \/ Started(j)
    PROVE  PublicationInvariant'
<1> USE FitsFacts
<1>1. CASE NoticeFailure(j)
  <2> DEFINE s == [job[j] EXCEPT !.failure = TRUE]
  <2>1. /\ s \in Job /\ s.pc = job[j].pc /\ s.seen = job[j].seen /\ s.result = job[j].result
        /\ Becomes(j, s) /\ Stays /\ outcome' = outcome
    BY <1>1 DEF Job, NoticeFailure, Stays
  <2> HIDE DEF s
  <2>2. Fits(j, s, outcome[j], RowIsMine(j))
    BY <2>1 DEF Fits
  <2> QED BY <2>1, <2>2, StaysFits
<1>2. CASE Started(j)
  <2> DEFINE s == [job[j] EXCEPT !.pc = "relook"]
  <2>1. /\ s \in Job /\ s.pc = "relook" /\ s.seen = job[j].seen
        /\ Becomes(j, s) /\ Stays /\ outcome' = outcome
    BY <1>2 DEF Job, Places, Owning, Started, Goto, Stays
  <2> HIDE DEF s
  <2>2. Fits(j, s, outcome[j], RowIsMine(j)) /\ job[j].pc \notin Pointed
    BY <1>2, <2>1 DEF Started, Fits, Replaced, Pointed, Releasing
  <2> QED BY <2>1, <2>2, StaysFits
<1> QED BY <1>1, <1>2

-----------------------------------------------------------------------------
(* The renames.                                                              *)

\* A job renames its artifact: in its window it owns the row, and the pair it
\* replaces did not match, so nobody was told of it.
LEMMA RenameArtifactFits ==
    ASSUME PublicationInvariant, LeaseInvariant', NEW j \in Jobs, RenameArtifact(j)
    PROVE  PublicationInvariant'
<1> USE FitsFacts
<1> DEFINE s == [job[j] EXCEPT !.pc = "replaced"]
<1>1. /\ s \in Job /\ s.pc = "replaced" /\ s.seen = job[j].seen /\ s.result = job[j].result
      /\ Becomes(j, s) /\ job[j].pc = "staged"
  BY DEF Job, Places, Owning, Publishing, RenameArtifact, Goto
<1> HIDE DEF s
<1>2. job'[j] = s /\ \A k \in Jobs \ {j} : job'[k] = job[k]
  BY <1>1, JobAfter DEF LeaseInvariant, TypeOK
<1>3. /\ artifact' = j /\ manifest' = manifest /\ outcome' = outcome
      /\ late' = (late \/ ~InItsWindow(j)) /\ \A k \in Jobs : RowIsMine(k)' <=> RowIsMine(k)
  BY DEF RenameArtifact, rowVars, RowIsMine
<1>4. manifest # j /\ \A k \in Jobs : job[k].seen # j
  BY <1>1 DEF PublicationInvariant, FilesAgree, Pointed, Releasing
<1>5. FilesAgree'
  <2> SUFFICES ASSUME NEW k \in Jobs
               PROVE  /\ j = k => job'[k].pc \in Replaced /\ job'[k].pc # "done"
                      /\ manifest = k => job'[k].pc \in Pointed
                      /\ \A i \in Jobs : job'[i].seen = k => job'[k].pc \in Pointed
                      /\ job'[k].pc \in Releasing => job'[k].result # "none"
    BY <1>3 DEF FilesAgree
  <2>1. k = j => job'[k].pc \in Replaced \ {"done"} /\ job'[k].pc \notin Releasing
    BY <1>1, <1>2 DEF Replaced, Releasing, Pointed
  <2>2. manifest = k => job'[k].pc \in Pointed
    BY <1>2, <1>4 DEF PublicationInvariant, FilesAgree
  <2>3. \A i \in Jobs : job'[i].seen = job[i].seen
    BY <1>1, <1>2
  <2>4. k # j => /\ \A i \in Jobs : job'[i].seen = k => job'[k].pc \in Pointed
                 /\ job'[k].pc \in Releasing => job'[k].result # "none"
    BY <1>2, <2>3 DEF PublicationInvariant, FilesAgree
  <2> QED BY <1>4, <2>1, <2>2, <2>3, <2>4
<1>6. ASSUME ~late'
      PROVE  SightingsAgree' /\ WorkAgrees' /\ ~late /\ ~Matched
  <2>1. ~late /\ RowIsMine(j)
    BY <1>1, <1>3, <1>6 DEF LeaseInvariant, AssertionHoldsForTheLease, Publishing
  <2>2. ~Matched /\ \A k \in Jobs \ {j} : ~RowIsMine(k)
    BY <1>1, <2>1 DEF Fits, RowIsMine
  <2>3. SightingsAgree'
    BY <1>1, <1>2, <1>3, <1>4 DEF SightingsAgree
  <2>4. WorkAgrees'
    <3> SUFFICES ASSUME NEW k \in Jobs
                 PROVE  /\ RowIsMine(k) =>
                              /\ job'[k].pc = "rehash" => job'[k].seen = manifest
                              /\ job'[k].pc \in {"work", "staged"} => ~Matched'
                              /\ job'[k].pc \in {"replaced", "pointing"} => j = k
                              /\ job'[k].pc \in Releasing /\ job'[k].result # "failed"
                                     => Matched'
                        /\ job'[k].pc = "cleanup" =>
                              /\ j = k => manifest = k
                              /\ RowIsMine(k) => j = k
      BY <1>3 DEF WorkAgrees
    <3> QED BY <1>1, <1>2, <2>2 DEF Releasing
  <2> QED BY <2>1, <2>2, <2>3, <2>4
<1>7. FinishedWorkStays'
  BY <1>3, <1>6 DEF FinishedWorkStays, PublicationInvariant, Matched
<1> QED BY <1>5, <1>6, <1>7 DEF PublicationInvariant

\* A job renames its manifest: in its window the artifact is still its own.
LEMMA RenameManifestFits ==
    ASSUME PublicationInvariant, LeaseInvariant', NEW j \in Jobs, RenameManifest(j)
    PROVE  PublicationInvariant'
<1> USE FitsFacts
<1> DEFINE s == [job[j] EXCEPT !.pc = "cleanup"]
<1>1. /\ s \in Job /\ s.pc = "cleanup" /\ s.seen = job[j].seen /\ s.result = job[j].result
      /\ Becomes(j, s) /\ job[j].pc = "pointing"
  BY DEF Job, Places, Owning, Publishing, RenameManifest, Goto
<1> HIDE DEF s
<1>2. job'[j] = s /\ \A k \in Jobs \ {j} : job'[k] = job[k]
  BY <1>1, JobAfter DEF LeaseInvariant, TypeOK
<1>3. /\ artifact' = artifact /\ manifest' = j /\ outcome' = outcome
      /\ late' = (late \/ ~InItsWindow(j)) /\ \A k \in Jobs : RowIsMine(k)' <=> RowIsMine(k)
  BY DEF RenameManifest, rowVars, RowIsMine
<1>4. manifest # j /\ \A k \in Jobs : job[k].seen # j
  BY <1>1 DEF PublicationInvariant, FilesAgree, Pointed, Releasing
<1>5. FilesAgree'
  <2> SUFFICES ASSUME NEW k \in Jobs
               PROVE  /\ artifact = k => job'[k].pc \in Replaced
                      /\ artifact = k /\ job'[k].pc = "done"
                             => outcome[k] \in {"fresh", "reused", "failed"}
                      /\ j = k => job'[k].pc \in Pointed
                      /\ \A i \in Jobs : job'[i].seen = k => job'[k].pc \in Pointed
                      /\ job'[k].pc \in Releasing => job'[k].result # "none"
    BY <1>3 DEF FilesAgree
  <2>1. k = j => job'[k].pc \in Replaced \cap Pointed /\ job'[k].pc \notin Releasing \cup {"done"}
    BY <1>1, <1>2 DEF Replaced, Releasing, Pointed
  <2>2. \A i \in Jobs : job'[i].seen = job[i].seen
    BY <1>1, <1>2
  <2>3. CASE k = j
    BY <2>1, <2>3
  <2>4. CASE k # j
    BY <1>2, <2>2, <2>4 DEF PublicationInvariant, FilesAgree
  <2> QED BY <2>3, <2>4
<1>6. ASSUME ~late'
      PROVE  SightingsAgree' /\ WorkAgrees' /\ ~late /\ artifact = j
  <2>1. ~late /\ RowIsMine(j)
    BY <1>1, <1>3, <1>6 DEF LeaseInvariant, AssertionHoldsForTheLease, Publishing
  <2>2. artifact = j /\ \A k \in Jobs \ {j} : ~RowIsMine(k)
    BY <1>1, <2>1 DEF Fits, RowIsMine
  <2>3. SightingsAgree'
    BY <1>1, <1>2, <1>3, <1>4, <2>2 DEF SightingsAgree
  <2>4. WorkAgrees'
    <3> SUFFICES ASSUME NEW k \in Jobs
                 PROVE  /\ RowIsMine(k) =>
                              /\ job'[k].pc = "rehash" => job'[k].seen = j
                              /\ job'[k].pc \in {"work", "staged"} => ~Matched'
                              /\ job'[k].pc \in {"replaced", "pointing"} => artifact = k
                              /\ job'[k].pc \in Releasing /\ job'[k].result # "failed"
                                     => Matched'
                        /\ job'[k].pc = "cleanup" =>
                              /\ artifact = k => j = k
                              /\ RowIsMine(k) => artifact = k
      BY <1>3 DEF WorkAgrees
    <3> QED BY <1>1, <1>2, <2>2 DEF Releasing
  <2> QED BY <2>1, <2>2, <2>3, <2>4
<1>7. FinishedWorkStays'
  BY <1>3, <1>6 DEF FinishedWorkStays, PublicationInvariant
<1> QED BY <1>5, <1>6, <1>7 DEF PublicationInvariant

\* The assertions, the result and a failure.
LEMMA PublishFits ==
    ASSUME PublicationInvariant, LeaseInvariant', NEW j \in Jobs, Publish(j)
    PROVE  PublicationInvariant'
<1> USE FitsFacts
<1>1. ASSUME NEW place \in {"staged", "pointing"}, Asserted(j, place),
             place = "staged" => job[j].pc = "work",
             place = "pointing" => job[j].pc = "replaced"
      PROVE  PublicationInvariant'
  <2> DEFINE s == [job[j] EXCEPT !.pc = place, !.asserted = row.beat]
  <2>1. row \in Row /\ row.beat \in Nat /\ RowIsMine(j)
    BY <1>1 DEF Asserted, Owned, RowIsMine, Row, LeaseInvariant, TypeOK
  <2>2. s \in Job /\ s.pc = place /\ s.seen = job[j].seen
    BY <2>1 DEF Job, Places, Owning, Publishing
  <2>3. Becomes(j, s) /\ Stays /\ outcome' = outcome
    BY <1>1 DEF Asserted, Stays
  <2> HIDE DEF s
  <2>4. Fits(j, s, outcome[j], RowIsMine(j)) /\ job[j].pc \notin Pointed
    BY <1>1, <2>1, <2>2 DEF Fits, Replaced, Pointed, Releasing
  <2> QED BY <2>2, <2>3, <2>4, StaysFits
<1>2. CASE AssertBeforeArtifact(j) \/ AssertBeforeManifest(j)
  BY <1>1, <1>2 DEF AssertBeforeArtifact, AssertBeforeManifest
<1>3. CASE Finish(j)
  <2> DEFINE s == [job[j] EXCEPT !.pc = "stopping", !.asserted = 0, !.result = "fresh"]
  <2>1. /\ s \in Job /\ s.pc = "stopping" /\ s.seen = job[j].seen /\ s.result = "fresh"
        /\ Becomes(j, s) /\ Stays /\ outcome' = outcome
    BY <1>3 DEF Job, Places, Releasing, Finish, Stays
  <2> HIDE DEF s
  <2>2. ~late => Matched
    BY <1>3 DEF Finish, Owned, Fits, Matched
  <2>3. Fits(j, s, outcome[j], RowIsMine(j)) /\ s.pc \in Pointed
    BY <1>3, <2>1, <2>2 DEF Finish, Fits, Replaced, Pointed, Releasing
  <2> QED BY <2>1, <2>3, StaysFits
<1>4. CASE JobFails(j)
  <2> DEFINE s == [At("stopping") EXCEPT !.result = "failed"]
  <2>1. At("stopping") \in Job
    BY AtType DEF Places, Releasing
  <2>2. s \in Job /\ s.pc = "stopping" /\ s.seen = None /\ s.result = "failed"
    BY <2>1 DEF Job, At
  <2>3. Becomes(j, s) /\ Stays /\ outcome' = outcome
    BY <1>4 DEF JobFails, Stays
  <2> HIDE DEF s
  <2>4. Fits(j, s, outcome[j], RowIsMine(j)) /\ s.pc \in Pointed
    BY <2>2 DEF Fits, Replaced, Pointed, Releasing
  <2> QED BY <2>2, <2>3, <2>4, StaysFits
<1> QED BY <1>2, <1>3, <1>4, RenameArtifactFits, RenameManifestFits DEF Publish

-----------------------------------------------------------------------------
(* The release, the environment, and the steps together.                     *)

\* A result is reported by a job that still owned the row when it deleted it.
LEMMA ReleaseFits ==
    ASSUME PublicationInvariant, LeaseInvariant', NEW j \in Jobs, Release(j)
    PROVE  PublicationInvariant'
<1> USE FitsFacts
<1>1. CASE StopThread(j)
  <2> DEFINE s == [job[j] EXCEPT !.pc = "deleting"]
  <2>1. /\ s \in Job /\ s.pc = "deleting" /\ s.seen = job[j].seen /\ s.result = job[j].result
        /\ Becomes(j, s) /\ job[j].pc = "stopping"
    BY <1>1 DEF Job, Places, Releasing, StopThread, Goto
  <2>2. /\ UNCHANGED <<fileVars, outcome>>
        /\ \A k \in Jobs : RowIsMine(k)' <=> RowIsMine(k)
    BY <1>1 DEF StopThread, RowIsMine
  <2> HIDE DEF s
  <2>3. Fits(j, s, outcome[j], RowIsMine(j)')
    BY <2>1, <2>2 DEF Fits, Replaced, Pointed, Releasing
  <2>4. s.pc \in Pointed
    BY <2>1 DEF Pointed, Releasing
  <2> QED BY <2>1, <2>2, <2>3, <2>4, JobFitsStep
<1>2. CASE DeleteRow(j)
  <2> DEFINE told == IF RowIsMine(j) /\ ~job[j].failure THEN job[j].result ELSE "failed"
  <2>1. At("done") \in Job /\ At("done").pc = "done" /\ At("done").seen = None
    BY AtType DEF At, Places
  <2> HIDE DEF At
  <2>2. /\ Becomes(j, At("done")) /\ outcome' = [outcome EXCEPT ![j] = told]
        /\ UNCHANGED fileVars /\ job[j].pc = "deleting"
    BY <1>2 DEF DeleteRow, Returns
  <2>3. \A k \in Jobs : RowIsMine(k)' => RowIsMine(k)
    BY <1>2 DEF DeleteRow, RowIsMine
  <2>4. outcome'[j] = told /\ \A k \in Jobs \ {j} : outcome'[k] = outcome[k]
    BY <2>2 DEF LeaseInvariant, TypeOK
  <2>5. told \in {"fresh", "reused", "failed"} /\ (~late /\ told # "failed" => Matched)
    BY <2>2 DEF Fits, Releasing, Job
  <2>6. Fits(j, At("done"), told, RowIsMine(j)') /\ At("done").pc \in Pointed
    BY <2>1, <2>2, <2>5 DEF Fits, Replaced, Pointed, Releasing
  <2> HIDE DEF told
  <2> QED BY <2>1, <2>2, <2>3, <2>4, <2>6, JobFitsStep
<1>3. CASE DeleteBusy(j)
  BY <1>3, ReturnFits DEF DeleteBusy, Stays
<1> QED BY <1>1, <1>2, <1>3 DEF Release

\* Processes that die leave the files, and the row with its owner.
LEMMA EnvironmentFits ==
    ASSUME PublicationInvariant, LeaseInvariant', Tick \/ Reboot \/ \E p \in Processes : Crash(p)
    PROVE  PublicationInvariant'
<1>1. CASE Tick
  BY <1>1, OtherFitsStep DEF Tick, rowVars, RowIsMine
<1>2. ASSUME NEW dead, Killed(dead)
      PROVE  /\ UNCHANGED <<fileVars, outcome>>
             /\ \A k \in Jobs : job'[k] = job[k] \/ job'[k] = At("dead")
  BY <1>2 DEF Killed
<1>3. CASE \E p \in Processes : Crash(p)
  BY <1>2, <1>3, OtherFitsStep DEF Crash, RowIsMine
<1>4. CASE Reboot
  <2>1. \A k \in Jobs : RowIsMine(k)' => RowIsMine(k)
    BY <1>4 DEF Reboot, RowIsMine, PublicationInvariant, LeaseInvariant, RowAgrees, RowFits
  <2> QED BY <1>2, <1>4, <2>1, OtherFitsStep DEF Reboot
<1> QED BY <1>1, <1>3, <1>4

\* At first no path names a job, and none has read a manifest.
LEMMA InitFits == Init => PublicationInvariant
<1> SUFFICES ASSUME Init PROVE PublicationInvariant
  OBVIOUS
<1>1. At("idle").pc = "idle" /\ At("idle").seen = None
  BY DEF At
<1>2. /\ \A k \in Jobs : job[k] = At("idle") /\ outcome[k] = "none" /\ k \notin {None, Old}
      /\ artifact \in {None, Old} /\ manifest \in {None, Old}
  BY LeaseAssumption DEF Init
<1> HIDE DEF At
<1>3. FilesAgree /\ SightingsAgree /\ WorkAgrees /\ FinishedWorkStays
  BY <1>1, <1>2 DEF FilesAgree, SightingsAgree, WorkAgrees, FinishedWorkStays, Releasing
<1> QED BY <1>3, InitInvariant DEF PublicationInvariant

\* Every step preserves the invariant of the publication.
LEMMA NextFits ==
    ASSUME PublicationInvariant, [Next]_vars
    PROVE  PublicationInvariant'
<1>1. LeaseInvariant'
  BY NextPreserves DEF PublicationInvariant
<1>2. CASE UNCHANGED vars
  BY <1>1, <1>2, OtherFitsStep DEF vars, rowVars, RowIsMine
<1> QED
  BY <1>1, <1>2, StartFits, ReuseFits, AcquireFits, HeartbeatFits, OwnedFits, PublishFits,
     ReleaseFits, EnvironmentFits DEF Next

\* What jobs know of the files they share, whether they own the row or not.
THEOREM PublicationInvariantHolds == Spec => []PublicationInvariant
BY InitFits, NextFits, PTL DEF Spec

\* What a caller of materializeChzzkVod was told is there, fresh or reused,
\* stays as a matching pair of artifact and manifest, for any number of jobs
\* that follow, unless one renamed a file after its window.
THEOREM FinishedWorkIsKept == Spec => []FinishedWorkStays
<1>1. PublicationInvariant => FinishedWorkStays
  BY DEF PublicationInvariant
<1> QED BY <1>1, PublicationInvariantHolds, PTL

\* An artifact without its manifest is of a job that is between the two
\* renames, is giving up, has died or has reported a failure: no job that
\* reported success leaves one.
THEOREM TornPairsAreUnfinished == Spec => []TornPairIsUnfinished
<1>1. ASSUME PublicationInvariant PROVE TornPairIsUnfinished
  <2> SUFFICES ASSUME NEW j \in Jobs, artifact = j, manifest # j, ~late
               PROVE  \/ job[j].pc \in {"replaced", "pointing", "stopping", "deleting", "dead"}
                      \/ outcome[j] = "failed"
    BY DEF TornPairIsUnfinished
  <2>1. Fits(j, job[j], outcome[j], RowIsMine(j))
    BY <1>1, FitsMeans
  <2> QED BY <2>1 DEF Fits, Replaced, Pointed, Releasing, Matched
<1> QED BY <1>1, PublicationInvariantHolds, PTL
=============================================================================
