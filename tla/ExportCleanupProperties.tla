---------------------- MODULE ExportCleanupProperties ----------------------
(* What an export's cleanup may delete, and when it is over.                 *)
EXTENDS ExportCleanup

\* Shape of the state.
TypeOK ==
    /\ webLocks \in BOOLEAN /\ lock \in Tabs \cup {None}
    /\ published \subseteq Tabs /\ asked \subseteq Tabs \X Tabs
    /\ heard \in [Tabs -> SUBSET Tabs] /\ missed \in BOOLEAN
    /\ disk \in Record \cup {None}
    /\ checkpoint \in Row \cup {None}
    /\ material \in BOOLEAN /\ late \in BOOLEAN /\ again \in BOOLEAN
    /\ session \in [Tabs -> 0..SessionLimit] /\ sessions \in 0..SessionLimit
    /\ page \in [Tabs -> Page]
    /\ exported \in Versions \cup {None}

Admitted == {t \in Tabs : page[t].at \notin {"off", "refused", "publishing", "counting"}}

\* Web Locks, or every count that has let a tab in was answered by all tabs
\* that have the project: the timer of a count does not wait for them.
AdmissionIsSure == webLocks \/ ~missed

\* Two tabs never edit the project at once, not even a tab and its duplicate,
\* however their pings, refusals and reloads interleave; with Web Locks always,
\* without them until a count has let a tab in unanswered.
OneEditor == AdmissionIsSure => Cardinality(Admitted) <= 1

\* While admission is sure: a session is deleted only when the verified export
\* holds the last version of it, on disk and on every screen: by the export, or
\* by the startup after a crash, whatever pages saved in between when they were
\* hidden.
OnlyExportedWorkIsDeleted ==
    [][disk # None /\ disk' = None /\ AdmissionIsSure =>
          /\ disk.version = exported
          /\ \A t \in Admitted : page[t].mem # None => page[t].mem.version = exported]_vars

\* While admission is sure: the records of a session that names its material are
\* deleted only when the engine has dropped it, whatever crashes and lost answers
\* come between the stages; unless it was prepared again over the marker on disk
\* of a cleanup whose last step had failed. A session that names none is deleted
\* without a purge, and nothing is claimed about it: the material of a failed
\* attachment, or one that a file has replaced, stays with the engine.
BoundMaterialIsPurged ==
    [][disk # None /\ disk' = None /\ disk.bound /\ AdmissionIsSure => ~material \/ again]_vars

\* While admission is sure: a deleted session does not come back, neither by a
\* rollback nor by a write that was queued; except for the marked project of a
\* page that is hidden while its own startup deletes it, which the next startup
\* deletes again.
DeletedForGood ==
    [][disk = None /\ disk' # None /\ AdmissionIsSure => disk'.marker = "vod-purged"]_vars
-----------------------------------------------------------------------------
(* What the cleanup rests on *)

Outside == {"off", "refused", "publishing", "counting"}

Awaiting == {"drop", "entry", "finish", "binding", "unbinding", "draft", "flush", "barrier",
             "intent", "unmark", "mark", "delete"}

\* From here on the exported state is the one on disk.
Sealed == {"intent", "purge", "unmark", "mark", "delete"}

Live(p) == {p.queue[i] : i \in {j \in DOMAIN p.queue : ~p.queue[j].stale}}

\* The one kind of write a place may wait for.
Awaited(at) ==
    IF at = "draft" THEN "draft" ELSE IF at \in {"finish", "delete"} THEN "delete" ELSE "step"

\* A count is under way that will hear of u before t is let in.
WillHear(t, u) == page[t].at = "counting" /\ (<<t, u>> \in asked \/ u \in heard[t])

\* With Web Locks whoever has got in has the lock. Without them, of two tabs
\* that have both pinged one is still counting and will hear of the other.
AdmissionIsExclusive ==
    /\ webLocks => \A t \in Tabs : page[t].at \notin {"off", "refused"} =>
            lock = t /\ page[t].at \notin {"publishing", "counting"}
    /\ ~webLocks =>
        /\ \A t \in Tabs : page[t].at \notin {"off", "refused"} => t \in published
        /\ \A t, u \in Tabs :
            /\ t # u
            /\ page[t].at \notin {"off", "refused", "publishing"}
            /\ page[u].at \notin {"off", "refused", "publishing"}
            => WillHear(t, u) \/ WillHear(u, t)

\* A vod-purged marker is on the exported version, and its material is gone.
MarkIsTrue(r) ==
    r.marker = "vod-purged" => r.version = exported /\ (r.bound => ~material \/ again)

\* The memory of a page is there from the load on, and is marked only where
\* the marker is acted on.
MemoryFits(p) ==
    /\ p.at \in Outside \cup {"begin", "load"} => p.mem = None
    /\ p.at \notin Outside \cup {"begin", "load", "failed"} => p.mem # None
    /\ p.mem = None => p.queue = <<>>
    /\ p.mem # None =>
        /\ p.mem.marker = "purge-intent" => p.at \in {"drop", "failed"}
        /\ p.mem.marker = "vod-purged" => p.at \in {"finish", "failed", "done"}
    /\ p.at = "finish" => p.mem.marker = "vod-purged"

\* At most one awaited write, of the kind the place awaits; a deletion is last.
AwaitsOne(p) ==
    /\ \A i, j \in DOMAIN p.queue :
            p.queue[i].what # "snapshot" /\ p.queue[j].what # "snapshot" => i = j
    /\ \A i \in DOMAIN p.queue : p.queue[i].what # "snapshot" =>
        /\ p.at \in Awaiting /\ p.queue[i].what = Awaited(p.at)
        /\ p.at = "delete" => i = Len(p.queue)

\* A write that may still happen: marked as purged only by the awaited write
\* that sets the marker, or with the page; nothing but the exported state once
\* that is sealed.
WriteFits(p, w) ==
    /\ w.record.marker = "vod-purged"
            => p.mem.marker = "vod-purged" \/ (p.at = "mark" /\ w.what # "snapshot")
    /\ w.what = "snapshot" /\ p.mem.marker = "vod-purged" => w.record.marker = "vod-purged"
    /\ p.at \in Sealed => Clean(w.record) = p.mem

\* From the write of the barrier on there is nothing but the exported state.
BarrierHolds(p) ==
    p.at = "barrier" =>
        \A i, j \in DOMAIN p.queue :
            j <= i /\ ~p.queue[i].stale /\ p.queue[j].what # "snapshot"
            => Clean(p.queue[i].record) = p.mem

PageIsConsistent(p) ==
    /\ MemoryFits(p)
    /\ AwaitsOne(p)
    /\ \A w \in Live(p) : WriteFits(p, w)
    /\ BarrierHolds(p)
    /\ p.at = "done" /\ p.mem.marker # "vod-purged" => Live(p) = {}

\* What a page may rely on: its session, the checkpoint of that session, and
\* from the barrier on, the exported state on disk and the material gone.
PageIsCovered(t, p) ==
    /\ p.at \notin {"off", "done"} => session[t] # 0
    /\ p.at = "load" \/ (p.mem # None /\ p.at # "done")
            => checkpoint # None /\ checkpoint.owner = session[t]
    /\ p.mem # None /\ p.at # "done" =>
        /\ disk # None
        /\ checkpoint.project.marker = "vod-purged" => p.mem.marker = "vod-purged"
    /\ p.at = "done" => checkpoint = None
    /\ p.at = "finish" => disk.marker = "vod-purged"
    /\ p.at \in {"flush", "render", "recount"} => disk.marker # "vod-purged"
    /\ p.at \in Sealed => Clean(disk) = p.mem
    /\ p.at \in Sealed \cup {"barrier"} => p.mem.version = exported
    /\ p.at = "mark" \/ (p.at = "delete" /\ p.mem.bound) => ~material
    /\ p.mem # None => MarkIsTrue(p.mem) /\ \A w \in Live(p) : MarkIsTrue(w.record)

\* The rollback brings back a session that exists, and a marked one only where
\* the marker is on disk as well.
CheckpointIsTrue ==
    checkpoint # None =>
        /\ checkpoint.project = None <=> disk = None
        /\ disk # None =>
            /\ MarkIsTrue(checkpoint.project)
            /\ checkpoint.project.marker = "vod-purged" => disk.marker = "vod-purged"

\* What holds while admission is sure.
SureInvariant ==
    /\ TypeOK
    /\ AdmissionIsExclusive
    /\ disk # None => MarkIsTrue(disk)
    /\ CheckpointIsTrue
    /\ \A t \in Tabs : PageIsConsistent(page[t]) /\ PageIsCovered(t, page[t])

\* The inductive invariant. With Web Locks no tab is let in by a count.
CleanupInvariant ==
    /\ webLocks => ~missed
    /\ missed \/ SureInvariant
=============================================================================
