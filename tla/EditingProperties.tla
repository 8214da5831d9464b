-------------------------- MODULE EditingProperties -------------------------
(* What must hold of editing sessions, and what it means to end one.         *)
EXTENDS EditingSession

\* Shape of the state.
TypeOK ==
    /\ stored \in [Projects -> Versions \cup {None}]
    /\ drafts \in [Projects -> SUBSET Draft]
    /\ checkpoint \in [Projects -> Checkpoint \cup {None}]
    /\ lock \in [Projects -> Tabs \cup {None}]
    /\ session \in [Tabs -> Session \cup {None}]
    /\ doc \in [Tabs -> Document]
    /\ tick \in Versions
    /\ sessions \in 0..SessionLimit
    /\ explicit \in [Projects -> Versions \cup {None}]

\* An editor that has begun has the writer lease of its project and the
\* checkpoint on disk is its own: no start page discards it, no other session
\* replaces it, and the exit always finds it.
OpenEditorOwnsItsCheckpoint ==
    \A t \in Tabs :
        doc[t].at \in {"load", "entering", "open"} => /\ lock[doc[t].project] = t
                                                      /\ Owns(t)

\* Whatever happens to the tabs, what the user last saved can be had again: it
\* is what a rollback brings back, and what is on disk when no edit is under
\* way. Writes of the running session never reach it.
LastSaveSurvives ==
    \A p \in Projects :
        explicit[p] = IF checkpoint[p] = None THEN stored[p]
                      ELSE RolledBackProject(checkpoint[p], drafts[p])

\* What a document may be in the middle of: at most one write that is not a
\* plain snapshot, and only where its kind belongs; once the last save of an
\* exit is done, everything still queued is the state that is committed.
DocumentIsConsistent(d) ==
    /\ d.at \in {"off", "start", "gate", "begin", "load"} => d.mem = None
    /\ d.at \in {"entering", "open", "left"} => d.mem # None
    /\ d.mem = None => d.queue = <<>>
    /\ d.at # "open" => d.exit = "no"
    /\ d.at = "left" \/ d.exit \in {"commit", "drain", "discard"} => d.completed
    /\ d.exit \in {"idle", "seal", "close", "commit"} => d.final = d.mem
    /\ d.exit = "discard" => d.queue = <<>>
    /\ \A i \in DOMAIN d.queue :
        LET tag == d.queue[i].tag IN
        /\ tag = "entry" => d.at = "entering"
        /\ tag = "final" => d.exit = "flush"
        /\ tag = "seal" => d.exit = "seal"
        /\ tag \in {"manual", "auto", "barrier", "restore"}
             => d.at = "open" /\ d.exit = "no" /\ d.drafting
        /\ d.exit \in {"idle", "seal", "close", "commit"} => d.queue[i].version = d.mem
    /\ \A i, j \in DOMAIN d.queue :
        /\ d.queue[i].tag # "snapshot" /\ d.queue[j].tag # "snapshot" => i = j
        /\ d.queue[i].tag = "final" /\ i <= j => d.queue[j].version = d.mem

Begun(d) == d.at \in {"load", "entering", "open"} \/ (d.at = "failed" /\ d.mem # None)

\* What a document may rely on: an editor that has begun has the lease and the
\* checkpoint; one that has left has the lease, and nothing queued is news. Once
\* an exit has sealed its state, that is what the user last saved.
DocumentIsCovered(t) ==
    LET d == doc[t] IN
    /\ d.at \notin {"off", "start"} => session[t] # None /\ d.project # None
    /\ d.at \in {"begin", "left"} \/ Begun(d) => lock[d.project] = t
    /\ Begun(d) => Owns(t)
    /\ d.exit \in {"close", "commit"} => explicit[d.project] = d.mem
    /\ d.at = "left" => /\ checkpoint[d.project] = None
                        /\ \A i \in DOMAIN d.queue :
                            d.queue[i].version = explicit[d.project]

\* Where the last save is, and that no explicit draft is outside the baseline,
\* so that a rollback promotes none.
SavedWorkIsKept(p) ==
    IF checkpoint[p] = None THEN stored[p] = explicit[p]
    ELSE /\ checkpoint[p].project = explicit[p]
         /\ Manual(drafts[p]) \subseteq checkpoint[p].drafts

\* The inductive invariant.
EditingInvariant ==
    /\ TypeOK
    /\ \A t \in Tabs : DocumentIsConsistent(doc[t]) /\ DocumentIsCovered(t)
    /\ \A p \in Projects : SavedWorkIsKept(p)

\* Trimming never removes the draft of the last explicit save, even when the
\* clock has been set back and the draft looks like the oldest.
LastSaveIsListed ==
    \A p \in Projects :
        explicit[p] \notin {None, 0}
            => \E d \in Manual(drafts[p]) : d.version = explicit[p]

\* The rollback snapshot has exactly the explicit drafts that are on disk, so
\* rolling back neither loses one nor brings one back that was trimmed.
BaselineTracksSavedDrafts ==
    \A p \in Projects :
        checkpoint[p] # None => Manual(checkpoint[p].drafts) = Manual(drafts[p])

\* When the editor says that the current state is saved, it is: no save is
\* pending, none has failed, and the project on disk is the one on the screen.
StatusIsTruthful ==
    \A t \in Tabs :
        LET d == doc[t] IN
        (/\ d.at = "open" /\ ~d.saveFailed
         /\ \A i \in DOMAIN d.queue : d.queue[i].tag \notin {"snapshot", "final"})
            => stored[d.project] = d.mem

-----------------------------------------------------------------------------
(* What the drafts and the status rest on *)

\* Drafts have ids of their own, and neither class exceeds its limit.
DraftsFit(ds) ==
    /\ IsFiniteSet(ds)
    /\ \A d, e \in ds : d.id = e.id => d = e
    /\ Cardinality(Manual(ds)) <= ManualLimit
    /\ Cardinality(ds \ Manual(ds)) <= TemporaryLimit

\* A restore that is queued has its draft, and replaces what is on the screen.
RestoreIsPending(d) ==
    \A i \in DOMAIN d.queue :
        /\ d.queue[i].tag \in {"barrier", "restore"} => d.chosen # None
        /\ d.queue[i].tag = "restore" => d.queue[i].version = d.mem

\* The inductive invariant of the drafts.
DraftInvariant ==
    /\ EditingInvariant
    /\ \A p \in Projects :
        /\ DraftsFit(drafts[p])
        /\ checkpoint[p] # None => DraftsFit(checkpoint[p].drafts)
    /\ LastSaveIsListed /\ BaselineTracksSavedDrafts
    /\ \A t \in Tabs : RestoreIsPending(doc[t])

Snapshots == {"snapshot", "final"}

\* Writes are queued in the order of what they write, none newer than the
\* screen; one that no snapshot follows is what is on the screen.
WritesAreInOrder(d) ==
    /\ d.mem # None => d.mem <= tick
    /\ \A i, j \in DOMAIN d.queue :
            i <= j => d.queue[i].version <= d.queue[j].version
    /\ \A i \in DOMAIN d.queue :
        /\ d.queue[i].tag \notin {"barrier", "restore"}
        /\ d.queue[i].version <= d.mem
        /\ (\A j \in DOMAIN d.queue : i < j => d.queue[j].tag \notin Snapshots)
                => d.queue[i].version = d.mem

\* The disk is behind the screen and behind every queued write.
DiskIsBehind(d) ==
    (Begun(d) /\ d.mem # None /\ stored[d.project] # None) =>
        /\ stored[d.project] <= d.mem
        /\ \A i \in DOMAIN d.queue : stored[d.project] <= d.queue[i].version

\* The inductive invariant of the writes, as long as nothing is restored.
WriteInvariant ==
    /\ EditingInvariant
    /\ \A p \in Projects :
        /\ stored[p] # None => stored[p] <= tick
        /\ explicit[p] # None => explicit[p] <= tick
    /\ \A t \in Tabs : WritesAreInOrder(doc[t]) /\ DiskIsBehind(doc[t])
    /\ StatusIsTruthful

-----------------------------------------------------------------------------
(* What no step may do *)

\* While an edit is under way the project on disk never goes back to an
\* earlier state: late writes do not overwrite later ones.
DurableOnlyAdvances ==
    [][\A p \in Projects :
          (/\ checkpoint[p] # None /\ checkpoint'[p] # None
           /\ stored[p] # None)
              => stored'[p] # None /\ stored'[p] >= stored[p]]_vars

\* "Advancing the session generation rejects work that was queued by the
\* replaced project": once a restore has replaced a state, no write of that
\* state becomes CURRENT again while the edit goes on.
ReplacedWorkIsRejected ==
    [][\A p \in Projects : \A d \in drafts[p] :
          (/\ d.reason = "pre-restore"
           /\ checkpoint[p] # None /\ checkpoint'[p] # None
           /\ stored[p] # None /\ stored[p] > d.version)
              => stored'[p] > d.version]_vars

\* A restore can be undone: when the chosen draft has become CURRENT, the state
\* it replaced and the chosen draft itself are both among the drafts.
RestoreCanBeUndone ==
    [][\A t \in Tabs :
          (doc[t].chosen # None /\ doc'[t].at = "open" /\ doc'[t].mem # doc[t].mem)
              => LET kept == drafts'[doc[t].project] IN
                 /\ doc[t].chosen \in kept
                 /\ \E d \in kept : d.reason = "pre-restore" /\ d.version = doc[t].mem]_vars

\* Exiting with "save" leaves on disk what the screen shows, although other
\* writes may still be queued or running; exiting with "discard" leaves what
\* was last saved.
ExitKeepsItsChoice ==
    [][\A t \in Tabs :
          (doc[t].at = "open" /\ doc'[t].at = "left")
              => stored'[doc[t].project] =
                    IF doc[t].exit = "commit" THEN doc[t].mem
                    ELSE explicit[doc[t].project]]_vars

\* An exit that has begun ends: the editor is left, or open again. Only a page
\* that is hidden again and again can put it off, with a save each time.
ExitEnds ==
    \A t \in Tabs :
        []<><<Flush(t)>>_vars \/ ((doc[t].exit # "no") ~> (doc[t].exit = "no"))

\* The pass over abandoned checkpoints ends, whatever other tabs do with them.
CleanupEnds == \A t \in Tabs : (doc[t].todo # {}) ~> (doc[t].todo = {})

\* The promise in the abstract: saved is what a rollback would bring back.
Work == INSTANCE SavedWork WITH
    saved <- [p \in Projects |->
                 IF checkpoint[p] = None THEN stored[p]
                 ELSE RolledBackProject(checkpoint[p], drafts[p])],
    current <- stored,
    open <- {p \in Projects : checkpoint[p] # None}

\* Every step is one of the abstract edit, or none at all.
ImplementsSavedWork == Work!Spec
=============================================================================
