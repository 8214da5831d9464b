--------------------------- MODULE EditingSession ---------------------------
(* The browser side of an edit: editor documents and start pages of several  *)
(* tabs over one IndexedDB. An editor takes the writer lease of its project  *)
(* (a Web Lock), records a checkpoint of what was last saved, and from then  *)
(* on writes the current state to disk through one serial queue. Saving      *)
(* explicitly advances the checkpoint; leaving commits or discards it; a     *)
(* start page rolls back the checkpoints whose editor is gone.               *)
(* Each transaction is one step: IndexedDB commits or aborts it as a whole.  *)
EXTENDS Integers, FiniteSets, Sequences

CONSTANTS
    Tabs,            \* browser tabs
    Projects,        \* project ids
    None,
    Times,           \* readings of the clock, which may be set back
    ManualLimit,     \* MAX_MANUAL_DRAFTS
    TemporaryLimit,  \* MAX_TEMPORARY_DRAFTS
    VersionLimit,    \* bound on edits, drafts and restores
    SessionLimit,    \* bound on editor sessions
    QueueLimit,      \* bound on the writes a document has queued
    Restores         \* whether drafts are restored

ASSUME LimitAssumption ==
    /\ ManualLimit \in Nat \ {0} /\ TemporaryLimit \in Nat \ {0}
    /\ VersionLimit \in Nat /\ SessionLimit \in Nat /\ QueueLimit \in Nat
    /\ Times \subseteq Int /\ Restores \in BOOLEAN

VARIABLES
    stored,      \* PROJECTS: the durable CURRENT of a project
    drafts,      \* LOCAL_DRAFTS
    checkpoint,  \* EDITING_SESSION_CHECKPOINTS
    lock,        \* who holds the exclusive writer lease
    session,     \* sessionStorage of a tab: the editor session it was given
    doc,         \* the document a tab shows
    tick,        \* stamps versions and drafts
    sessions,    \* sessions given out
    explicit     \* history: what the user last saved, or what there was

store == <<stored, drafts, checkpoint, explicit>>
vars == <<stored, drafts, checkpoint, lock, session, doc, tick, sessions, explicit>>

Versions == 0..VersionLimit
SessionIds == 1..SessionLimit
DraftIds == 1..(2 * (ManualLimit + TemporaryLimit) + 1)

Draft == [id : DraftIds, version : Versions, at : Times,
          reason : {"manual", "auto", "pre-restore"}]
Checkpoint == [owner : SessionIds, project : Versions \cup {None},
               drafts : SUBSET Draft, present : BOOLEAN]
Session == [id : SessionIds, project : Projects, fresh : BOOLEAN, seed : BOOLEAN]

ASSUME NoneAssumption ==
    None \notin Tabs \cup Projects \cup Versions \cup Draft \cup Checkpoint \cup Session

\* What a write of the queue does, by the caller it answers.
Saves == {"entry", "snapshot", "final", "barrier"}       \* saveProject
DraftSaves == {"manual", "auto", "seal"}                 \* saveLocalDraft
Tags == Saves \cup DraftSaves \cup {"restore"}

\* "stale": the generation has been advanced since it was enqueued.
Write == [tag : Tags, version : Versions, stale : BOOLEAN]

Document == [
    at : {"off", "start", "gate", "begin", "load", "entering", "open",
          "failed", "left"},
    project : Projects \cup {None},
    mem : Versions \cup {None},       \* project
    queue : Seq(Write),               \* projectWriteQueue
    running : BOOLEAN,                \* its head has passed the generation check
    saveFailed : BOOLEAN,             \* currentProjectSaveFailed
    drafting : BOOLEAN,               \* localDraftOperationActive
    drafted : Versions \cup {None},   \* lastLocalDraftMutationRevision
    chosen : Draft \cup {None},       \* the draft being restored
    exit : {"no", "flush", "idle", "seal", "close", "commit", "drain", "discard"},
    completed : BOOLEAN,              \* editorSessionCompleted
    final : Versions \cup {None},     \* finalProject
    todo : SUBSET Projects,           \* checkpoints a start page has listed
    target : Projects \cup {None},    \* the project it is about to open
    fresh : BOOLEAN]

Off == [at |-> "off", project |-> None, mem |-> None, queue |-> <<>>,
        running |-> FALSE, saveFailed |-> FALSE, drafting |-> FALSE,
        drafted |-> None, chosen |-> None, exit |-> "no", completed |-> FALSE,
        final |-> None, todo |-> {}, target |-> None, fresh |-> FALSE]

Init ==
    /\ stored \in [Projects -> {None, 0}]
    /\ drafts = [p \in Projects |-> {}]
    /\ checkpoint = [p \in Projects |-> None]
    /\ lock = [p \in Projects |-> None]
    /\ session = [t \in Tabs |-> None]
    /\ doc = [t \in Tabs |-> Off]
    /\ tick = 0
    /\ sessions = 0
    /\ explicit = stored

-----------------------------------------------------------------------------
(* Drafts and checkpoints *)

Manual(ds) == {d \in ds : d.reason = "manual"}

\* prioritizeProtected: protected drafts first, then the newest. Ids are
\* random in the code, so the order of equal times means nothing.
Before(d, e, protected) ==
    \/ d.id \in protected /\ e.id \notin protected
    \/ /\ d.id \in protected <=> e.id \in protected
       /\ d.at > e.at \/ (d.at = e.at /\ d.id > e.id)

Newest(ds, n, protected) ==
    {d \in ds : Cardinality({e \in ds : Before(e, d, protected)}) < n}

\* Fault: nothing is protected from trimming.
RetainsNewest(ds, protected) ==
    Newest(Manual(ds), ManualLimit, {})
        \cup Newest(ds \ Manual(ds), TemporaryLimit, {})

\* Fault: one class of drafts crowds out the other.
RetainsTogether(ds, protected) ==
    Newest(ds, ManualLimit + TemporaryLimit, protected)

\* retainedLocalDrafts
Retained(ds, protected) ==
    Newest(Manual(ds), ManualLimit, protected)
        \cup Newest(ds \ Manual(ds), TemporaryLimit, protected)

\* What discarding a checkpoint leaves: its baseline and the explicit drafts
\* made since; the newest of these stands in for a project that was absent.
RolledBackDrafts(cp, ds) ==
    Retained(cp.drafts \cup
             {d \in Manual(ds) : \A b \in cp.drafts : b.id # d.id}, {})

RolledBackProject(cp, ds) ==
    LET explicitly == Manual(RolledBackDrafts(cp, ds) \ cp.drafts)
    IN  IF cp.project # None \/ explicitly = {} THEN cp.project
        ELSE (CHOOSE d \in explicitly :
                \A e \in explicitly \ {d} : Before(d, e, {})).version

\* Fault: the start of the session is restored, whatever was saved since.
NoAdvance(cp, d, retained) == cp

\* advanceExplicitSaveBaseline
AdvanceBaseline(cp, d, retained) ==
    IF cp = None THEN None
    ELSE [cp EXCEPT !.project = d.version, !.drafts = Manual(retained)]

\* The id of a new draft, random in the code: the least that no kept draft has.
NewIds(p) ==
    LET kept == drafts[p] \cup IF checkpoint[p] = None THEN {} ELSE checkpoint[p].drafts
        free == {i \in DraftIds : \A d \in kept : d.id # i}
    IN  {i \in free : \A j \in free : i <= j}

\* discardEditingSessionCheckpoint, discardAbandonedEditingSessionCheckpoint
DiscardCheckpoint(p) ==
    /\ stored' = [stored EXCEPT ![p] = RolledBackProject(checkpoint[p], drafts[p])]
    /\ drafts' = [drafts EXCEPT ![p] = RolledBackDrafts(checkpoint[p], drafts[p])]
    /\ checkpoint' = [checkpoint EXCEPT ![p] = None]
    /\ UNCHANGED explicit

-----------------------------------------------------------------------------
(* Start page *)

Listed == {p \in Projects : checkpoint[p] # None}

UnchangedStore == UNCHANGED store
Keep == UNCHANGED <<store, lock, session, tick, sessions>>

\* A start page is loaded: its tab's session ends, abandoned checkpoints are listed.
StartPage(t) ==
    /\ doc[t].at = "off"
    /\ doc' = [doc EXCEPT ![t].at = "start", ![t].todo = Listed]
    /\ session' = [session EXCEPT ![t] = None]
    /\ UNCHANGED <<store, lock, tick, sessions>>

Settled(t) == doc[t].at = "start" /\ doc[t].todo = {} /\ doc[t].target = None

\* refreshLocalProjectManager, after a focus or on demand
Refresh(t) ==
    /\ Settled(t)
    /\ doc' = [doc EXCEPT ![t].todo = Listed]
    /\ Listed # {}
    /\ Keep

Unknown(p) ==
    /\ stored[p] = None /\ drafts[p] = {} /\ checkpoint[p] = None /\ lock[p] = None
    /\ \A t \in Tabs : /\ session[t] # None => session[t].project # p
                       /\ doc[t].target # p

\* startEditor: the mandatory pass comes first. A fresh project has a new id.
RequestOpen(t, p, fresh) ==
    /\ Settled(t)
    /\ IF fresh THEN Unknown(p) ELSE stored[p] # None
    /\ doc' = [doc EXCEPT ![t].todo = Listed, ![t].target = p, ![t].fresh = fresh]
    /\ Keep

\* runWithExclusiveStudioProjectAccess, with ifAvailable
AcquireAbandoned(t, p) ==
    /\ doc[t].at = "start" /\ p \in doc[t].todo
    /\ lock[p] = None
    /\ lock' = [lock EXCEPT ![p] = t]
    /\ UNCHANGED <<store, session, doc, tick, sessions>>

\* Fault: the lease is waited for.
WaitForOwner(t, p) == FALSE /\ UNCHANGED vars

\* An editor owns it, or another start page is cleaning it up.
SkipOwned(t, p) ==
    /\ doc[t].at = "start" /\ p \in doc[t].todo
    /\ lock[p] \notin {None, t}
    /\ doc' = [doc EXCEPT ![t].todo = @ \ {p}]
    /\ Keep

\* Fault: the checkpoint is discarded without the writer lease.
RollBackUnowned(t, p) ==
    /\ doc[t].at = "start" /\ p \in doc[t].todo
    /\ IF checkpoint[p] # None THEN DiscardCheckpoint(p) ELSE UnchangedStore
    /\ doc' = [doc EXCEPT ![t].todo = @ \ {p}]
    /\ UNCHANGED <<lock, session, tick, sessions>>

\* discardAbandonedEditingSessionCheckpoint; another page may have been first.
RollBack(t, p) ==
    /\ doc[t].at = "start" /\ p \in doc[t].todo
    /\ lock[p] = t
    /\ IF checkpoint[p] # None THEN DiscardCheckpoint(p) ELSE UnchangedStore
    /\ lock' = [lock EXCEPT ![p] = None]
    /\ doc' = [doc EXCEPT ![t].todo = @ \ {p}]
    /\ UNCHANGED <<session, tick, sessions>>

\* The transaction aborts: the pass fails and opens nothing.
RollBackFails(t, p) ==
    /\ doc[t].at = "start" /\ p \in doc[t].todo
    /\ lock[p] = t
    /\ lock' = [lock EXCEPT ![p] = None]
    /\ doc' = [doc EXCEPT ![t].todo = @ \ {p}, ![t].target = None]
    /\ UNCHANGED <<store, session, tick, sessions>>

\* The project to resume is gone.
OpenRefused(t) ==
    /\ doc[t].at = "start" /\ doc[t].todo = {} /\ doc[t].target # None
    /\ ~doc[t].fresh /\ stored[doc[t].target] = None
    /\ doc' = [doc EXCEPT ![t].target = None]
    /\ Keep

\* beginWebEditorSession and the navigation
EnterEditor(t) ==
    LET d == doc[t] IN
    /\ d.at = "start" /\ d.todo = {} /\ d.target # None
    /\ d.fresh \/ stored[d.target] # None
    /\ sessions < SessionLimit
    /\ sessions' = sessions + 1
    /\ session' = [session EXCEPT ![t] = [id |-> sessions + 1, project |-> d.target,
                                          fresh |-> d.fresh, seed |-> d.fresh]]
    /\ doc' = [doc EXCEPT ![t] = [Off EXCEPT !.at = "gate", !.project = d.target]]
    /\ UNCHANGED <<store, lock, tick>>

Forgotten(ps) ==
    /\ stored' = [p \in Projects |-> IF p \in ps THEN None ELSE stored[p]]
    /\ drafts' = [p \in Projects |-> IF p \in ps THEN {} ELSE drafts[p]]
    /\ checkpoint' = [p \in Projects |-> IF p \in ps THEN None ELSE checkpoint[p]]
    /\ explicit' = [p \in Projects |-> IF p \in ps THEN None ELSE explicit[p]]

\* removeOneLocalProject; a mandatory pass follows.
DeleteProject(t, p) ==
    /\ Settled(t)
    /\ stored[p] # None /\ lock[p] = None
    /\ Forgotten({p})
    /\ doc' = [doc EXCEPT ![t].todo = Listed \ {p}]
    /\ UNCHANGED <<lock, session, tick, sessions>>

\* removeAllLocalProjects: the collection lock is exclusive.
DeleteAll(t) ==
    /\ Settled(t)
    /\ \E p \in Projects : stored[p] # None
    /\ \A p \in Projects : lock[p] = None
    /\ Forgotten(Projects)
    /\ UNCHANGED <<lock, session, doc, tick, sessions>>

-----------------------------------------------------------------------------
(* Opening the editor *)

Fails(t) == doc' = [doc EXCEPT ![t].at = "failed"]

\* acquireStudioProjectWriter
AcquireWriter(t) ==
    /\ doc[t].at = "gate"
    /\ lock[doc[t].project] = None
    /\ lock' = [lock EXCEPT ![doc[t].project] = t]
    /\ doc' = [doc EXCEPT ![t].at = "begin"]
    /\ UNCHANGED <<store, session, tick, sessions>>

WriterRefused(t) ==
    /\ doc[t].at = "gate"
    /\ lock[doc[t].project] # None
    /\ Fails(t)
    /\ Keep

\* beginEditingSessionCheckpoint
BeginCheckpoint(t) ==
    LET p == doc[t].project IN
    /\ doc[t].at = "begin"
    /\ \/ /\ checkpoint[p] = None
          /\ stored[p] # None \/ drafts[p] = {}
          /\ checkpoint' = [checkpoint EXCEPT ![p] =
                 [owner |-> session[t].id, project |-> stored[p],
                  drafts |-> drafts[p], present |-> stored[p] # None]]
       \/ /\ checkpoint[p] # None
          /\ checkpoint[p].owner = session[t].id
          /\ UNCHANGED checkpoint
    /\ doc' = [doc EXCEPT ![t].at = "load"]
    /\ UNCHANGED <<stored, drafts, explicit, lock, session, tick, sessions>>

\* Another session's checkpoint, data without a project, or an aborted transaction.
BeginFails(t) ==
    /\ doc[t].at = "begin"
    /\ Fails(t)
    /\ Keep

\* Fault: a new write is put before those that wait.
EnqueuedAhead(d, w) ==
    [d EXCEPT !.queue = IF d.running THEN <<Head(@), w>> \o Tail(@) ELSE <<w>> \o @]

Enqueued(d, w) == [d EXCEPT !.queue = Append(@, w)]
NewWrite(tag, version) == [tag |-> tag, version |-> version, stale |-> FALSE]

\* resolveStudioEditorEntry; the project is shown and its first save enqueued.
LoadProject(t) ==
    LET p == doc[t].project
        s == session[t]
        Shows(v) == doc' = [doc EXCEPT ![t] =
                        Enqueued([@ EXCEPT !.at = "entering", !.mem = v],
                                 NewWrite("entry", v))]
    IN
    /\ doc[t].at = "load"
    /\ s.fresh => ~checkpoint[p].present
    /\ \/ stored[p] # None /\ Shows(stored[p]) /\ UNCHANGED tick
       \/ /\ stored[p] = None /\ s.fresh /\ s.seed
          /\ tick < VersionLimit /\ tick' = tick + 1
          /\ Shows(tick + 1)
    /\ UNCHANGED <<store, lock, session, sessions>>

\* new-project-collision, missing-saved-project, missing-capture-seed
EntryRefused(t) ==
    LET p == doc[t].project
        s == session[t]
    IN
    /\ doc[t].at = "load"
    /\ \/ s.fresh /\ checkpoint[p].present
       \/ stored[p] = None /\ ~(s.fresh /\ s.seed)
    /\ Fails(t)
    /\ Keep

-----------------------------------------------------------------------------
(* Editing *)

HasRoom(t) == Len(doc[t].queue) < QueueLimit
Becomes(t, d) == doc' = [doc EXCEPT ![t] = d]
Page(t) == UNCHANGED <<store, lock, session, tick, sessions>>

\* startProjectSnapshotSave
SnapshotEnqueued(d, tag) ==
    Enqueued([d EXCEPT !.saveFailed = FALSE], NewWrite(tag, d.mem))

\* Fault: the exit dialog does not keep the document from changing.
EditableWhileLeaving(t) == doc[t].at = "open" /\ ~doc[t].completed

Editable(t) == doc[t].at = "open" /\ ~doc[t].completed /\ doc[t].exit = "no"

\* A mutation and the save of its snapshot, which a microtask dispatches.
\* A restore locks mutations.
Edit(t) ==
    /\ Editable(t) /\ HasRoom(t)
    /\ doc[t].chosen = None
    /\ tick < VersionLimit /\ tick' = tick + 1
    /\ Becomes(t, SnapshotEnqueued([doc[t] EXCEPT !.mem = tick + 1], "snapshot"))
    /\ UNCHANGED <<store, lock, session, sessions>>

\* flushSave: on beforeunload, pagehide and when the page is hidden
Flush(t) ==
    /\ doc[t].mem # None /\ ~doc[t].completed /\ HasRoom(t)
    /\ Becomes(t, SnapshotEnqueued(doc[t], "snapshot"))
    /\ Page(t)

\* saveCurrentLocalDraft("manual")
ManualSave(t) ==
    /\ Editable(t) /\ ~doc[t].drafting /\ HasRoom(t)
    /\ Becomes(t, Enqueued([doc[t] EXCEPT !.drafting = TRUE],
                           NewWrite("manual", doc[t].mem)))
    /\ Page(t)

\* runAutomaticLocalDraft
AutoSave(t) ==
    /\ Editable(t) /\ ~doc[t].drafting /\ HasRoom(t)
    /\ doc[t].drafted # doc[t].mem
    /\ Becomes(t, Enqueued([doc[t] EXCEPT !.drafting = TRUE],
                           NewWrite("auto", doc[t].mem)))
    /\ Page(t)

\* restoreSelectedLocalDraft: first the current state is saved once more.
Restore(t) ==
    /\ Restores
    /\ Editable(t) /\ ~doc[t].drafting /\ HasRoom(t)
    /\ tick < VersionLimit
    /\ \E d \in drafts[doc[t].project] :
         Becomes(t, Enqueued([doc[t] EXCEPT !.drafting = TRUE, !.chosen = d],
                             NewWrite("barrier", doc[t].mem)))
    /\ Page(t)

-----------------------------------------------------------------------------
(* The write queue *)

Head1(t) == Head(doc[t].queue)
Waiting(t) == doc[t].queue # <<>> /\ ~doc[t].running
Running(t) == doc[t].queue # <<>> /\ doc[t].running

Popped(d) == [d EXCEPT !.queue = Tail(@), !.running = FALSE]

\* advanceGeneration: everything that has not started is rejected.
GenerationAdvanced(d) ==
    [d EXCEPT !.queue = [i \in DOMAIN @ |->
        IF i = 1 /\ d.running THEN @[i] ELSE [@[i] EXCEPT !.stale = TRUE]]]

\* Fault: a failed save is not remembered.
FailsQuietly(d, tag) ==
    CASE tag = "snapshot" -> d
      [] tag = "final"    -> [d EXCEPT !.exit = "no"]
      [] tag = "entry"    -> [d EXCEPT !.at = "failed"]
      [] tag = "seal"     -> [d EXCEPT !.exit = "no"]
      [] OTHER            -> [d EXCEPT !.drafting = FALSE, !.chosen = None]

\* Fault: the dialog stays busy when its draft could not be saved.
FailsBusy(d, tag) ==
    CASE tag \in {"snapshot", "final"} -> [d EXCEPT !.saveFailed = TRUE]
      [] tag = "entry"                 -> [d EXCEPT !.at = "failed"]
      [] OTHER                         -> [d EXCEPT !.drafting = FALSE, !.chosen = None]

\* What the caller of a write does when it has failed.
AfterFailure(d, tag) ==
    CASE tag = "snapshot" -> [d EXCEPT !.saveFailed = TRUE]
      [] tag = "final"    -> [d EXCEPT !.saveFailed = TRUE, !.exit = "no"]
      [] tag = "entry"    -> [d EXCEPT !.at = "failed"]
      [] tag = "seal"     -> [d EXCEPT !.exit = "no"]
      [] OTHER            -> [d EXCEPT !.drafting = FALSE, !.chosen = None]

\* And when it has been done.
AfterSave(d, w) ==
    CASE w.tag = "snapshot" -> [d EXCEPT !.saveFailed = FALSE]
      [] w.tag = "final"    -> [d EXCEPT !.saveFailed = FALSE, !.exit = "idle",
                                         !.final = w.version]
      [] w.tag = "entry"    -> [d EXCEPT !.at = "open", !.drafted = w.version]
      [] w.tag = "barrier"  -> Enqueued(GenerationAdvanced(d), NewWrite("restore", d.mem))

AfterDraft(d, w) ==
    IF w.tag = "seal" THEN [d EXCEPT !.exit = "close"]
    ELSE [d EXCEPT !.drafting = FALSE, !.drafted = w.version]

\* The generation check when a write's turn comes.
StartWrite(t) ==
    /\ Waiting(t)
    /\ ~Head1(t).stale
    /\ doc' = [doc EXCEPT ![t].running = TRUE]
    /\ Page(t)

RejectStale(t) ==
    /\ Waiting(t)
    /\ Head1(t).stale
    /\ Becomes(t, AfterFailure(Popped(doc[t]), Head1(t).tag))
    /\ Page(t)

\* The transaction aborts.
WriteFails(t) ==
    /\ Running(t)
    /\ Becomes(t, AfterFailure(Popped(doc[t]), Head1(t).tag))
    /\ Page(t)

\* saveProject. The seed of a fresh project is removed after its first save.
CommitSave(t) ==
    LET w == Head1(t) IN
    /\ Running(t) /\ w.tag \in Saves
    /\ stored' = [stored EXCEPT ![doc[t].project] = w.version]
    /\ session' = [session EXCEPT ![t].seed = @ /\ w.tag # "entry"]
    /\ Becomes(t, AfterSave(Popped(doc[t]), w))
    /\ UNCHANGED <<drafts, checkpoint, explicit, lock, tick, sessions>>

\* saveLocalDraft. A manual one is what the user wants kept.
CommitDraft(t) ==
    LET w == Head1(t)
        p == doc[t].project
        manual == w.tag # "auto"
    IN
    /\ Running(t) /\ w.tag \in DraftSaves
    /\ \E now \in Times, i \in NewIds(p) :
         LET d == [id |-> i, version |-> w.version, at |-> now,
                   reason |-> IF manual THEN "manual" ELSE "auto"]
             retained == Retained(drafts[p] \cup {d}, {d.id})
         IN  /\ drafts' = [drafts EXCEPT ![p] = retained]
             /\ checkpoint' = IF manual
                    THEN [checkpoint EXCEPT ![p] = AdvanceBaseline(@, d, retained)]
                    ELSE checkpoint
    /\ stored' = [stored EXCEPT ![p] = w.version]
    /\ explicit' = IF manual THEN [explicit EXCEPT ![p] = w.version] ELSE explicit
    /\ Becomes(t, AfterDraft(Popped(doc[t]), w))
    /\ UNCHANGED <<lock, session, tick, sessions>>

\* restoreLocalDraft: the chosen draft becomes CURRENT, here as a new version,
\* and what it replaces is kept as a draft. The page then shows it.
CommitRestore(t) ==
    LET w == Head1(t)
        p == doc[t].project
        d == doc[t]
    IN
    /\ Running(t) /\ w.tag = "restore"
    /\ d.chosen \in drafts[p]
    /\ tick < VersionLimit /\ tick' = tick + 1
    /\ \E now \in Times, i \in NewIds(p) :
         LET pre == [id |-> i, version |-> w.version, at |-> now,
                     reason |-> "pre-restore"]
         IN  drafts' = [drafts EXCEPT ![p] =
                 Retained(@ \cup {pre}, {pre.id, d.chosen.id})]
    /\ stored' = [stored EXCEPT ![p] = tick + 1]
    /\ Becomes(t, [Popped(d) EXCEPT
           !.mem = tick + 1, !.drafting = FALSE, !.chosen = None,
           !.drafted = IF @ = d.mem THEN tick + 1 ELSE @])
    /\ UNCHANGED <<checkpoint, explicit, lock, session, sessions>>

-----------------------------------------------------------------------------
(* finishEditingSession *)

\* flushSave gives the project that is committed in the end.
SaveAndExit(t) ==
    /\ Editable(t) /\ ~doc[t].drafting /\ HasRoom(t)
    /\ Becomes(t, SnapshotEnqueued([doc[t] EXCEPT !.exit = "flush"], "final"))
    /\ Page(t)

\* waitForProjectSaves, then the manual draft
ExitIdle(t) ==
    /\ doc[t].exit = "idle" /\ doc[t].queue = <<>>
    /\ Becomes(t, Enqueued([doc[t] EXCEPT !.exit = "seal"], NewWrite("seal", doc[t].mem)))
    /\ Page(t)

ExitSeals(t) ==
    /\ doc[t].exit = "close"
    /\ Becomes(t, GenerationAdvanced([doc[t] EXCEPT !.completed = TRUE, !.exit = "commit"]))
    /\ Page(t)

Owns(t) == /\ checkpoint[doc[t].project] # None
           /\ checkpoint[doc[t].project].owner = session[t].id

\* commitEditingSessionCheckpoint
CommitCheckpoint(t) ==
    LET p == doc[t].project IN
    /\ doc[t].exit = "commit"
    /\ Owns(t)
    /\ stored' = [stored EXCEPT ![p] = doc[t].final]
    /\ checkpoint' = [checkpoint EXCEPT ![p] = None]
    /\ explicit' = [explicit EXCEPT ![p] = doc[t].final]
    /\ doc' = [doc EXCEPT ![t].at = "left", ![t].exit = "no"]
    /\ UNCHANGED <<drafts, lock, session, tick, sessions>>

\* From here on nothing new is enqueued.
DiscardAndExit(t) ==
    /\ Editable(t) /\ ~doc[t].drafting
    /\ doc' = [doc EXCEPT ![t].completed = TRUE, ![t].exit = "drain"]
    /\ Page(t)

\* Fault: the write that is running is not waited for.
ExitUndrained(t) ==
    /\ doc[t].exit = "drain"
    /\ Becomes(t, GenerationAdvanced([doc[t] EXCEPT !.exit = "discard"]))
    /\ Page(t)

ExitDrained(t) ==
    /\ doc[t].exit = "drain" /\ doc[t].queue = <<>>
    /\ Becomes(t, GenerationAdvanced([doc[t] EXCEPT !.exit = "discard"]))
    /\ Page(t)

DiscardSession(t) ==
    /\ doc[t].exit = "discard"
    /\ Owns(t)
    /\ DiscardCheckpoint(doc[t].project)
    /\ doc' = [doc EXCEPT ![t].at = "left", ![t].exit = "no"]
    /\ UNCHANGED <<lock, session, tick, sessions>>

\* The transaction aborts and the editor stays open.
ExitFails(t) ==
    /\ doc[t].exit \in {"commit", "discard"}
    /\ doc' = [doc EXCEPT ![t].completed = FALSE, ![t].exit = "no"]
    /\ Page(t)

Released(t) == [p \in Projects |-> IF lock[p] = t THEN None ELSE lock[p]]

\* leaveCompletedStudioEditor
Leave(t) ==
    /\ doc[t].at = "left"
    /\ Becomes(t, Off)
    /\ lock' = Released(t)
    /\ session' = [session EXCEPT ![t] = None]
    /\ UNCHANGED <<store, tick, sessions>>

\* The tab is closed, crashes or navigates. Its locks and transactions end.
Close(t) ==
    /\ doc[t].at # "off"
    /\ Becomes(t, Off)
    /\ lock' = Released(t)
    /\ UNCHANGED <<store, session, tick, sessions>>

\* The editor's address is loaded again in the same tab.
Reload(t) ==
    /\ doc[t].at = "off" /\ session[t] # None
    /\ Becomes(t, [Off EXCEPT !.at = "gate", !.project = session[t].project])
    /\ Page(t)

-----------------------------------------------------------------------------
Cleaning(t) ==
    \E p \in Projects : AcquireAbandoned(t, p) \/ SkipOwned(t, p)
                        \/ RollBack(t, p) \/ RollBackFails(t, p)

Writing(t) ==
    \/ StartWrite(t) \/ RejectStale(t) \/ WriteFails(t)
    \/ CommitSave(t) \/ CommitDraft(t) \/ CommitRestore(t)

Exiting(t) ==
    \/ ExitIdle(t) \/ ExitSeals(t) \/ CommitCheckpoint(t)
    \/ ExitDrained(t) \/ DiscardSession(t) \/ ExitFails(t)

Next == \E t \in Tabs :
    \/ StartPage(t) \/ Refresh(t) \/ OpenRefused(t) \/ EnterEditor(t)
    \/ \E p \in Projects, fresh \in BOOLEAN : RequestOpen(t, p, fresh)
    \/ Cleaning(t)
    \/ \E p \in Projects : DeleteProject(t, p)
    \/ DeleteAll(t)
    \/ AcquireWriter(t) \/ WriterRefused(t)
    \/ BeginCheckpoint(t) \/ BeginFails(t)
    \/ LoadProject(t) \/ EntryRefused(t)
    \/ Edit(t) \/ Flush(t) \/ ManualSave(t) \/ AutoSave(t) \/ Restore(t)
    \/ Writing(t)
    \/ SaveAndExit(t) \/ DiscardAndExit(t) \/ Exiting(t)
    \/ Leave(t) \/ Close(t) \/ Reload(t)

Spec == Init /\ [][Next]_vars

\* A document that stays open goes on with its tasks: transactions end.
Fairness == \A t \in Tabs : WF_vars(Cleaning(t)) /\ WF_vars(Writing(t)) /\ WF_vars(Exiting(t))

FairSpec == Spec /\ Fairness

=============================================================================
