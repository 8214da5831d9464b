--------------------------- MODULE ExportCleanup ---------------------------
(* An export that ends the edit: the editor saves, renders, and then deletes *)
(* its session in stages under a durable marker: purge-intent, the purge of  *)
(* the session's VOD material by the engine, vod-purged, and one transaction *)
(* that removes every record. A startup finds the stage a crash has left.    *)
(* Only one tab may do this, so admission is part of it: a Web Lock, or,     *)
(* where a browser has none, pings over a broadcast channel.                 *)
(* One saved project; its drafts and blobs share the fate of its record.     *)
EXTENDS Integers, FiniteSets, Sequences

CONSTANTS
    Tabs, None,
    VersionLimit,  \* bound on edits
    SessionLimit,  \* bound on editor sessions
    QueueLimit     \* bound on the writes a page has queued

ASSUME LimitAssumption ==
    VersionLimit \in Nat /\ SessionLimit \in Nat \ {0} /\ QueueLimit \in Nat \ {0}

VARIABLES
    webLocks,    \* whether navigator.locks exists
    lock,        \* the holder of the project's writer lock
    published,   \* the tabs whose webEditorProjectId is the project
    asked,       \* pings that are not handled yet: <<asker, other>>
    heard,       \* the tabs whose pong each tab has counted
    missed,      \* history: a count let a tab in before an editor had answered
    disk,        \* CURRENT, or None
    checkpoint,  \* the row of the editing session
    material,    \* whether the engine has the session's VOD material
    late,        \* a purge the engine may still run for a page that is gone
    session,     \* sessionStorage of a tab, 0 if it has none
    sessions,    \* sessions given out
    page,        \* the document of a tab
    exported,    \* history: the version the last verified export holds
    again        \* history: material was prepared over a vod-purged marker
                 \* that is still on disk

channel == <<published, asked, heard, missed>>
storage == <<disk, checkpoint>>
engine == <<material, late, again>>
browser == <<webLocks, lock, session, sessions>>
vars == <<browser, channel, storage, engine, page, exported>>

Versions == 0..VersionLimit
Markers == {"none", "purge-intent", "vod-purged"}
Record == [version : Versions, bound : BOOLEAN, marker : Markers]
Row == [owner : 1..SessionLimit, project : Record \cup {None}]

\* None is nobody and nothing.
ASSUME NoneAssumption == None \notin Tabs /\ None \notin Record /\ None \notin Row

\* "snapshot": saves nobody waits for; the others are awaited by the flow.
Write == [what : {"snapshot", "step", "draft", "delete"},
          record : Record, stale : BOOLEAN]

Starting == {"publishing", "counting", "begin", "load", "drop", "entry", "finish"}
Cleaning == {"recount", "barrier", "intent", "purge", "unmark", "mark", "delete"}
Places == {"off", "refused", "failed", "open", "preparing", "binding", "unbinding",
           "draft", "flush", "render", "done"} \cup Starting \cup Cleaning

Page == [at : Places, mem : Record \cup {None}, queue : Seq(Write)]

Off == [at |-> "off", mem |-> None, queue |-> <<>>]
Clean(r) == [r EXCEPT !.marker = "none"]
Marked(r, stage) == [r EXCEPT !.marker = stage]

\* A project that names no material of the engine.
Detached(r) == [r EXCEPT !.bound = FALSE]

Init ==
    /\ webLocks \in BOOLEAN /\ lock = None
    /\ published = {} /\ asked = {} /\ heard = [t \in Tabs |-> {}] /\ missed = FALSE
    /\ material \in BOOLEAN
    /\ disk = [version |-> 0, bound |-> material, marker |-> "none"]
    /\ checkpoint = None /\ late = FALSE
    /\ session = [t \in Tabs |-> 0] /\ sessions = 0
    /\ page = [t \in Tabs |-> Off]
    /\ exported = None /\ again = FALSE

Becomes(t, p) == page' = [page EXCEPT ![t] = p]
Goto(t, place) == Becomes(t, [page[t] EXCEPT !.at = place])

\* queueCurrentProjectSessionWrite
Enqueued(p, what, record) ==
    [p EXCEPT !.queue = Append(@, [what |-> what, record |-> record, stale |-> FALSE])]

\* The flow goes on to a place where it awaits a write.
Awaits(p, place, what, record) == Enqueued([p EXCEPT !.at = place], what, record)

-----------------------------------------------------------------------------
(* Admission *)

\* Fault: a page without an editor session gets in.
MayNavigate(t) == TRUE

\* verifyEditorUsagePolicyGate
HasSession(t) == session[t] # 0

\* A tab gets a new editor session, is reloaded with the one it had, or is the
\* duplicate of a tab and has a copy of its session.
Navigate(t) ==
    /\ page[t].at = "off"
    /\ \/ disk # None /\ sessions < SessionLimit /\ sessions' = sessions + 1
          /\ session' = [session EXCEPT ![t] = sessions + 1]
       \/ HasSession(t) /\ UNCHANGED <<session, sessions>>
       \/ \E u \in Tabs \ {t} :
            /\ page[u].at # "off" /\ HasSession(u)
            /\ session' = [session EXCEPT ![t] = session[u]] /\ UNCHANGED sessions
    /\ IF webLocks
       THEN /\ Goto(t, IF lock = None THEN "begin" ELSE "refused")
            /\ lock' = IF lock = None THEN t ELSE lock
            /\ UNCHANGED published
       ELSE /\ Goto(t, "publishing") /\ UNCHANGED lock
            /\ published' = published \cup {t}
    /\ UNCHANGED <<webLocks, asked, heard, missed, storage, engine, exported>>

\* countStudioProjectEditors: the ping goes to every document that is there.
Ping(t, place) ==
    /\ asked' = asked \cup {<<t, u>> : u \in {v \in Tabs \ {t} : page[v].at # "off"}}
    /\ heard' = [heard EXCEPT ![t] = {}]
    /\ Goto(t, place)
    /\ UNCHANGED <<browser, published, missed, storage, engine, exported>>

CountAfterDelay(t) == page[t].at = "publishing" /\ Ping(t, "counting")

\* Fault: only tabs that are done with their own admission answer.
AnswerWhenOpen(t, u) ==
    /\ <<t, u>> \in asked /\ asked' = asked \ {<<t, u>>}
    /\ heard' = [heard EXCEPT ![t] = IF page[u].at = "open" THEN @ \cup {u} ELSE @]
    /\ UNCHANGED <<browser, published, missed, storage, engine, page, exported>>

\* The pong carries the project the tab has published when it reads the ping.
Answer(t, u) ==
    /\ <<t, u>> \in asked /\ asked' = asked \ {<<t, u>>}
    /\ heard' = [heard EXCEPT ![t] = IF u \in published THEN @ \cup {u} ELSE @]
    /\ UNCHANGED <<browser, published, missed, storage, engine, page, exported>>

\* A tab that has the project has not answered yet.
Unheard(t) == \E u \in published : <<t, u>> \in asked

\* A count ends with its timer, whoever has answered; later pongs are ignored.
CountEnds(t) == asked' = {a \in asked : a[1] # t}

Admit(t) ==
    /\ page[t].at = "counting" /\ CountEnds(t)
    /\ IF heard[t] = {}
       THEN /\ Goto(t, "begin") /\ UNCHANGED published
            /\ missed' = (missed \/ Unheard(t))
       ELSE /\ Goto(t, "refused") /\ published' = published \ {t}
            /\ UNCHANGED missed
    /\ UNCHANGED <<browser, heard, storage, engine, exported>>

-----------------------------------------------------------------------------
(* Startup *)

\* beginEditingSessionCheckpoint: another session's row is not adopted.
Begin(t) ==
    /\ page[t].at = "begin"
    /\ IF checkpoint = None
       THEN /\ checkpoint' = [owner |-> session[t], project |-> disk]
            /\ Goto(t, "load")
       ELSE /\ Goto(t, IF checkpoint.owner = session[t] THEN "load" ELSE "failed")
            /\ UNCHANGED checkpoint
    /\ UNCHANGED <<browser, channel, disk, engine, exported>>

\* Fault: an intent is taken for a purge that has happened.
AssumesPurge(r) ==
    CASE r.marker = "none" -> "entry"
      [] OTHER -> "finish"

\* reconcileInterruptedSessionCleanup, by the stage of the marker. A marker
\* always names the binding it was saved with, so the mismatch is no case here.
Recovery(r) ==
    CASE r.marker = "none" -> "entry"
      [] r.marker = "purge-intent" -> "drop"
      [] r.marker = "vod-purged" -> "finish"

\* loadProject, and the first step of the recovery.
Load(t) ==
    /\ page[t].at = "load"
    /\ IF disk = None
       THEN Goto(t, "failed") /\ UNCHANGED published
       ELSE /\ published' = published \cup {t}
            /\ LET next == Recovery(disk)
               IN  Becomes(t, Awaits([page[t] EXCEPT !.mem = disk], next,
                                     IF next = "finish" THEN "delete" ELSE "step",
                                     Clean(disk)))
    /\ UNCHANGED <<browser, asked, heard, missed, storage, engine, exported>>

-----------------------------------------------------------------------------
(* Editing and exporting *)

HasRoom(t) == Len(page[t].queue) < QueueLimit

\* Fault: an export does not lock the project.
EditableWhileCleaning(t) == page[t].at = "open" \/ page[t].at \in Cleaning

\* lockProjectMutations
Editable(t) == page[t].at = "open"

Edit(t) ==
    /\ Editable(t) /\ HasRoom(t) /\ page[t].mem.version < VersionLimit
    /\ LET r == [page[t].mem EXCEPT !.version = @ + 1]
       IN  Becomes(t, Enqueued([page[t] EXCEPT !.mem = r], "snapshot", r))
    /\ UNCHANGED <<browser, channel, storage, engine, exported>>

\* flushSave, when the page is hidden or unloaded; editorSessionCompleted
\* is set from the last delete on.
Flush(t) ==
    /\ page[t].mem # None /\ page[t].at \notin {"delete", "done"} /\ HasRoom(t)
    /\ Becomes(t, Enqueued(page[t], "snapshot", page[t].mem))
    /\ UNCHANGED <<browser, channel, storage, engine, exported>>

\* The engine makes the session's material, again if it is gone; the binding
\* is saved once it is there.
Prepare(t) ==
    /\ page[t].at = "open" /\ ~(page[t].mem.bound /\ material)
    /\ Goto(t, "preparing")
    /\ material' = TRUE
    /\ again' = (again \/ (disk # None /\ disk.marker = "vod-purged"))
    /\ UNCHANGED <<browser, channel, storage, late, exported>>

\* attachMediaSource has waited for the queue, but a page that is hidden while
\* the preview loads enqueues again.
BindMaterial(t) ==
    /\ page[t].at = "preparing" /\ HasRoom(t)
    /\ Becomes(t, Awaits(page[t], "binding", "step", [page[t].mem EXCEPT !.bound = TRUE]))
    /\ UNCHANGED <<browser, channel, storage, engine, exported>>

AttachFails(t) ==
    /\ page[t].at = "preparing" /\ Goto(t, "open")
    /\ UNCHANGED <<browser, channel, storage, engine, exported>>

\* A file of the user replaces the material, which the engine keeps.
AttachFile(t) ==
    /\ page[t].at = "open" /\ page[t].mem.bound /\ HasRoom(t)
    /\ Becomes(t, Awaits(page[t], "unbinding", "step", Detached(page[t].mem)))
    /\ UNCHANGED <<browser, channel, storage, engine, exported>>

\* exportVideo: from here on project mutations are locked.
Export(t) ==
    /\ page[t].at = "open" /\ HasRoom(t)
    /\ page[t].mem.bound => material
    /\ Becomes(t, Awaits(page[t], "draft", "draft", page[t].mem))
    /\ UNCHANGED <<browser, channel, storage, engine, exported>>

\* It fails, is cancelled, or the user keeps the working files.
KeepSession(t) ==
    /\ page[t].at = "render" /\ Goto(t, "open")
    /\ UNCHANGED <<browser, channel, storage, engine, exported>>

\* The files have been verified and the user wants the session deleted.
AskCleanup(t) ==
    /\ page[t].at = "render" /\ Ping(t, "recount")

\* countSameProjectEditorTabs, then the barrier that saves the exported state.
StartCleanup(t) ==
    /\ page[t].at = "recount" /\ CountEnds(t) /\ HasRoom(t)
    /\ IF heard[t] = {}
       THEN /\ Becomes(t, Awaits(page[t], "barrier", "step", page[t].mem))
            /\ exported' = page[t].mem.version
       ELSE Goto(t, "open") /\ UNCHANGED exported
    /\ UNCHANGED <<browser, published, heard, missed, storage, engine>>

\* purgeChzzkVodConsumerSessionCache
Purged(t) ==
    /\ page[t].at = "purge" /\ material' = FALSE
    /\ Becomes(t, Awaits(page[t], "mark", "step", Marked(page[t].mem, "vod-purged")))
    /\ UNCHANGED <<browser, channel, storage, late, again, exported>>

\* It is refused, or its answer is lost: it may have run, or run later.
PurgeFails(t) ==
    /\ page[t].at = "purge"
    /\ late' \in {late, TRUE}
    /\ Becomes(t, Awaits(page[t], "unmark", "step", page[t].mem))
    /\ UNCHANGED <<browser, channel, storage, material, again, exported>>

LatePurge ==
    /\ late /\ late' = FALSE /\ material' \in {material, FALSE}
    /\ UNCHANGED <<browser, channel, storage, again, page, exported>>

-----------------------------------------------------------------------------
(* The write queue. A write that starts after the generation has advanced is *)
(* rejected; the head may have started already.                              *)

Advanced(queue, running) ==
    [i \in DOMAIN queue |->
        IF running /\ i = 1 THEN queue[i] ELSE [queue[i] EXCEPT !.stale = TRUE]]

After(place) ==
    CASE place = "flush" -> "render"
      [] place = "intent" -> "purge"
      [] place \in {"entry", "unmark"} -> "open"

\* What the flow does when its write has been committed; `running` is whether
\* the write behind it has started before the generation advances.
AfterWrite(p, running) ==
    LET next == [p EXCEPT !.queue = Advanced(@, running)] IN
    CASE p.at = "drop" -> Awaits([p EXCEPT !.mem = Clean(@)], "entry", "step", Clean(p.mem))
      [] p.at \in {"entry", "flush", "intent", "unmark"} -> [p EXCEPT !.at = After(@)]
      [] p.at = "finish" -> [next EXCEPT !.at = "done"]
      [] p.at = "binding" -> [p EXCEPT !.at = "open", !.mem.bound = TRUE]
      [] p.at = "unbinding" -> [p EXCEPT !.at = "open", !.mem = Detached(@)]
      [] p.at = "draft" -> Awaits(p, "flush", "step", p.mem)
      [] p.at = "barrier" /\ p.mem.bound ->
            Awaits(next, "intent", "step", Marked(p.mem, "purge-intent"))
      [] (p.at = "barrier" /\ ~p.mem.bound) \/ p.at = "mark" ->
            Awaits(next, "delete", "delete", p.mem)
      [] p.at = "delete" -> [next EXCEPT !.at = "done"]

\* ... and when it has failed.
AfterFailure(p, running) ==
    CASE p.at \in {"drop", "entry", "finish"} -> [p EXCEPT !.at = "failed"]
      [] p.at = "mark" -> AfterWrite(p, running)
      [] p.at = "delete" -> [p EXCEPT !.at = "open", !.mem = Detached(@)]
      [] OTHER -> [p EXCEPT !.at = "open"]

\* retrySessionCleanupStoreOperation
Retried == {"drop", "finish", "intent", "unmark", "mark", "delete"}

\* Fault: the checkpoint stays behind.
DeletesRecordsOnly == disk' = None /\ UNCHANGED checkpoint

\* deleteProjectSessionAtomically
DeletesSession == disk' = None /\ checkpoint' = None

\* An explicit save also goes into the row of the session, if there is one.
Commits(w) ==
    CASE w.what \in {"snapshot", "step"} -> disk' = w.record /\ UNCHANGED checkpoint
      [] w.what = "draft" ->
            /\ disk' = w.record
            /\ checkpoint' = IF checkpoint = None THEN None
                             ELSE [checkpoint EXCEPT !.project = w.record]
      [] w.what = "delete" -> DeletesSession

\* Whether the marker that material was prepared over is still on disk.
MarkerStays == again' = (again /\ (disk' # None => disk'.marker = "vod-purged"))

\* A tab whose edit is complete forgets its session, unless that fails too.
CommitHead(t) ==
    LET w == Head(page[t].queue)
        p == [page[t] EXCEPT !.queue = Tail(@)]
    IN  /\ page[t].queue # <<>> /\ ~w.stale
        /\ Commits(w) /\ MarkerStays
        /\ IF w.what = "snapshot" THEN Becomes(t, p)
           ELSE \E running \in BOOLEAN : Becomes(t, AfterWrite(p, running))
        /\ session' \in {session} \cup
               (IF page'[t].at = "done" THEN {[session EXCEPT ![t] = 0]} ELSE {})
        /\ UNCHANGED <<webLocks, lock, sessions, channel, material, late, exported>>

\* Three failures, or one retry behind what has been enqueued meanwhile.
HeadFails(t) ==
    LET w == Head(page[t].queue)
        p == [page[t] EXCEPT !.queue = Tail(@)]
    IN  /\ page[t].queue # <<>> /\ ~w.stale
        /\ \/ w.what = "snapshot" /\ Becomes(t, p)
           \/ /\ w.what # "snapshot"
              /\ \E running \in BOOLEAN : Becomes(t, AfterFailure(p, running))
           \/ /\ w.what # "snapshot" /\ page[t].at \in Retried
              /\ Becomes(t, [p EXCEPT !.queue = Append(@, w)])
        /\ UNCHANGED <<browser, channel, storage, engine, exported>>

RejectHead(t) ==
    /\ page[t].queue # <<>> /\ Head(page[t].queue).stale
    /\ Becomes(t, [page[t] EXCEPT !.queue = Tail(@)])
    /\ UNCHANGED <<browser, channel, storage, engine, exported>>

-----------------------------------------------------------------------------
(* The rest of the browser *)

\* A tab is closed, reloaded or crashes.
Vanish(t) ==
    /\ page[t].at # "off" /\ Becomes(t, Off)
    /\ lock' = IF lock = t THEN None ELSE lock
    /\ published' = published \ {t}
    /\ asked' = {a \in asked : t \notin {a[1], a[2]}}
    /\ heard' = [heard EXCEPT ![t] = {}]
    /\ late' = (late \/ page[t].at = "purge")
    /\ UNCHANGED <<webLocks, missed, session, sessions, storage, material, again, exported>>

\* A start page rolls back a checkpoint that no editor owns; without Web
\* Locks it cannot know, and leaves it alone.
RollBack ==
    /\ webLocks /\ lock = None /\ checkpoint # None
    /\ disk' = checkpoint.project /\ checkpoint' = None /\ MarkerStays
    /\ UNCHANGED <<browser, channel, material, late, page, exported>>

Next ==
    \/ \E t \in Tabs :
        \/ Navigate(t) \/ CountAfterDelay(t) \/ Admit(t) \/ Begin(t) \/ Load(t)
        \/ Edit(t) \/ Flush(t) \/ Prepare(t) \/ BindMaterial(t) \/ AttachFails(t)
        \/ AttachFile(t) \/ Export(t) \/ KeepSession(t) \/ AskCleanup(t) \/ StartCleanup(t)
        \/ Purged(t) \/ PurgeFails(t)
        \/ CommitHead(t) \/ HeadFails(t) \/ RejectHead(t) \/ Vanish(t)
    \/ \E t, u \in Tabs : Answer(t, u)
    \/ LatePurge \/ RollBack

Spec == Init /\ [][Next]_vars
=============================================================================
