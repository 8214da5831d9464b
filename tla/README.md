# Verification of KirinukiHelper

KirinukiHelper cuts clips out of long VODs. A browser page (the *studio*) marks
ranges and edits them; a local *media engine* downloads the ranges, keeps them
in a cache and serves them to the page; a desktop shell starts the engine and
keeps it running. This directory holds TLA+ specifications of the parts where
order, failure and shared state decide whether the program is correct, TLC
configurations that check them on small instances, and proofs checked by TLAPS.

Contents: the inventory, the plan, the systems modelled so far (the VOD job
manager, the lease of a materialization, the editing sessions, the export with its
cleanup, the recovery of the local engine), what each run checks, the proofs, the
findings, and what is left out.

## Inventory

"Status" says what this directory has for a part; the reasons for leaving parts
out are in `PROJECT.json`.

| Part | State it keeps | Operations | Interacts with | What is hard | Status |
|---|---|---|---|---|---|
| VOD job manager, `scripts/chzzk-vod-job-manager.ts` | map of job records, FIFO, slot counter, observer leases, timers, purge flags and operations, tombstones, quarantine chain | create, get, list, renew lease, cancel, acquire media, status, purge one, purge a session, close | runners (materializers), HTTP gateway, cache directory | runners that outlive their cancellation, awaits between check and use, timers, purge against readers and runners, engine death | modelled |
| Materializers, `scripts/chzzk-vod-materializer.ts`, `external-vod-*.ts` | lease row, staging directory, published file | resolve, download, remux, verify, publish | job manager, file system, ffmpeg | two writers of one directory, crash between rename and record | CHZZK: lease and publication modelled; `external-vod-*.ts` not |
| Job lease heartbeat, `scripts/chzzk-job-lease-heartbeat-worker-source.ts` | one SQLite row, a deadline | renew with owner and revision, fail closed | materializer | a stalled worker whose lease is stolen while it still writes | modelled |
| HTTP gateway, `scripts/caption-gateway.ts` | sessions, requests in flight | authenticate, route, drain | job manager, caption core | drain at shutdown | planned, after the rest |
| Project store, `editor/project-store.ts` | IndexedDB: projects, drafts, session checkpoints, images, preview caches, media handles | save, save/restore draft, begin/commit/discard checkpoint, delete | editor, start page, other tabs | several tabs, rollback, trimming, one transaction over five stores | partly modelled |
| Editor, `editor/main.ts` | project in memory, write queue with generations, exit state | open, edit, save, restore, leave, export | store, session runtime | asynchronous writes against edits, exits, page life cycle | partly modelled |
| Web editor session runtime, `editor/studio-runtime-web.ts` | tab session, Web Locks | begin session, verify gate, writer lease or count of the editors, exclusive access | start page, editor | tabs that die, lease taken between two checks, tabs that count each other | partly modelled |
| Start page, `web/main.ts` | list of projects, cleanup queue, opening flag | refresh and roll back, open, delete one, delete all | store, session runtime | a rollback that overtakes an editor, cleanup against entry | partly modelled |
| Serial operation gates, `lib/serial-operation-gate.ts` | generation, latest ticket, trailing request | enqueue, advance, supersede | editor, start page | stale tickets, lost trailing runs | generation queue modelled inside the editor and the export; the rest planned |
| Editor hand-off broker, `lib/editor-handoff.ts` | pending hand-offs, tombstones | publish, claim, acknowledge, cancel | desktop shell, studio | claims retried or duplicated, expiry | planned |
| Pending VOD hand-off, `web/pending-vod-editor-handoff.ts` | one durable envelope per owner tab | save, resume, clear | start page, job client | reload between request and answer | planned |
| VOD job client, `editor/chzzk-vod-client.ts` | one job, poll timer | start, poll, cancel, retry | gateway | lost answers, retry of what was done | planned |
| Runtime supervisor, `desktop/runtime-supervisor.ts` | current and retiring engine, failure counter, circuit | start, monitor, recover, stop | HTTP gateway, desktop shell | a failure during a restart, a shutdown that is rejected, an outage that lasts | recovery modelled |
| Development runner lock, `scripts/dev-runner-lock.ts` | listener, lock file | own, borrow, release | development runners | owner dies while borrowed | planned |
| Local VOD runtime, `scripts/local-vod-runtime.ts` | PID file, mutation lock | start, stop, status | processes | concurrent start and stop, reused PIDs | planned |
| Streaming bridge, `web/streaming-bridge-*.ts` | pending requests | request, retry, answer | content script | duplicated delivery | planned, later |
| Editor core model, `lib/editor-core.ts` | none: functions on a project | timeline mapping, trims, clips | editor | boundaries and rounding | planned as algorithms |
| Clock proofs, `scripts/external-vod-clock-*.ts` | none | numeric evidence about time stamps | materializers | rounding | planned, later |
| Media engine in the browser, desktop platform code, captions, AudSeg, servers, texts, packaging | | | | rendering, cryptography, signal processing, straight-line I/O | not modelled |

What makes the main parts correct, in one sentence each:

- **Job manager**: a purge never removes what somebody reads or still writes,
  slots and limits are exact whatever order things end in, nothing is left busy.
- **Editing sessions**: what the user last saved survives everything, nothing
  older overwrites something newer, and leaving does what was chosen.
- **Materializer and heartbeat**: one writer per directory; a published file is
  complete.
- **Hand-offs**: a cut reaches one editor, once.
- **Supervisor**: a crashed engine is restarted or reported, never forgotten.

## Plan

Order of work; a line says what is composed with what and what is to be shown.

1. `VodJobManager`, `VodJobProperties`, `CacheScope` (abstract cache directory),
   `VodJobProofs` (the purge of a session), `VodQueueProofs` (queue, slots, limits),
   `VodAccountProofs` (counters, quarantine, the refinement): done.
2. `EditingSession`, `EditingProperties`, `SavedWork` (abstract edit): done.
3. `EditingProofs`: that the last explicit save survives, exits, the drafts, the
   order of writes, and the refinement of `SavedWork`, for any number of tabs,
   projects, drafts and queued writes: done.
4. `JobLease`, `JobLeaseProperties`, `ExclusiveLease` (abstract lease),
   `JobLeaseProofs`: heartbeat thread, takeover and publication, and the refinement
   of `ExclusiveLease` for any number of jobs and any lease; `PublicationProofs`: what
   jobs find and leave in the directory: done.
5. `ExportCleanup`, `ExportCleanupProperties`, `ExportCleanupProofs`: export, staged
   cleanup, startup recovery and the tabs without Web Locks: done.
6. `RuntimeRecovery`, `RuntimeRecoveryProperties`, `RuntimeRecoveryProofs`: restart
   budget and circuit: done, with finding 3.
7. `EditorHandoff`: broker with lost, repeated and late calls: at most one claim
   takes effect; composed with `PendingHandoff` of the start page.
8. `CleanupGate`: latest-wins queue and coalesced operation
   (`serial-operation-gate.ts:129-326`): a request is never lost, a mandatory
   pass is never overtaken. Refines "at least one pass after the last request".
9. `DevRunnerLock`, `LocalVodRuntime`: ownership of a process slot.
10. `VodJobClient` composed with the abstract job of `VodJobManager`.
11. Archive import and image blobs in `EditingSession`; timeline mapping and trims
    as functions, against a reference definition.

Every invariant and action property that a passing run checks is a theorem by now.
Worth proving next: for the modules of items 7 to 10 that each implements its abstract
specification; and, once finding 2 is repaired, `StatusIsTruthful` and
`DurableOnlyAdvances` with restores.

The project keeps its number of checked properties small; a shallower one is
given up for a deeper one as parts are added.


## The VOD job manager

Modules: `VodJobManager` (the specification), `VodJobProperties` (what must
hold), `CacheScope` (the abstract cache directory), `VodJobProofs`,
`VodQueueProofs` and `VodAccountProofs` (what is proved),
`MCVodJobManager` (values for TLC).

### How the model corresponds to the code

The engine is one thread. An action is what runs between two awaits; a handler
that awaits is several actions, and the promise it waits for is a field of the
state. Most handlers begin with `evictExpired`, so they work on `KeptJobs`,
`KeptRecords` and `KeptQueue`, which are what eviction leaves.

| Model | Code |
|---|---|
| `jobs`, `job` | `#jobs`, and the record objects. The code compares records by identity (`jobs.get(id) === job`), so a record is an object of a small heap, and `Collected` is the garbage collector |
| `queue` | `#queue`: the place of a record in the FIFO, 0 outside |
| `runningJobs`, `closing` | the fields of these names |
| `scopeOp` | `#consumerPurgeOperations`, with how far the asynchronous function has come |
| `purgeOperation` of a record | `#purgeOperations`, likewise |
| `quarantineTail` | the promise chain of quarantine operations; its head is running |
| `file`, `quarantined` | what is on disk; the only state that survives `Restart` |
| `reader` | media and status requests: waiting for the verification, checked again, reading, released |
| `purgeTombstones`, `consumerPurgeTombstones` | the maps of these names |

State "running" stands for the stages from resolving to muxing, which the
manager treats alike. A runner is abstract: it may publish its file at any
moment before it settles, cancelled or not, and settles with success only after
publishing. Clocks are the events the code tells apart: a lease that has lapsed, a
record or tombstone that has outlived its lifetime, a timer that fires. Which
terminal record is the oldest is a free choice.

The heap may run out of objects (`Objs`); then `Create` is not possible in the
model although it is in the program. Deadlock checking is off for this module
because the engine really can come to a stop: closed, drained, with no client.

`AgingIds`, `PurgeIds` and `ScopePurgeIds` bound which requests outlive their
records, are purged, or purge their session. They keep a run small and do not
change what an action does.

Observations made while modelling, none of them a finding: a refused `create` may
already have evicted a record and both tombstones (`CreateRefused`); a failed record
with reads still open can be replaced by a retry, and then a scope purge no longer
waits for those reads, which is why reads count for `CacheScope` only on current
records; a single purge that fails may have removed its file already
(`PurgeUnlinkFails`: the descriptor is examined once more after the removal);
`close` waits for the runners and the quarantine chain and not for single purges.

### Runs

| Run | What it shows | Instance |
|---|---|---|
| `jobs_lifecycle` | limits are met and used, work nobody observes stops, paths stay disjoint, a cancellation is final | three requests of two sessions, two of them on one file, one slot, a queue of one, one observer, a map of two |
| `jobs_queues` | the queue has the waiting jobs and starts them in order; quarantine operations do not overlap, each waits in the chain once, and they leave at most one tree per session behind | three jobs of two sessions, one slot, a queue of two, both sessions purge |
| `jobs_purge` | neither purge overtakes a reader or a runner; flags, counters and tombstones are exact (`AccountsAreExact`); a live or observed job, and a record under a read, verification or purge, stays (`ActiveRecordsStay`); the manager implements `CacheScope` | two requests of one session with one file, one reader, one observer, both purges, ageing records |
| `jobs_liveness` | jobs, purges, scope purges and the shutdown end | two requests, one reader, both purges |
| `jobs_shared_unlink` | finding 1 | as `jobs_purge`, the other request is a preview |

The bounds are the smallest at which the cases meet: two requests that share a
slot, a file and a session are enough for one to be overtaken by the other; three
for an order in the queue and for one session to act between two steps of
another; a file of its own for each request in `jobs_queues`, so that both sessions
can complete and purge; three heap objects let a cancelled record and its replacement be alive at
once beside a third. `RecordLimit` 2 and `QueueLimit` 1 are reached in the runs.

**Fairness** (`FairSpec`, in `jobs_liveness` only): timers fire, verification and
file system calls return, and a runner *that has been aborted* settles. The last
one is what a runner's `signal` is for; one that has not been aborted may run for
ever, and then the execution deadline must end it. Clients, readers and observers
are not fair. Both requests of this instance are of one session, so what a scope purge
waits for in the quarantine chain is the operation that the start of the engine has
queued; two sessions in one chain are in `jobs_queues`, for safety alone.

**Refinement.** `CacheScope` knows who writes into and who reads from the directory
of a session, its files, and whether it is being removed. The mapping: the
unsettled runners of a session write, current records with reads are read, a scope
is detached while its purge is in "removing". `ImplementsCacheScope` says that every
step of the manager is a step of that contract or none.

## The lease of a materialization

Modules: `JobLease` (the specification), `JobLeaseProperties`, `ExclusiveLease` (the
abstract lease), `JobLeaseProofs`, `PublicationProofs`, `MCJobLease`.

Calls of `materializeChzzkVod` for the same plan share a directory, whatever process
makes them. `JobLease` is the whole path of such a call: the reuse check before the
lock, `acquireJobLock` with its sixteen attempts, the heartbeat thread, the second
reuse check, the work, the two publishing renames with the `assertOwned` before each,
and `release`.

| Model | Code |
|---|---|
| `row` | the one row of `materialization_job_lease`: owner, revision, heartbeat |
| `synced` | the row as the last `FULL` commit left it; heartbeats commit with `synchronous = NORMAL`, so a power cut may go back to it |
| `writer` | the write lock of the database: only a beat holds it over several steps (begin, stamp, commit) |
| `job[j]` | where a call is, the row it judges (`observed`), the clock reading its next write carries (`stamp`), `lockLease.failure`; `asserted` is history: the beat its last assertion accepted |
| `thread[j]` | the worker: waiting, in a transaction, after reading the clock, failed; what it believes of the row |
| `artifact`, `manifest` | whose file each path names; a name stands for the digest |
| `clock`, `process`, `reboots` | the boot clock in ticks, dead processes, reboots |
| `late` | history: some rename came after the window that had been asserted for it |

- Between reading the clock and the statement that carries it any time may pass
  (`stamp` is taken one action earlier). A beat begins before its deadline, but may
  commit at any time later; then the thread fails, as in the code.
- `JudgeActive` is possible for a dead owner too: its process number may have been
  given to another. `JudgeInactive` needs an expired lease or a dead owner.
- A dead process loses its transaction; renamed files stay, because the directory is
  synced after each rename.
- The thread's message about its failure arrives at any later moment
  (`NoticeFailure`), and any step of the work may fail.

**Run** `lease_takeover`: two jobs in two processes, a lease of three ticks with a
margin of one, two attempts, four ticks and a reboot. Two jobs are enough for a
takeover, and a third would only take over again; the clock passes one lease and goes on,
so a beat can be late by more than the margin; after a reboot the old row is in the
future. The run shows that an assertion covers the window of the beat it saw
(`AssertionHoldsForTheLease`), that a reported result stays on disk as a matching pair
(`FinishedWorkStays`), that a torn pair is never what a successful job leaves
(`TornPairIsUnfinished`), and that the whole implements `ExclusiveLease`; it also
checks the inductive invariant that the proofs use (`PublicationInvariant`, which
contains `LeaseInvariant`). The two
properties about files except renames after the window (`late`): between
`assertOwned` and `rename` there is an await, and the code accepts that a process
suspended there may overwrite a successor's file, whose digest check then fails
closed.

## Editing sessions

Modules: `EditingSession`, `EditingProperties`, `SavedWork` (the abstract edit),
`EditingProofs`, `MCEditing`.

### How the model corresponds to the code

Each tab shows a start page or an editor. What they share is the IndexedDB
(`stored`, `drafts`, `checkpoint`) and the Web Locks (`lock`). A transaction is one
step, because IndexedDB commits or aborts it as a whole; a transaction that aborts
is an action of its own. When a tab goes away its locks are released and its
unfinished transactions have no effect. These two facts about the browser are
assumptions; they are the only ones.

| Model | Code |
|---|---|
| `doc[t].at` | how far the page is: start page, `gate` (writer lease), `begin` (checkpoint), `load`, `entering` (first save), `open`, `failed`, `left` |
| `mem` | `project` in memory; a version number that stands for its content |
| `queue`, `running` | `projectWriteQueue`, and whether its head has passed the generation check. A write is marked stale when the generation is advanced |
| `saveFailed`, `drafting`, `drafted`, `completed`, `final` | `currentProjectSaveFailed`, `localDraftOperationActive`, `lastLocalDraftMutationRevision`, `editorSessionCompleted`, `finalProject` |
| `exit` | where `finishEditingSession` is |
| `todo`, `target` | the checkpoints a start page has listed and has yet to look at; the project it opens afterwards |
| `session[t]` | what `sessionStorage` of the tab says; survives a reload |
| `explicit` | history: the version the user last saved, or the one there was |

- An edit and the microtask that saves its snapshot are one step: nothing can come
  between them but another edit, which the snapshot would include.
- The exit is a modal dialog, so edits are possible only outside it (`Editable`);
  `flushSave` on a hidden page is not so restricted, and neither is it in the model.
- `Restore` keeps edits out until it ends, and what a restore brings is counted as a
  new version, so that going back in the list of drafts is not mistaken for a late
  write.
- Draft ids are random in the code; the model takes an unused number. The order of
  two drafts with the same time therefore means nothing. `Times` is a set of clock
  readings, and each draft picks any of them: the clock may be set back.
- Promotion of an explicit draft to the project when the baseline has none
  (`RolledBackProject`) is kept because the code has it; a checkpoint whose baseline
  is advanced has a project, so only one written by an earlier version needs it.
- The case "checkpoint is gone or another's" of both exits is not an action:
  `OpenEditorOwnsItsCheckpoint` shows that no exit meets it.

### Runs

| Run | What it shows | Instance |
|---|---|---|
| `edit_sessions` | the last save survives, the checkpoint is the editor's own, the status is true, writes do not go back, exits keep their choice, refinement of `SavedWork`, and the inductive invariant of the writes | two tabs, one project, two editor sessions, two versions, two queued writes |
| `edit_drafts` | trimming, baseline and restore, with the inductive invariant of the drafts | one tab, clock readings 1 and 2, one manual and two temporary drafts, three versions |
| `edit_liveness` | an exit ends, a cleaning pass ends | two tabs, one session, one version, two queued writes |
| `edit_replaced_work` | finding 2 | as `edit_drafts`, smaller |

Projects share nothing but the list a start page walks through and the locks that
are per project, so one project is enough where two tabs compete for it; two
sessions let an editor enter after another's crash; two versions tell what was
saved from what is on disk and on the screen; two queued writes let one be
overtaken. The draft lists are full with one manual and two temporary drafts. The
proofs below do not depend on any of these bounds.

**Fairness** (`FairSpec`): a document that stays open goes on with its own tasks:
the cleaning pass, the write queue, the steps of an exit. Transactions end, with
success or not. Users are not fair, and a tab may be closed at any moment.
`ExitEnds` excepts a page that is hidden again and again: each time a save is
queued, and the exit waits for an empty queue.

**Refinement.** In `SavedWork` a project has one saved version; an edit that is
under way changes the current version, saves it, or ends with what was saved. The
mapping takes as saved what a rollback of the checkpoint on disk would bring back.

## Export and cleanup

Modules: `ExportCleanup`, `ExportCleanupProperties`, `ExportCleanupProofs`,
`MCExportCleanup`.

An export may end the edit: the editor saves, renders, verifies the files and then
deletes its session. The VOD material lives in the engine and the records in
IndexedDB, so the deletion has stages, under a marker that is saved with the project:
`purge-intent`, the purge by the engine, `vod-purged`, one transaction over all
records. A startup (`reconcileInterruptedSessionCleanup`) finishes or takes back what
it finds. All this needs one editor per project, so the module has the admission too,
with Web Locks or, in browsers without them, by a count: a tab publishes its project,
waits 40 ms, broadcasts a ping and counts the pongs of the next 80 ms.

| Model | Code |
|---|---|
| `page[t]` | the document: where its one flow is (admission, startup, editing, export, cleanup), `project` in memory, its write queue with what is stale |
| `disk`, `checkpoint` | the project's record with its marker, and the row of the editing session; drafts and blobs go in the same transactions |
| `published`, `asked`, `heard` | `webEditorProjectId` of each tab, pings not handled yet, pongs counted |
| `missed` | history: a count has ended and let its tab in although a tab that has the project had not answered |
| `material`, `late` | whether the engine has the session's material; a purge the engine may still run for a page that has given up or died |
| `session` | `sessionStorage`; a tab that is reloaded keeps it |
| `exported`, `again` | history: the version of the last verified export; material prepared again over a `vod-purged` record, as long as that record is on disk |

- The generation-bound queue is modelled with its generations: `Advanced` makes what
  has not started stale. Whether the write behind the committed one has started when
  the flow advances the generation is a choice (`running`).
- A write fails after its own retry or three of `retrySessionCleanupStoreOperation`;
  a retry goes to the end of the queue, behind what has been enqueued meanwhile.
- A count ends with its timer, whoever has answered (`CountEnds`); a pong that comes
  later is not counted. A page that is suspended or busy for longer than the timer is
  missed, and then nothing keeps a tab and its duplicate apart: they have the same
  editor session, so the owner of the checkpoint is no guard either. This is what the
  code does, and the model does it. The properties say what holds until it happens:
  `AdmissionIsSure` is Web Locks, or no count that has missed an editor.
- `Navigate` gives a tab a new editor session, the one it had (a reload), or a copy of
  another tab's (a duplicate).
- An attachment that fails (`AttachFails`) leaves the material with the engine and the
  session without a binding; a file of the user (`AttachFile`) replaces the binding and
  leaves the material too.
- A marker whose identity does not match its binding cannot be saved by the editor
  itself and is not modelled.

**Run** `edit_export`: two tabs, with and without Web Locks, three editor sessions,
three versions of the project (the first and two edits), two queued writes. Two tabs
compete for admission and one disturbs the other's cleanup; three sessions let a second
crash follow the first; two queued writes let a hidden page's snapshot lie behind a
step of the cleanup. The run explores what can be reached while `AdmissionIsSure` (its
`CONSTRAINT`; `webLocks` never changes and `missed` stays, so nothing is claimed of what
is cut off): 1 545 508 states. It shows that two tabs never edit at once (`OneEditor`),
that records are deleted only when the export holds the last version on disk and on
screen (`OnlyExportedWorkIsDeleted`), that those of a session which names its material
are deleted only after the engine has dropped it (`BoundMaterialIsPurged`), and that a
deleted session stays so (`DeletedForGood`); and it checks the inductive invariant of
their proofs (`CleanupInvariant`).

Four observations, which the properties name as their exceptions:

- A session that names no material when it is exported is deleted without a purge
  (`editor/main.ts:18169`). After an attachment that failed, or a file that replaced the
  material, its material then stays in the engine's cache until it ages out.
- If the deletion fails after a durable `vod-purged`, the editor opens again and may
  prepare material; a crash before the next save leaves the old marker, and the next
  startup deletes the records while the new material stays in the cache until it ages
  out. `again` is true from there to the next save of that record.
- A page hidden while its own startup deletes a `vod-purged` session enqueues a save
  of the record it had loaded, behind the deletion and in the same generation. The
  marked project comes back and is deleted by the next startup.
- If a start page rolls the checkpoint back after a crash in a cleanup, the exported
  project returns without its marker, and the cleanup is not resumed as the comment at
  `editor/main.ts:18259` expects. Nothing is lost: the user may delete it.

## Recovery of the local engine

Modules: `RuntimeRecovery`, `RuntimeRecoveryProperties`, `RuntimeRecoveryProofs`.

The desktop shell runs one engine in its own process. When its server fails,
`createDesktopRuntimeRecoveryController` retires it, waits 250, 1000 or 4000 ms and
starts another; after three retries the circuit opens and the shell ends. `gateway` and
`retirement` are `currentGateway` and `retiringGateway`; `task` is what `recoveryTask`
awaits; `stopping` is how far `stop` has come; `terminal` is `terminalFailure`. Promise
callbacks that follow one another without waiting for the outside are one step. Of time
the model keeps what the code asks: `stable` says that `stableResetMs` have passed since
`healthySince`; it becomes true at any moment and false only where `healthySince` is
assigned. A retirement settles or is rejected (the gateway's shutdown has a deadline); a
rejected one is kept for ever.

**Run** `desktop_recovery` (finding 3): three retries, as in the code. Under fairness of
the timers, of the shutdown's deadline, of listening and of the shell's answer to
`terminalFailure`, an outage should end in an open circuit or a stop; it does not. TLC's
trace is short: the engine fails, `stableResetMs` have passed since it was healthy, its
retirement is rejected, and from there nothing changes, as every round of the recovery
meets the same rejection and resets the counter.

What does hold is proved for any number of retries: one engine at a time, none after
the end, and no restart that `restartGateway` would refuse.

## Proofs

TLAPS checks every theorem below for all values of the constants that satisfy the
named assumptions, which only fix types and the order of limits:

| Assumption | Module | Says |
|---|---|---|
| `IdsAssumption`, `OwnershipAssumption` | `VodJobManager` | finitely many record objects; a request belongs to one session and one file, a file to one session |
| `LimitAssumption`, `BoundAssumption` | `VodJobManager` | one to four slots, a map at least that large, a queue no larger than the map; the bounding sets are sets of requests |
| `LeaseAssumption`, `RowAssumption` | `JobLease` | a margin no larger than the lease, bounds are naturals, every job has a process; `None` is neither a job nor a row |
| `LimitAssumption`, `NoneAssumption` | `EditingSession` | draft limits are positive, bounds are naturals, clock readings are integers; `None` is nothing else |
| `LimitAssumption`, `NoneAssumption` | `ExportCleanup` | bounds are naturals, with at least one session and one queued write; `None` is nothing else |

Three hypotheses are stated by the theorems that need them:

- `ManagerImplementsCacheScope` assumes `RunnersPublishAtHome`: the file of a request
  lies in the directory of the request's session. The manager's own code does not say
  so; the runner it is given does, as both names come from the same `consumerId`
  (`consumerScopeHash` in `scripts/chzzk-vod-materializer.ts:4730`). Without it the
  theorem is false: a purge would look for writers of one session and remove the
  directory of another. The instance of `jobs_purge` satisfies it.
- `RestoresCanBeUndone` assumes `TemporaryLimit >= 2`. With one temporary draft the
  replaced state and a chosen temporary draft cannot both stay. The code keeps five
  (`editor/project-store.ts:18`), the instance two.
- `WriteInvariantHolds`, `StatusStaysTruthful` and `DurableStateOnlyAdvances` assume
  `~Restores`, that no draft is restored: otherwise they are false, by finding 2.

### VodJobProofs

| Theorem | States |
|---|---|
| `InvariantHolds` | `ScopePurgeInvariant` |
| `TypeCorrect` | `TypeOK` |
| `RunnersStayCurrent` | `LiveRunnersAreCurrent`: a runner that has not settled belongs to a record of the map |
| `PurgedScopeIsQuiescent` | `ScopeIsQuiescent`: once a purge of a session has seen its runners stop none writes, and once its reads have drained none is open, until it is over |

`ScopeIsQuiescent` is not inductive. That nobody starts to write after the purge has
looked needs `ScopeIsHeld` (all records of the session are terminal, marked busy, and
kept by the map), and with it `MapIsConsistent` (an object is in the map under its
own id, so that replacing one record cannot lose another), `LiveRunnersAreCurrent`
(a runner cannot hide outside the map), `QueueHoldsQueued` (starting the queue wakes
no terminal record) and `RecordIsConsistent` (which fields a state allows). Most
handlers evict before they act, so the lemmas take map, heap and queue as values
and are applied to what eviction leaves: first that eviction preserves `Good`, then
each handler on top of it.

### VodQueueProofs

| Theorem | States |
|---|---|
| `QueueInvariantHolds` | `QueueInvariant` = `ScopePurgeInvariant`, `Line`, `LimitsAreExact` |
| `QueueStaysExact` | `QueueIsExact` |
| `LimitsStayExact` | `LimitsAreExact`: slots, waiting jobs, sizes |
| `JobsStartInOrder` | `StartsInOrder`, an action property |

The places of a queue are `Packed` when they are 1 to n. Most handlers only take
records out (`Thins`): eviction, cancellation and the deadline compact the queue,
which keeps the order and closes the gaps (`CompactIsPacked`). Two let something in or
start something: `Create`, which joins at the end after the evictions of its first
lines, and `RunnerSettles`, which frees a slot and starts the head
(`StartingIsOrderly`: as many records start as slots are free and jobs wait, and
exactly the first ones). The handlers that only take records out wake nobody, so
`NoSlotIsWasted` needs that none of them frees a slot either: a cancelled job keeps its
slot until its runner settles. The counting rests on
the library's theorems about cardinalities; the heap is finite by `IdsAssumption`.

### VodAccountProofs

| Theorem | States |
|---|---|
| `AccountInvariantHolds` | `AccountInvariant` = `ScopePurgeInvariant`, `Exact`, `ReadsCounted`, `TombstonesMeanGone`, `QuarantineIsSound` |
| `PurgesDecideByTheTruth` | `AccountsAreExact`: what purges decide by is true |
| `PathsAreDisjoint` | `CompletedPathsAreDisjoint` |
| `OnlyEditorJobsDetach` | `UnobservedWorkIsPersistent` |
| `QuarantineStaysSound` | `QuarantineIsSound` |
| `FirstCancellationWins` | `CancellationIsFinal`, an action property |
| `WorkInProgressStays` | `ActiveRecordsStay`, an action property: a live job stays in the map until the leases of all its observers have lapsed, and a record that is over stays while it is stopped, read, verified or purged; a purge removes it, and a failed one is replaced by a retry |
| `ManagerImplementsCacheScope` | `ImplementsCacheScope`, the refinement |

`Exact` is what the properties say of map, heap and purges, with the map, the heap and
the descriptors as values, because handlers evict first: `Conserves` says what eviction,
cancellation and timers leave alone, and whatever conserves keeps `Exact`. A record
under a purge is never dropped (`PurgesPinRecords`), which is why its flags can be
cleared by the purge that set them. That paths stay disjoint rests on the check of the
settlement, as nothing else completes a record or gives one another path. Reads are counted by
`ReadIsCounted` and `ReadIsUncounted`, one reader at a time; the invariant adds that
the readers of a record are finitely many, as there is no bound on `Readers`.
`TombstonesMeanGone` needs that `Create` forgets both tombstones of its id, and
that whatever writes a tombstone drops the record. For the quarantine, the chain is an order without repetitions, and a
session stays in it from the moment it queues to its end (`OrderedMeansSound`). The
refinement sorts the actions into those that only let users come and go and the four
that write a file, unlink one, detach a directory or give it back.

### EditingProofs

| Theorem | States |
|---|---|
| `EditingInvariantHolds` | `EditingInvariant` |
| `EditingTypes` | `TypeOK` |
| `OpenEditorsOwnTheirCheckpoints` | `OpenEditorOwnsItsCheckpoint` |
| `SavedWorkSurvives` | `LastSaveSurvives`: a rollback brings back what the user last saved |
| `ExitsKeepTheirChoice` | `ExitKeepsItsChoice`, an action property |
| `EditingImplementsSavedWork` | `ImplementsSavedWork`, the refinement |
| `DraftInvariantHolds` | `DraftInvariant` |
| `LastSavesAreListed` | `LastSaveIsListed`: trimming never removes the draft of the last save |
| `BaselinesTrackSavedDrafts` | `BaselineTracksSavedDrafts` |
| `RestoresCanBeUndone` | `RestoreCanBeUndone`, an action property, for `TemporaryLimit >= 2` |
| `WriteInvariantHolds` | `WriteInvariant`, without restores |
| `StatusStaysTruthful` | `StatusIsTruthful`, without restores |
| `DurableStateOnlyAdvances` | `DurableOnlyAdvances`, an action property, without restores |

`LastSaveSurvives` speaks of what a rollback would compute. The invariant replaces
that by two facts (`SavedWorkIsKept`): the baseline of the checkpoint is the last
save, and it holds every explicit draft, so a rollback promotes none
(`RollbackKeepsBaseline`). To keep them, a step of one tab must not touch the
checkpoint another editor relies on, so the invariant says who holds which lease
and which checkpoint (`DocumentIsCovered`). The hard case is a document that has
left: its queue may still have writes, and one is harmless only because it is a
snapshot of exactly the committed state. That needs, backwards through the exit,
that nothing but snapshots of the state in memory is queued once the last save is
done, that at most one write of another kind is ever queued, and only where it
belongs (`DocumentIsConsistent`); and, for the refinement, that the sealing draft
has already made that state the saved one.

The argument: `Assemble` shows that a step that changes the document of one tab,
and of the rest only projects whose lease is free or that tab's (`Frame`), keeps
what the other tabs rely on. Each action then has a lemma about its own document and
project only. The refinement rests on `SavedNowIsExplicit`, which turns the mapped
variable into the history variable; `AbstractSteps` restates the abstract actions
in its terms, and each action that changes the store is shown to be one of them.

*Drafts.* Trimming keeps the newest of each kind and the draft that is protected. On
drafts with different ids "before" is a strict order whatever the clock says
(`BeforeIsAnOrder`), so what it keeps fits the limit (`NewestIsLimited`) and a list
that fits is left alone (`NothingToTrim`). `LastSaveIsListed` is not inductive: a later
save, or a restore's own draft, could push the last save out. It is protected there,
and the invariant says that lists fit (`DraftsFit`), that the baseline has the
explicit drafts of the list, and that a queued restore has its draft and replaces what
is on the screen (`RestoreIsPending`), because the draft is chosen when the user asks
for it and put back when the transaction runs, with other writes in between.

*Order of writes.* `StatusIsTruthful` speaks of an empty queue; what empties it are
commits, so the invariant says of every queue that it is in the order of what it
writes, that the last snapshot is what the screen shows, and that the disk is not
newer than any of it (`WriteInvariant`). `Written` says this of one document as a
value, with a lemma for each thing that happens to a queue: a write joins it
(`EnqueuedIsWritten`), its head is committed (`PoppedIsWritten`), the page is left
(`LeftIsWritten`). No other tab disturbs this, because what a step changes on disk is
of a project whose lease is free or its own (`WritesOfOneTab`).

### JobLeaseProofs

| Theorem | States |
|---|---|
| `LeaseInvariantHolds` | `LeaseInvariant` |
| `AssertionHolds` | `AssertionHoldsForTheLease`: who has asserted its lease owns the row for the window of the beat it saw |
| `LeaseImplemented` | `ImplementsExclusiveLease`, the refinement |

They hold for any number of jobs and processes, whatever the lease and the margin are.
The margin does not matter for safety: it decides whether a thread has time for its
next beat, not who owns the row.

`AssertionHoldsForTheLease` is not inductive. Only a swap can take the row from an
owner that lives, and what it knows is old: it read the row, awaited the process
table and the clock, and compares owner and revision when it writes. That this is
enough needs three things. A judgement stays true (`Judged`): the owner was past its
window or dead, and if the row still has its revision it still has its beat, because
each beat raises the revision and no job acquires twice (`Had`). A beat that commits
late renews a row that is still its own, because the write lock was taken before it
was read (`TransactionsAgree`), and it never lowers the heartbeat, so an assertion
made against the earlier one keeps its window (`AssertionsAgree`). And a row of a
living owner is not of the future, so an age that is negative can only come from
before a reboot, where the owner is dead; what a power cut takes back is a beat and
never an owner (`RowAgrees`).

The argument: most steps move one job and leave row and threads alone (`Moves`,
`JobStep`); the insert and the swap are one lemma (`Takes`), and so is each action of
the thread, of the release and of the environment. `JudgementStays` says what a change
of the row may be without refuting what other jobs have concluded (`Onward`): it is
deleted, renewed, or given to a job that never had it. `StepsOfAJob` sorts the
actions, and serves the invariant and the refinement alike.

### PublicationProofs

| Theorem | States |
|---|---|
| `PublicationInvariantHolds` | `PublicationInvariant` |
| `FinishedWorkIsKept` | `FinishedWorkStays`: what a caller was told is done stays as a matching pair |
| `TornPairsAreUnfinished` | `TornPairIsUnfinished` |

That a matching pair stays needs that a job which replaces one found that it did not
match, and that nothing has changed since. It looked while it owned the row, and the
row is what keeps others away: so the invariant says of each job what it knows while
the row is its own (`WorkAgrees`), and `LeaseInvariant` that two jobs cannot both
rely on that. Before the lock a reuse check reads manifest and artifact at two
moments without owning anything; that the pair it saw is a pair needs that no digest
comes back once it was replaced (`SightingsAgree`, `FilesAgree`). `Fits` is all of this
for one job, so a step is shown for the job that moves (its own facts) and for the
others (files unchanged, or the row not theirs). `late` is the exception as in the run.

### ExportCleanupProofs

| Theorem | States |
|---|---|
| `CleanupInvariantHolds` | `CleanupInvariant` |
| `OneEditorAtATime` | `OneEditor` |
| `DeletedWorkIsExported` | `OnlyExportedWorkIsDeleted`, an action property |
| `BoundMaterialGoesFirst` | `BoundMaterialIsPurged`, an action property |
| `DeletionIsForGood` | `DeletedForGood`, an action property |

They hold for any number of tabs, versions, sessions and queued writes, with the
condition `AdmissionIsSure` where it stands in the property: `CleanupInvariant` is
`SureInvariant` until a count has missed an editor, and with Web Locks none does.

`OneEditor` is not inductive without Web Locks: a tab is let in because it counted
nobody, and a second one may ping meanwhile, be refused, or be reloaded. The invariant
(`AdmissionIsExclusive`) says that of two tabs that have pinged one is still counting
and will hear of the other: the ping is on its way, or the pong is counted. That the
code publishes its project before it waits and pings is what makes this true; that the
count has missed nobody is what `AdmissionIsSure` adds.

What is deleted is decided long before, by the exporting page or by one that died, so
the invariant says what a marker means wherever it is: on disk, in the checkpoint's
baseline, in memory and in every write that may still happen (`MarkIsTrue`). A marker
on disk must come from an export whose last version was the last there was: from the
barrier on nothing but that version is written (`BarrierHolds`, `WriteFits`), although
the page may be hidden, and so save, at any moment. A write that a generation has made
stale cannot happen; the others (`Live`) are shown to fit at every step of the flow.
`DeletionFacts` is the step that deletes, from the editor or from a startup alike.

### RuntimeRecoveryProofs

| Theorem | States |
|---|---|
| `RecoveryInvariantHolds` | `RecoveryInvariant` |
| `OneEngineAtATime` | `OneEngine`: nothing is published while an earlier engine retires or its retirement was rejected |
| `NoEngineAfterTheEnd` | `EndLeavesNoEngine`: neither an open circuit nor a finished stop leaves an engine, or a recovery that could start one |
| `RestartsAreAdmitted` | `RestartIsAdmitted` |

They need no assumption. `OneEngine` is not inductive: that a restart comes after a
retirement needs that every recovery has unpublished the engine and goes on only when
nothing is retiring; `EndLeavesNoEngine` needs that `stop` gets past the task it awaits
only when there is none. Their module has no run of its own: the invariants are proved
and only the property that fails is run.

### What is only model-checked

The liveness properties, which are out of the prover's reach with fairness and
`ENABLED`: `JobsFinish`, `PurgesEnd`, `ShutdownDrains`, `ExitEnds`, `CleanupEnds`. Every
invariant and every action property of a passing run is a theorem, with the
hypotheses named above. No theorem speaks of the three properties that the code does
not have (`UnlinksOnlyUnreadFiles`, `ReplacedWorkIsRejected`, `PersistentFailureEnds`);
TLC shows how each fails. Nothing proved is about the value of a recursive definition,
which would need induction over data.

## Findings

Each is a difference between what the repository says and what the code does, with a
run that TLC must find violated. The third is a defect; the first two are out of the
way of the shipped user interface or need a rare moment.

1. `jobs_shared_unlink` (`scripts/chzzk-vod-job-manager.ts:3057`). The purge of one
   job waits only for reads counted on its own record. The file's name does not
   depend on the continuation policy, so a persistent and a preview job of one
   session can have the same file, and purging one removes it under a read of the
   other. A test (`tests/chzzk-vod-job-manager.test.ts:1686`) says that a purge is
   refused during an active read. The application uses the purge of a whole
   session, which drains both.
2. `edit_replaced_work` (`editor/main.ts:2471`). A page that is hidden while a
   restore's transaction is in flight saves the replaced project under the new
   generation; it becomes CURRENT again, while the screen shows the restored one and
   says it is saved. The comment at `editor/main.ts:2303` says that such work is
   rejected. Archive import (`editor/main.ts:19398`) has the same shape and is
   not modelled yet.
3. `desktop_recovery` (`desktop/runtime-supervisor.ts:264`). `healthySince` is set at the
   start and by a restart that succeeds. Once an engine has been up for thirty seconds,
   each report of the same outage finds that old time stamp and resets
   `consecutiveFailures`, so the counter never exceeds 1: restarts that fail are repeated
   every 250 ms without end and the circuit never opens. The run shows the case in which
   it is the retirement that was rejected: no restart is tried, and the rounds are
   promise callbacks alone, without a timer between them.
   The comment at `desktop/runtime-supervisor.ts:154` promises no unbounded restart loop; the
   test of the circuit (`tests/desktop-runtime-supervisor.test.ts:84`) sets
   `stableResetMs` to ten minutes and so never meets the reset.

`edit_sessions` runs without restores for this reason: `StatusIsTruthful` would
fail there by finding 2.

## Not modelled

- **Within the modelled parts**: image blobs, preview caches and media handles of the
  project store (they follow the project in the same transactions and decide
  nothing); archive import; the gate token and the expiry of the usage policy;
  download, remuxing, the segment ledger and the storage budget of a materialization
  (one step that may fail); the endpoints of the gateway.
- **Planned parts**: see the plan.
- **Left out for good**: rendering and texts of the user interface, media decoding in
  the browser, audio alignment, desktop platform code, packaging and smoke tests.
  They are numerical, straight-line I/O or platform calls, with little order for a
  model checker to vary. `PROJECT.json` gives the reason for each.
