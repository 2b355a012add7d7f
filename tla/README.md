# A verification project for Librairii

Librairii is a local-first desktop library of story archives: a Rust program with a Slint window,
bundled SQLite, a managed folder of archives and a small scheduler that imports, exports and
refreshes metadata. This directory models the parts of it that are hard to test (threads,
acknowledgements that are lost, processes that die between two stores), checks them with TLC on
small instances and proves the most important results with TLAPS for every instance.

Paths are relative to the repository; crates are under `crates/`.

## 1. Inventory

| Component | State it keeps | Operations | What makes it hard |
| --- | --- | --- | --- |
| Lifecycle gate (`librairii-app/src/lifecycle.rs`) | phase, counts of guards and mutators, generation | `enter`, `begin_switch`, `begin_recovery`, `activated`, `restore_unchanged`, destructors | condition variable, two idle checks around a drain, racing switchers |
| Operation policy (`librairii-core/src/operations`) and repository (`librairii-storage/src/operations_repository`) | rows of `operations` and `operation_items` with counters | create, start, complete, finish, interrupt, cancel, recover | compare-and-set transitions, history that may never be rewritten |
| Native job session (`librairii-app/src/native_jobs`) | shared state behind one mutex, cancellation tokens, work queue, inflight set | window handle, coordinator thread, 1 to 8 worker threads | interleavings, retries with readback, escalation to interrupt, panics, shutdown |
| Story removal (`librairii-storage/src/removal.rs`, `platform/unix/removal.rs`) | story row, removal intent, place of the archive | remove, rollback, recovery at start | two stores, renames that are durable only once flushed, lost acknowledgements |
| Database runtime (`librairii-storage/src/database.rs`) | writer queue and reader queue, fences, owned result slots | transaction, repair, barrier read, stop, close | bounded queues, a thread that dies, results nobody waits for |
| Library session (`librairii-desktop/src/library.rs`, `artwork.rs`, `export_preparation.rs`) | the services of the open library, the Switch the window returned with | drive, open, move, close, recover, artwork and preview workers | an idle test over memory and rows, services that fail one by one, workers joined from the inside out |
| Relocation (`native/owned/relocation.rs`, `profile/relocation.rs`, start in `startup_flow.rs`) | move journal, profile, state records, two folders | copy, verify, publish, commit, clean, retry, resume, recover | a death or a power loss at every step, visible is not durable, files of other programs |
| Profile, native record, startup settings, locate (`profile*`, `native.rs`, `settings/*`) | control files and locks | bind, claim, close, hand over, locate | fences and uncertain publications |
| Imports (`librairii-storage/src/imports`, `platform/unix/import_source.rs`) | private containers, published archives and artwork, rows, custody | stage, publish, catalogue, compensate, settle, recover | two workers, two stores, files reused from a dead process, receipts without acknowledgement |
| Exports (`librairii-storage/src/export`, `platform/unix/export_output.rs`) | plans, reservations in the library record, workspaces, destination files | preview, start, copy, publish, settle, retire, recover | a destination outside the library that other programs use, a limited registry, retries that must recognise their own effect |
| Metadata refresh (`librairii-app/src/metadata`, `librairii-storage/src/metadata`, `artwork.rs`) | syncs, snapshots, artworks, retained effects | begin, fetch, stage, activate, fail, cache an artwork, recover | a second publisher under one custody, an activation that may not be denied, effects kept behind a fence |
| Shelves (`librairii-storage/src/shelves`, `shelves/tickets.rs`) | members, sources, exclusions, review tickets | create, curate, attach, review, apply, delete | previews on reader threads, tickets that are stale, evicted or expired, numbers given twice |
| Collections, tags, flags, query, browsing | rows | single-transaction edits, reads | little control |
| Migrations, backup, adoption, portability | files and ledgers | linear procedures | crash between steps |
| Adapters (archives, catalogue, thumbnails), window, diagnostics | none of interest | parsing, presentation, output | data rather than control |

How they interact: the window calls the gate to enter the current library, reads and edits through
the database runtime, and hands imports, exports and refreshes to the job session through its
handle. The session's coordinator and workers call the operation repository, whose writes are
transactions of the single writer thread, and the executors (imports, exports, metadata). A
removal runs on the window's command thread with the custody of the library, which imports, refreshes
and the artwork thread take for their publications. Every component that
sees an outcome it cannot know fences the database: ordinary work is refused and only repair and
read-back go through, until the next start recovers.

The list `hazards` of `PROJECT.json` names what can go wrong in that interplay, at its line.

## 2. Modules

| Module | Models |
| --- | --- |
| `LifecycleGate` | the gate; one action per critical section of the code |
| `OperationPolicy` | the states and the result of an operation, as the core policy defines them |
| `OperationRows` | the transactions of the repository, as operators on the rows |
| `OperationLog` | what the history of operations promises: the abstract specification |
| `JobSession` | the scheduler: handle, coordinator, workers, store faults, panics, restarts |
| `StoryRemoval` | removal of a story over the database and the file system |
| `WriterQueue` | the queues, owned results, fences and close of the database runtime |
| `Relocation` | a move of the whole library to another folder, and its recovery at the next start |
| `LibrarySession` | one open library after another behind the gate: extends `LifecycleGate` |
| `ShelfReview` | shelves, their sources and members, and the reviews a person confirms |
| `Imports` | the import of an archive by several workers, its compensation and its recovery |
| `Exports` | an export from its preview to the file in the user's folder, and its recovery |
| `MetadataRefresh` | the refresh of the official catalogue beside the artwork thread, and its recovery |
| `*Proofs` | theorems and proofs about the module of that name, those of the gate, the session and the shelves in `LibraryProofs`, those of the log in `JobSessionProofs` |
| `MC*` | instances for TLC |

Operators whose comment begins with "Variant" are plausible mistakes, used to show that the
properties notice them; no specification uses one.

### LifecycleGate

`phase`, `uses`, `mutators` and `generation` are the fields of `State`; `held` is the guard each
client thread owns and `pc` where each switching thread is in `begin_switch`. The mutex makes every
action one critical section. The condition variable is modelled by the points `drain` (about to
test the counter) and `wait` (blocked), and by `Notified`, which the guard's destructor applies:
a wakeup that is lost leaves a switcher in `wait` with nobody to move it. `operations_idle` is the
caller's closure and may answer either way, before and after the drain.

### OperationPolicy, OperationRows, OperationLog

`op` holds the state, the cancel flag and the counters of every operation, `item` the state of its
items. `Inspect` is the repository's comparison of a command with the rows (unapplied, applied,
conflict) and `Write` what it does when nothing has happened yet. `OperationLog` forgets counters and
commands and keeps what a reader of the history relies on: an item is reported once, an operation
ends once, with the result its items add up to, at most one metadata refresh is active.

### JobSession

`s` is the shared state of the session (ingress slot, admission answer, queue, inflight set,
cancel requests, stopping flag), `token` the cancellation tokens, `pc` the point of every thread,
`loc` the coordinator's locals, `cmd`, `try` the command a thread is persisting and its attempts.
Every store call may succeed, be refused, or be committed without its acknowledgement, within the
bound of faults; an executor may panic; the process may die and start again. The code between two
accesses to shared state is one action. Two pairs of accesses are merged into one action because
nothing can come between them: the exclusion snapshot and the read of `ready_to_finish` or
`next_pending` (only the coordinator adds to the inflight set, and workers only touch rows that are
excluded by it). Left out: progress snapshots for the window, which no decision reads, and the
failure to spawn a thread.

### StoryRemoval

`rows` and `intents` are the two tables, `place` where the archive of each story is, `onDisk` the set
of places in which a power loss may leave it: a rename adds a place, a flush of both directories
leaves one. `pc` is the point of `remove_with`, of `rollback` or of `recover_removals`. Commits are
durable (SQLite's default for the write-ahead log); a rename is atomic on disk.
### WriterQueue

One queue of the database with its threads: one worker makes it the writer, several the readers.
`entries`, `count`, `owned`, `open`, `stopping` are `QueueState`; `jobs` remembers every admitted job with
the two owners of its `Admission` (the executing closure and the `Pending`), its effect and its result
channel. A client waits for its `Pending`, drops it, or forgets it. `fenced` is the runtime's fence,
`doubt` the authority's, which outlives the runtime and forbids a clean closure. The panic of a job, the
drops it causes and the abort of the queue are one action: whatever is submitted in between is
discarded by the abort as if it had been submitted before. Left out: the poisoned mutex (no code panics
while holding it) and the start of the threads.

### Relocation

`tree`, `control`, `epoch` and `proof` are what is in the folder made for each root: managed files, state
record and lock, the record's epoch and its move proof; `place` is whether that folder is at its target
name, still under its private workspace name, or not there, and `mayBe` where a power loss may leave it.
`profile` is the root the profile names, `profiles` the roots it may name after a power loss, `residue`
a staged or displaced profile left in the namespace, `journal` the move journal (absent, torn, with the
intent, with the retirement receipt). `intent` and `att` are the fields of `Attempt`, `at` is the point of
`run`, `finish`, `cleanup_tree` or `recover_relocation`, `app` what the application does: it is open, moves,
holds a failure, starts, asks what to do with an interrupted move, recovers, or refuses to start. `truth` is
what the user last saw in the library; no code reads it. `loose` are the copied files that may be on no disk yet:
`copy_entry` leaves one when it, or its directory, is written and not flushed, because the flush failed or the process
died, and the next attempt accepts a whole file without flushing it. A power loss takes any of them, in part or
whole, and `damage` are the files of the library it took that way. Edits leave both as they are. The first flush, every write that can be torn and
every removal is an action of its own, so that a process can die (`Die`) or the power fail (`LosePower`)
between any two. The manifest covers contents and the epoch; directories, sizes and hashes are
abstracted to contents. A recorded file is removed durably (`remove_file_matching` flushes), a receipt
counts as durable once visible, as do removals of the journal and what other programs write, and cancelling is one of the ways a step before the commit can fail.
Other programs change or add files only in folders that are not the library. A library whose identity is gone is refused
(`Identified`); the code refuses one whose database is gone too, which the model may still open.

### LibrarySession

Every step is an action of the gate or leaves the gate alone, which `SessionKeepsGate` proves. The threads of the
window are clients and switchers at once: the desktop has one such thread, the API allows several. `drive` is the
point of `drive_inner`, `outcome` what the window returned. Of the job session the module keeps what the idle test of
`prepare_move` reads: `jobs` is the memory (ingress, admissions on their way, items in flight), `op` and `done` the
rows. The test reads the memory and then the rows, before the drain and again after it. The second test is needed: between
the two reads of the first, an operation may fetch two items and be interrupted by the report of one of them, so that its
rows are ended while the other is executing. `art` and `preview` are the two workers; an
export preview is no operation, so a move cancels it. Any service may fail to open, to start or to close: an error
drops the Switch, which puts the gate into recovery, and an owner that cannot be closed is kept for ever (`unclosed`).
If `run` fails while the gate is active and the session is tried again, the services are built anew without an
activation, so that the generation stays the same; nothing depends on it. `MoveLibrary` merges the cancellation of the
artwork with `begin_switch`. Left out: isolated libraries, the output of diagnostics, the details of `recovery::settle`.

### ShelfReview

`shelf` holds the rows of every shelf by its number, with the lifetime that tells two shelves of one number apart;
`matches`, `attention` and `available` are the outside world: what a collection selects, whether it can be evaluated, which
stories have an archive. `tickets` is every review issued with the plan it covers, `registry` what the process still
knows of, `expired` those past their lifetime. Transactions run on the writer and are one action each; a preview on
a reader thread reads and registers its ticket in two, so that a deletion can come between.

### Imports

`job` is `ImportResources` of every worker and its point in `execute`, `compensate` or `settle`; `staging` the private
containers on disk, `registered` those the library record names, `there` the managed files and `mayBe` whether each is
there after a loss of power. `custody` has its holder, who keeps it from the decision to publish to the settlement.
A start recovers the containers the record names. Removing a story is one step here; `StoryRemoval` has the rest.

### Exports

`prepared`, `ticket`, `plans`, `ingress` and `rejected` are the controller's side, up to the start of the item; `job` is
what the worker holds. `place` is the workspace and the file of an export together, `mayBe` what a loss of power may
leave of them, `holder` whose file has the output name, `reg` the entry in the library record, several values if a write
has no acknowledgement. Other programs may take the name. The save of the report is one step, since the retries are
those of `JobSession`.

### MetadataRefresh

`syncs`, `snaps` and `artRow` are the rows, `item` the item of the refresh in the history. `work` has the point of the
refreshing worker and of the artwork thread; both publish with the same actions, parameterised by the actor, as both call
`MetadataStorage::publish`. `held` is a retained effect or an uncertain outcome, after which the worker of a refresh
never reports (`compensate` is always false) and the artwork thread takes no requests. Custody and the fence are shared.
A refusal is free and may happen at every transaction; an unknown outcome counts as a fault. The private container is
left out, since it is the one of `Imports`; so are the network, the contents of the response, the Age projection, the
freshness shown by the window and the back-off after failed artworks.

## 3. Runs

| Run | Question |
| --- | --- |
| `jobs_interleaving` | Coordinator, two workers and the UI on an import of two archives: every interleaving of cancel and shutdown with fetching, starting, reporting and releasing, also when one report cannot be saved and interrupts the operation under the sibling worker. Properties: `CancelIsRecorded`, `DrainedIsQuiescent`, `SettlementIsDurable`. |
| `jobs_faults` | Any four store calls fail or lose their answer, an executor may panic and the process may die once: the rows still form a legal operation log and no effect runs twice. Properties: `ExecutedAtMostOnce`, `AdmissionIsTrue`, `ImplementsLog`. |
| `story_removal` | Two stories, any three failing or unacknowledged calls and two deaths or power losses at any point of a removal, of its rollback or of its recovery. Properties: `MisplacedIsKnown`, `RemovedIsStored`, `OpenIsWhole`, `AnswerIsTrue`, `RemovalSettles`. |
| `writer_queue` | The writer with both capacities at their limit: jobs of every kind from two clients that read, drop or forget their results, an unknown commit, a panic, a lost authority and a close at any point; under fairness every waiting caller is answered and close returns. Properties: `UnknownStopsOrdinary`, `CleanCloseIsProof`, `WaitReturns`, `CloseReturns`. |
| `library_move` | Two moves of a library there and back, any two failing calls or foreign writes, and two processes dying or a power loss at any step of a move, of its cleanup or of its recovery: the library stays whole but for files whose flush failed and that a power loss took, what is reported is so, and under fairness the application comes back with it open unless a torn journal or a left-over profile is in its namespace or such a file is gone. Properties: `AuthorityIsWhole`, `StatusIsTrue`, `ReceiptIsTrue`, `ForeignStays`, `StartOpens`. |
| `move_leftover` | A process that dies between the exchange of the profile and the removal of the old one: no later start opens the destination. (expected to be violated) Properties: `CommittedMoveOpens`. |
| `jobs_drain` | A metadata refresh under fair scheduling, with any three store calls but Finish failing: a requested stop drains every thread, and admitted work ends. Properties: `StopDrains`, `WorkEnds`. |
| `shelf_review` | Reviews of every kind against edits, deletions, a reused shelf number, a full registry, expiry, a rolled back or uncertain commit and a library that was closed and opened again. Properties: `ManualShelfIsKept`, `ActsOnReview`, `NoBlindRemoval`. |
| `imports` | Two workers import two archives of one UUID while stories are removed; one effect loses its acknowledgement or a cleanup fails, and the process dies or power is lost at any step, so that later imports find what earlier ones left. Properties: `RowHasFiles`, `ReportIsTrue`, `OrphansStay`, `ImportEnds`. |
| `exports` | Two exports race for one output name while stories are flagged or removed, somebody else writes into the destination, one effect fails or loses its acknowledgement, and the process dies or power is lost at any step. Properties: `ExportReportIsTrue`, `WorkspaceIsRecorded`, `PlanIsKept`, `DestinationIsKept`, `ExportEnds`. |
| `library_session` | Two threads of the window that may both ask for a move, the artwork worker, the previewer and an operation of two items behind one gate, with every service failing at every point: a switch excludes every use, a granted move finds no operation to interrupt, and the gate is given back unless something unsettled is kept. Properties: `SwitchExcludesUses`, `MoveInterruptsNothing`, `SwitchSettles`. |
| `metadata_refresh` | Two refreshes and two artworks over one custody, with cancellation at any moment, any refusal, two effects without acknowledgement, a death and a loss of power: what the catalogue names is on disk, no report contradicts the rows, and a refresh is reported or kept behind a fence. Properties: `CatalogHasFiles`, `RefreshReportIsTrue`, `RefreshEnds`. |

Bounds. The session has two threads of the window, each of which may use the library and ask for a
move, the artwork worker, the previewer, one operation of two items and two activations: a thread asks
for a move while the other enters, and an item is interrupted under its sibling. Job runs use one or two workers,
one operation of two items or two operations, a work queue of one place (so that it is full), one or
three attempts per write (the code's three where the count matters), up to four faults, one panic
and two lives of the process. A second worker is what makes sibling items race; a third would only
repeat it. Faults are budgets over the whole run, so any combination of failing calls up to the
budget is covered. Removal has two stories (one bystander), three faults and two crashes: one crash
in a removal and one in its recovery. The writer queue
has one slot of each class, two clients and three jobs, so that both limits of both classes are met
and a job waits behind another. A move has two folders, one file besides the identity with two contents,
two moves (the second back to the first folder), two faults, and two deaths or one power loss. Imports have
two workers, two archives of one UUID of which one has artwork, three imports, one removal, one fault
and one death: two imports race and a third meets what they left. Exports have two operations with one
output name, two stories, a registry of two, one change of a source, one fault and one death. Shelves have
one story, one collection, two shelves, two reviews, three transactions, room for one ticket, one fault and
one reopening, so that a ticket is evicted, and a number is given twice. The refresh has two refreshes,
two artworks of one image, two faults, one death and one power loss: one process leaves a file without a
flush, the next reuses it, and the power fails then. Other bounds are named in the modules that declare them.

Fairness. In the library session a thread that holds a guard leaves, the points of `begin_switch` run,
workers end what they do, the driver runs, and a window that was granted a Switch returns with it. Nobody
has to ask for a move, to retry after a failure or to finish. The job session assumes weak fairness of the
coordinator and of every worker: they are operating-system threads that only block on the session's
condition variable, on a store call with a time limit and on the executor; the executor is assumed to
return, and `compensate` and `settle` to succeed in the end (the metadata executor never compensates,
and then the session waits by design). No fairness is assumed of the window: nobody has to cancel,
stop, or remove anything. Faults are finite by their budget, so liveness says: once failures stop,
the work ends. Imports and exports assume weak fairness of every worker, the refresh of its
worker, of the artwork thread and of the start. Custody is taken by polling, which the code does not make
fair; it is enough here because the others ask for it a bounded number of times. For `StartOpens` the user is assumed to answer in the end: he tries again when a start is
refused, chooses to keep the source at some time if asked again and again (strong fairness), stops an
application that holds a failed move, and kills one that a failure held by the start keeps alive.

One run is expected to fail, `move_leftover`: a process that dies before the displaced profile is removed
leaves a file in the namespace that every later start refuses; `findings` in `PROJECT.json` quotes the
document that promises otherwise. `StartOpens` in `library_move` shows that this, a torn journal and
files taken by a power loss are the only things that keep the application from opening the library again.

Two combinations are left out of the passing runs because the properties do not hold in them, and a
reader of the code should know of both:

- A lost acknowledgement of Finish. When the last of three attempts to record a finish is committed
  without its acknowledgement, `reconcile_interrupt` repeats an interrupt that the ended operation
  answers with a conflict, no branch of its loop (scheduler.rs:415-452) returns, and a requested shutdown
  does not drain. `jobs_drain` lets every store call but Finish fail (`AllButFinish` in `MCJobSession`); with Finish among the
  faults `StopDrains` is violated.
- A death and then a power loss. `update_unix` exchanges the profile (profile.rs:1126) before it flushes
  the namespace (profile.rs:1173). If the process dies in between, `recover_relocation` takes the visible
  profile for the commit and removes files of the source before anything flushes the profile; a power loss
  may then bring the old profile back, which names an emptied folder. In `library_move` a behaviour
  has deaths or a power loss, never both (the guards of `Die` and `LosePower`); with one of each `AuthorityIsWhole`
  is violated.

Other things the models met, which no run states as a violation:

- A copy that was never flushed. When `durable_file_flush` or the flush of the directory fails (relocation.rs:973-974) the
  whole file stays in the workspace, and the retry accepts it without flushing anything (relocation.rs:941-943); a directory
  that is found is not flushed either (918-924). The move is then committed and the original removed, and a power loss can take
  the only copy: one failing flush and one power loss are enough, although `docs/rewrite/section-13.md:103-106` promises
  "read-back verification and file/directory durability". `AuthorityIsWhole` exempts exactly the files
  lost this way, shows that a move costs no others, and that nothing is lost while no call fails and no process dies.
- An import whose rollback has no acknowledgement is reported as failed although its archive is still
  published: `compensate` moves the receipt to the held ones and returns true when it is called again
  (imports/mod.rs:541), while the trait asks that an uncertain effect is never reported (native_jobs/mod.rs:160).
  Its `settle` then refuses for ever, behind a fence; `ReportIsTrue` exempts a fenced library.
- A process that dies between the creation of a container and its registration leaves a directory that every
  later start refuses (platform/unix.rs:3865).
- A container that cannot be cleaned keeps custody without a fence, and other imports poll for it;
  `ImportEnds` exempts a held owner.
- An export cancelled while it waits for custody or for a source is reported as failed, not as cancelled
  (durable.rs:329); a failed registration leaves its reservation in the record; a publication pending behind a fence
  and a workspace without owner are tried for ever, which `ExportEnds` exempts.
- A refresh whose failure cannot be recorded leaves its row running, and every later refresh of this session is
  refused as busy until the library is opened again. The freshness shown by the window orders refreshes by their
  start time and then by their random number, so that a clock set back can show a fresh catalogue as stale.
- `keep_pending_cleanup` (relocation.rs:2136) has no caller: a pending cleanup is in the way of every later move until it
  is finished.
- Without a journal, locating a library accepts any closed folder of the same identity that names its own path,
  such as a source the user chose to keep after a move.

## 4. Proofs

`StoryRemovalProofs`. For any stories, faults and crashes: `RemovalIsRecoverable`,
`RemovalLosesNothing`, `OpenLibraryIsWhole`, `RemovalAnswersTruly`. The inductive invariant `Custody` ties every point of the
removing thread to what is committed and flushed there (for example, at the delete of the row the
intent exists and the archive is durably in the trash), and says that a removal that is not settled
has not been answered; without it, neither the crash nor the recovery steps preserve the
properties.

The gate, for any sets of clients and switchers, in `LibraryProofs`: the state is well typed, a switch is
exclusive (`SwitchIsExclusive`), the draining phase has exactly one owner (`SwitchIsOwned`), the
counters are the numbers of live guards (`GuardsAreCounted`) and a blocked switcher always has a
guard left that will wake it (`WakeupsAreNotLost`). `SwitchExcludesUses` is not inductive: the
invariant adds that every point of `begin_switch` past the first belongs to the one owner of the
draining phase, that intake is closed there, and that `uses` counts the guards held, as
cardinalities of finite sets (the assumption is that the set of clients is finite).

The session, in the same module. For any threads, operations and items: every step of the session is a step of the gate or
leaves it alone (`SessionKeepsGate`), so that the invariant of the gate is used again; nobody holds a
guard while the library is closed, moved and opened (`MoveIsExclusive`); a granted move finds no unfinished operation and
no item in flight (`GrantedMoveIsIdle`). The invariant `SwitchInv` follows the two idle tests: `begin_switch` runs only inside
the window; from the look at the memory on nothing enters, since intake is closed to mutators; from the look at the rows
on nothing is unfinished, so nothing is fetched; and what the second look at the memory finds empty stays empty. The
assumption is that the clients of the gate are the threads and the artwork worker, and its switchers the threads.

Shelves and reviews, in `LibraryProofs` as well. For any stories, collections, numbers of shelves, tickets and faults: a shelf
without sources keeps its members (`ManualShelvesAreKept`), a plan changes rows at most once and only the shelves that were
reviewed, as they were shown (`ChangesAreReviewed`), and no review takes off a member blindly (`RemovalsAreSeemly`). The
comparison in the code leaves the lifetime of a shelf out, so it cannot be the whole reason. The invariant `ReviewInv`
supplies the rest: every ticket that a claim could still accept is in the registry, where `invalidate_shelf` finds it, and every row it
shows is of the same lifetime as the row there is now, with an older revision or the same content. It is kept because the next number is
not in use (the largest of the rows exists, by well-founded induction), because each change moves the revision, because
whatever leaves the registry is dead, because a preview that shows shelves keeps the writer until its ticket is issued, and because
another runtime accepts no earlier ticket. With it, equal fingerprints (or revisions, for a curation) mean equal rows (`FreshIsSeen`).

The operation log, for any operations and items, in `JobSessionProofs`: `LogIsConsistent`, `RefreshesExclude` and the
action property `HistoryIsKept`. The invariant adds that an operation and its items exist together
and that an ended operation has no live item, which is what makes its result final. Through the
refinement the same holds of the scheduler's rows (`SessionIsConsistent`, `SessionRefreshesExclude`,
`SessionHistoryIsFinal`).

`JobSessionProofs`. For any operations, items, workers, retries, faults, panics and restarts, and any set of calls that
may fail: no item is executed twice (`ItemsRunAtMostOnce`), admissions are answered truly (`AcknowledgementsAreTrue`),
resources are settled only against a durable outcome (`SettlementsAreDurable`), a drained session left nothing behind
(`DrainIsComplete`), and every behaviour of the session is one of `OperationLog` (`SessionImplementsLog`), so that
what is proved of the log holds of the scheduler's rows. `CancelIsRecorded` holds of every
session that is not fenced (`CancellationsAreKept`), and of fenced ones too if the call that records a
cancellation is not among the failing ones (`CancellationsReachTheRow`); the caveat is the code's: a cancellation that
finds the ownership of the library lost is dropped, with the database fenced. The invariant `SessionInv` has a part for each of the
things the threads know of each other: `Placed` (an item is queued, with one worker, or nowhere), `Ownership`
(what is in flight is on its way to a worker or owned by one), `Progress` (what the rows say at every point of a worker),
`Executions`, `Reports` (a command that is being persisted fits the rows, or was overtaken by the interruption),
`Admissions`, `Cancellations` and `Draining`. The argument has two halves. First, whatever thread takes a
step, the rows change by one of six row steps or not at all, and a row step of one item leaves the others' facts alone. Then each
action is shown to keep each part, with the actions grouped by the thread that takes them: a worker changes nothing of the
coordinator and of its siblings but the shared state, and the reverse.

`WriterQueueProofs`. For any number of workers, clients, jobs and capacities: no ordinary transaction is committed after one of
unknown outcome (`UnknownFencesTheWriter`, which needs one worker, as the writer has), a clean close is proof of every outcome (`CleanCloseProves`),
and the two counters of every class count exactly the waiting and the owned jobs and stay within the capacity (`SlotsAreExact`),
also when results are dropped or forgotten and when a worker panics. The invariant `QueueInv` ties the
line of waiting jobs, the workers' hands and the two owners of every job: a job is in the line once, in the hands of one
worker, or done; its fate (effect, answer, owners) fits that place; a slot is taken while there is an owner; and after the
stop what is left is either waiting, running, or settled. The counters are compared with cardinalities of sets of jobs.

`RelocationProofs`. For any folders, managed files, contents, moves, failing calls and interferences, and any number of deaths or
of power losses: the folder the profile names holds the whole library but for files that were never flushed and that a power
loss took, of which there are none unless a call failed or a process died (`LibraryStaysWhole`), a failed move reports its
commit truly (`CommitStatusIsTrue`), a receipt proves the commit and the emptied folder (`ReceiptsAreTrue`), and
nobody else's files are touched (`OthersLoseNothing`, an action property). As in the runs, a behaviour has deaths or power
losses, not both (see above); a process that can only be killed counts as dead. The invariant `MoveInv` says that the
named folder is live, that is, complete but for `damage`, at its place, and there after a power loss (`Authority`); that, while no process died,
the profile is durable or hangs between two live folders (`Durable`); that a folder which is not there holds nothing (`Folders`);
that the journal and the attempt speak of the same genuine move, whose manifest has no foreign file in it (`Moves`); and
what every step may rely on (`Attempting`, `Stages`, `Committing`, `Cleanup`, `Asking`). `AuthorityIsWhole` alone is
not inductive at the commit, where it needs the verified copy to be the user's library, nor at a power loss, where it needs
`Durable`; `ReceiptIsTrue` needs that cleaning starts after the commit, and that it found nothing left. A second invariant,
`LooseInv`, says where unflushed copies come from: only a failed call or a death leaves one, only such a copy is taken by
a power loss, and nobody else wrote it.

`ExportsProofs`. For any exports, stories, output names and bounds, and any mixture of faults, deaths and power losses:
what the database says of an export is so (`ExportIsReportedTruly`), every workspace is recorded and none is left by an
export that is over (`WorkspacesAreRecorded`), a plan is there as long as its operation needs it (`PlansAreKept`), and no
step takes a name in the destination from anybody, but a power loss that of a file nobody was told of (`DestinationsAreKept`, an action
property). None of the four is inductive. The invariant `ExportInv` has one part for all exports, `Planning` (a plan is
with the ticket, on its way in, refused, or with an operation that lives), and for each export the parts of `Sound`: `Space`
(the file is visible if a power loss may leave it, has the name if it is visible, and whatever is not yet flushed away is
recorded), `Told` (the row), `Runs`, `Starts`, `Makes`, `Publishes`, `Settles` (what the worker remembers and what is on disk
at each of its points) and `Holds` (custody from before the second look at the story to the end, which is why the
story is still there). The argument: a step of one export leaves the others' facts alone (`OthersSound`), so
that each action is shown to keep the facts of its own export; deaths and starts are shown for all of them.
The search for the invariant corrected `DestinationIsKept`: it said that a power loss takes only the file of a running item,
which fails when a first death and a refused start have interrupted the row before the power loss; one death, as in the run, does not show it.

`MetadataRefreshProofs`. For any images and any number of refreshes, requests, faults, deaths and losses of power: what the
catalogue names is durable (`CatalogIsBacked`), and the saved item, the row of the refresh and the catalogue in use say the
same (`RefreshesReportTruly`). The invariant `RefreshInv`: what the disk shows is one of the things a loss of power may
leave (`DiskAgrees`); at each point of a publication, which file is settled and who has the custody (`Publishing`); what the
rows say of the refresh that runs (`Running`) and of all that went before (`History`: the snapshot in use is that of the greatest
refresh that succeeded); and that nobody works before the start is over (`Quiet`). `CatalogHasFiles` alone fails at the commit, which
needs the receipt of a durable file, and `RefreshReportIsTrue` at the report, which needs what the transactions before it left.

`ImportsProofs`. For any workers, picked archives, imports, removals, faults, deaths and losses of power, mixed in any order:
every row has its files durably on disk (`RowsAreBacked`), what was reported stays so until it is settled (`ReportsAreTrue`), and
no compensation takes a file that was reused (`ReusedFilesStay`, an action property). The assumption about the archives is that
equal checksums mean equal UUIDs and artwork. The core of `ImportsInv` is the custody: whoever published
something, or has an outcome other than a failure, holds it until the item is settled (`Owning`), so that a step of one
worker leaves the facts of every other alone (`OthersImport`). Of each worker it says what its record looks like at each point
(`Shaped`), that every receipt of a new file names a file that it made and that no other file of its own is left unless the fence is up (`Traced`), what its
outcome promises of the rows (`Truthful`), and which of its files are durable by now (`Backed`: the
archive when the artwork is staged, an artwork that is found since its route was flushed, all files at the catalogue). `OneRow`, one row
for a checksum, is what makes the removal of a story leave the files of all others. TLC checked the invariant on three sets of archives
before it was proved: two with one UUID, two with the same artwork, and one archive under two names.

Only model-checked: liveness (`SwitchSettles`, `StopDrains`, `WorkEnds`, `RemovalSettles`, `WaitReturns`, `CloseReturns`,
`StartOpens`, `ImportEnds`, `ExportEnds`, `RefreshEnds`), which needs fairness and ENABLED and is out of the prover's
reach. Every safety invariant and action property of a run that holds is stated by a theorem. `OperationLog` has no run of its own: its
properties are proved, `ImplementsLog` in `jobs_faults` checks the refinement on an instance and `SessionImplementsLog` proves it.

## 5. Not modelled, and the plan

The models cover the control of the program: what is written to two stores, by several threads, over
failures and restarts. Most lines of the repository are something else: the tables of the collection
codec, the archive readers, adapters, the window and its examples, tests and qualification programs. Not
modelled on purpose: text formats and codecs, presentation, logging, the private scheduler in
`librairii-app/src/jobs` that only its own tests use, vendored code. Collections, tags and flags are edits of
one transaction each; deleting a collection is in `ShelfReview`, because shelves depend on it.

Not modelled yet: locating a moved library, the locks and the handover of the profile, the settings of the
start, migrations, backup and adoption. The library record is modelled as far as moves, imports and exports use it.

The plan, most important first:
1. done: `LifecycleGate`, the operation modules, `JobSession`, `StoryRemoval`, `WriterQueue`, `Relocation`, `LibrarySession`,
   `ShelfReview`, `Imports`, `Exports`, `MetadataRefresh` and the
   proofs about them listed above;
2. an abstract specification of the library's place (it is at exactly one) that `Relocation` implements;
3. the first start: claim and locks of the profile, the native record, locating a moved library;
4. migrations, backup, adoption, handover.
