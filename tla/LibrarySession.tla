--------------------------- MODULE LibrarySession ---------------------------
(***************************************************************************)
(* crates/librairii-desktop/src/library.rs: one open library after another *)
(* behind one lifecycle gate.  drive_inner opens the database, starts the  *)
(* job session, the artwork worker (artwork.rs) and the export previewer   *)
(* (export_preparation.rs), runs the window, and takes all of it down again*)
(* to finish or to move the library to another folder.                     *)
(*                                                                         *)
(* The gate is LifecycleGate; every step here is one of its actions or     *)
(* leaves it alone.  Of the job session the module keeps what the idle test*)
(* of a move reads: what is in memory and which operations have unfinished *)
(* rows.  How it gets there is JobSession; what a move does is Relocation. *)
(***************************************************************************)
EXTENDS LifecycleGate

CONSTANTS
    Threads,      \* threads that run the window; both clients and switchers
    Artist,       \* the artwork worker, a client
    Ops,          \* operations that may be offered
    Items         \* items of each

ASSUME SessionAssumption ==
    Clients = Threads \cup {Artist} /\ Switchers = Threads /\ Artist \notin Threads

VARIABLES
    drive,        \* where drive_inner is
    outcome,      \* what the window returned: "none", "finish", "move", "error"
    library,      \* LibrarySession.library is there
    seen,         \* switchers whose idle test found nothing in memory
    jobs,         \* State of the job session, what is in memory
    op,           \* rows of operations: "none", "active", "ended"
    done,         \* items whose rows are terminal
    art,          \* State of the artwork worker
    preview       \* State of the export previewer

gate == vars
session == <<drive, outcome, library>>
work == <<jobs, op, done>>
workers == <<art, preview>>
sessionVars == <<gate, session, seen, work, workers>>

Units == Ops \X Items
UnitsOf(o) == {o} \X Items

(* "open": about to open the database; "start": until the job session is   *)
(* ready; then the window runs, and its workers are joined from the inside *)
(* out; "unclosed": the owner of something unsettled is kept for ever;     *)
(* "failed": drive_inner returned an error; "over": the session is gone.   *)
Drives == {"open", "start", "run", "stopPreview", "stopArt", "stopJobs", "close", "move",
           "unclosed", "failed", "over"}

NoJobs == [on |-> FALSE, ingress |-> {}, admitting |-> {}, inflight |-> {},
           stopping |-> FALSE, failed |-> FALSE]
NoArt == [pc |-> "off", queued |-> FALSE, stopping |-> FALSE, retained |-> FALSE]
NoPreview == [pc |-> "off", queued |-> FALSE, retained |-> FALSE]

SessionInit ==
    /\ Init
    /\ drive = "open" /\ outcome = "none" /\ library = TRUE
    /\ seen = {}
    /\ jobs = NoJobs
    /\ op = [o \in Ops |-> "none"] /\ done = {}
    /\ art = NoArt /\ preview = NoPreview

KeepsGate == UNCHANGED gate
Outside == \A t \in Threads : held[t] = NoUse /\ pc[t] \in {"out", "held"}

----------------------------------------------------------------------------
(* The threads of the window, inside run.                                  *)

EnterLibrary(t, kind) ==
    /\ drive = "run" /\ pc[t] = "out"
    /\ Enter(t, kind)
    /\ UNCHANGED <<session, seen, work, workers>>

LeaveLibrary(t) ==
    /\ DropUse(t)
    /\ UNCHANGED <<session, seen, work, workers>>

(* offer_import, offer_metadata, offer_export: try_start with a mutator's  *)
(* guard.  An admission nobody has read is left out: the next offer waits. *)
Offer(t, o) ==
    /\ held[t].kind = "mutator" /\ op[o] = "none"
    /\ jobs.on /\ ~jobs.stopping /\ jobs.ingress \cup jobs.admitting = {}
    /\ jobs' = [jobs EXCEPT !.ingress = {o}]
    /\ UNCHANGED <<gate, session, seen, op, done, workers>>

(* prepare_export: a request replaces the one that waits and cancels the   *)
(* one that is worked on; none is taken once a probe is kept.              *)
PrepareExport(t) ==
    /\ held[t].kind = "mutator" /\ ~preview.retained
    /\ preview' = [preview EXCEPT !.queued = TRUE]
    /\ UNCHANGED <<gate, session, seen, work, art>>

CancelPreparation ==
    /\ drive = "run"
    /\ preview' = [preview EXCEPT !.queued = FALSE]
    /\ UNCHANGED <<gate, session, seen, work, art>>

(* Handle::request; refused once a publication is in doubt.                *)
RequestArt ==
    /\ drive = "run" /\ ~art.queued /\ ~art.retained
    /\ art' = [art EXCEPT !.queued = TRUE]
    /\ UNCHANGED <<gate, session, seen, work, preview>>

(* prepare_move: the artwork queue is emptied first, whatever the gate     *)
(* answers.                                                                *)
MoveLibrary(t) ==
    /\ drive = "run" /\ held[t] = NoUse /\ pc[t] = "out" /\ generation < MaxGeneration
    /\ art' = [art EXCEPT !.queued = FALSE]
    /\ IF phase = "active" /\ mutators = 0 THEN BeginSwitch(t) ELSE KeepsGate
    /\ UNCHANGED <<session, seen, work, preview>>

(* Handle::idle_for_relocation.                                            *)
IdleForRelocation ==
    /\ jobs.on /\ ~jobs.failed /\ ~jobs.stopping
    /\ jobs.ingress = {} /\ jobs.admitting = {} /\ jobs.inflight = {}

(* file_operations queued or running.                                      *)
Unfinished == {o \in Ops : op[o] = "active"}

(* The first half of operations_idle reads the memory ...                  *)
LooksAtMemory(t) ==
    /\ pc[t] \in {"first", "second"} /\ t \notin seen
    /\ IdleForRelocation
    /\ seen' = seen \cup {t}
    /\ UNCHANGED <<gate, session, work, workers>>

(* Variant: the answer given before the drain is good enough after it.     *)
LooksAtRowsOnce(t) ==
    /\ \/ t \in seen /\ Unfinished = {} /\ FirstIdle(t)
       \/ SecondIdle(t)
    /\ seen' = seen \ {t}
    /\ UNCHANGED <<session, work, workers>>

(* ... and the second half the database.                                   *)
LooksAtRows(t) ==
    /\ t \in seen /\ Unfinished = {}
    /\ FirstIdle(t) \/ SecondIdle(t)
    /\ seen' = seen \ {t}
    /\ UNCHANGED <<session, work, workers>>

(* Either half says no; a read that fails is a no.                         *)
NotIdle(t) ==
    /\ t \in seen \/ ~IdleForRelocation
    /\ RestoreUnchanged(t)
    /\ seen' = seen \ {t}
    /\ UNCHANGED <<session, work, workers>>

Drains(t) ==
    /\ Drain(t)
    /\ UNCHANGED <<session, seen, work, workers>>

Window(t) ==
    \/ \E kind \in {"reader", "mutator"} : EnterLibrary(t, kind)
    \/ LeaveLibrary(t)
    \/ \E o \in Ops : Offer(t, o)
    \/ PrepareExport(t)
    \/ MoveLibrary(t) \/ LooksAtMemory(t) \/ LooksAtRows(t) \/ NotIdle(t) \/ Drains(t)

----------------------------------------------------------------------------
(* The job session, as far as it can be seen from here.                    *)

KeepsAllButWork == UNCHANGED <<gate, session, seen, workers>>

(* New work is taken until a thread panics; what a thread is at it ends.   *)
Working == jobs.on /\ ~jobs.failed

TakeIngress ==
    /\ Working /\ jobs.ingress # {} /\ jobs.admitting = {}
    /\ jobs' = [jobs EXCEPT !.ingress = {}, !.admitting = jobs.ingress]
    /\ UNCHANGED <<op, done>> /\ KeepsAllButWork

(* The operation is created or refused; then the answer is published.      *)
CreateRow(o) ==
    /\ jobs.on /\ o \in jobs.admitting /\ op[o] = "none"
    /\ op' = [op EXCEPT ![o] = "active"]
    /\ UNCHANGED <<jobs, done>> /\ KeepsAllButWork

PublishAdmission ==
    /\ jobs.on /\ jobs.admitting # {}
    /\ jobs' = [jobs EXCEPT !.admitting = {}]
    /\ UNCHANGED <<op, done>> /\ KeepsAllButWork

(* The coordinator between two looks at the ingress: it is not admitting.  *)
FetchItem(u) ==
    /\ Working /\ jobs.admitting = {}
    /\ op[u[1]] = "active" /\ u \notin done \cup jobs.inflight
    /\ jobs' = [jobs EXCEPT !.inflight = @ \cup {u}]
    /\ UNCHANGED <<op, done>> /\ KeepsAllButWork

ReportItem(u) ==
    /\ jobs.on /\ u \in jobs.inflight \ done
    /\ done' = done \cup {u}
    /\ UNCHANGED <<jobs, op>> /\ KeepsAllButWork

(* persist gives up on a report and interrupts the operation, siblings in  *)
(* flight included.                                                        *)
InterruptOp(u) ==
    /\ jobs.on /\ u \in jobs.inflight \ done
    /\ op' = [op EXCEPT ![u[1]] = "ended"]
    /\ done' = done \cup UnitsOf(u[1])
    /\ UNCHANGED jobs /\ KeepsAllButWork

ReleaseItem(u) ==
    /\ jobs.on /\ u \in jobs.inflight \cap done
    /\ jobs' = [jobs EXCEPT !.inflight = @ \ {u}]
    /\ UNCHANGED <<op, done>> /\ KeepsAllButWork

FinishOp(o) ==
    /\ jobs.on /\ jobs.admitting = {}
    /\ op[o] = "active" /\ UnitsOf(o) \subseteq done /\ UnitsOf(o) \cap jobs.inflight = {}
    /\ op' = [op EXCEPT ![o] = "ended"]
    /\ UNCHANGED <<jobs, done>> /\ KeepsAllButWork

(* guarded: a thread panicked.  The others end what they are at.           *)
JobsFail ==
    /\ Working
    /\ jobs' = [jobs EXCEPT !.failed = TRUE, !.stopping = TRUE]
    /\ UNCHANGED <<op, done>> /\ KeepsAllButWork

Jobs ==
    \/ TakeIngress \/ PublishAdmission
    \/ \E o \in Ops : CreateRow(o) \/ FinishOp(o)
    \/ \E u \in Units : FetchItem(u) \/ ReportItem(u) \/ InterruptOp(u) \/ ReleaseItem(u)

----------------------------------------------------------------------------
(* The artwork worker and the export previewer.                            *)

KeepsAllButArt == UNCHANGED <<session, seen, work, preview>>

ArtTake ==
    /\ art.pc = "idle" /\ art.queued /\ ~art.stopping
    /\ art' = [art EXCEPT !.pc = "popped", !.queued = FALSE]
    /\ KeepsGate /\ KeepsAllButArt

ArtEnter ==
    /\ art.pc = "popped"
    /\ \/ Enter(Artist, "reader") /\ art' = [art EXCEPT !.pc = "inside"]
       \/ phase # "active" /\ KeepsGate /\ art' = [art EXCEPT !.pc = "idle"]
    /\ KeepsAllButArt

(* The request ends, loaded, cancelled or failed; a publication in doubt   *)
(* leaves its store with the repository.                                   *)
ArtLeave ==
    /\ art.pc = "inside"
    /\ DropUse(Artist)
    /\ \E kept \in {art.retained, TRUE} : art' = [art EXCEPT !.pc = "idle", !.retained = kept]
    /\ KeepsAllButArt

PreviewTake ==
    /\ preview.pc = "idle" /\ preview.queued
    /\ preview' = [preview EXCEPT !.pc = "busy", !.queued = FALSE]
    /\ UNCHANGED <<gate, session, seen, work, art>>

(* Exports::prepare ends.  A probe that cannot be removed is kept, and with*)
(* it the request that waits is dropped.                                   *)
PreviewEnds ==
    /\ preview.pc = "busy"
    /\ \/ preview' = [preview EXCEPT !.pc = "idle"]
       \/ preview' = [pc |-> "idle", queued |-> FALSE, retained |-> TRUE]
    /\ UNCHANGED <<gate, session, seen, work, art>>

Workers == ArtTake \/ ArtEnter \/ ArtLeave \/ PreviewTake \/ PreviewEnds

----------------------------------------------------------------------------
(* drive_inner.                                                            *)

Goes(to) == drive' = to

(* The Switch that an error drops, if there is one.                        *)
LosesSwitch ==
    \/ \E t \in Threads : pc[t] = "held" /\ DropSwitch(t)
    \/ (\A t \in Threads : pc[t] # "held") /\ KeepsGate

Open ==
    /\ drive = "open" /\ library
    /\ Goes("start")
    /\ outcome' = "none"
    /\ KeepsGate /\ UNCHANGED <<library, seen, work, workers>>

(* Variant: the error forgets the Switch.                                  *)
OpenFailsQuietly ==
    /\ drive = "open" /\ library
    /\ Goes("failed")
    /\ KeepsGate
    /\ UNCHANGED <<outcome, library, seen, work, workers>>

OpenFails ==
    /\ drive = "open" /\ library
    /\ Goes("failed")
    /\ LosesSwitch
    /\ UNCHANGED <<outcome, library, seen, work, workers>>

(* startup: whatever a previous session left unfinished is interrupted.    *)
(* The gate is opened when every service is there.                         *)
Ready ==
    /\ drive = "start"
    /\ Goes("run")
    /\ jobs' = [NoJobs EXCEPT !.on = TRUE]
    /\ op' = [o \in Ops |-> IF op[o] = "active" THEN "ended" ELSE op[o]]
    /\ done' = done \cup UNION {UnitsOf(o) : o \in Unfinished}
    /\ art' = [NoArt EXCEPT !.pc = "idle"] /\ preview' = [NoPreview EXCEPT !.pc = "idle"]
    /\ \/ \E t \in Threads : Activated(t)
       \/ (\A t \in Threads : pc[t] # "held") /\ KeepsGate
    /\ UNCHANGED <<outcome, library, seen>>

(* Age facets, files, logger, diagnostics, or the start of the jobs.       *)
StartFails ==
    /\ drive = "start"
    /\ Goes("close")
    /\ outcome' = "error"
    /\ KeepsGate /\ UNCHANGED <<library, seen, work, workers>>

(* The window returns with the Switch, or to finish, or with an error; its *)
(* threads are joined.  The previewer is stopped first: its queue is empty.*)
Return ==
    /\ drive = "run" /\ Outside
    /\ outcome' \in IF \E t \in Threads : pc[t] = "held" THEN {"move"} ELSE {"finish", "error"}
    /\ Goes("stopPreview")
    /\ preview' = [preview EXCEPT !.queued = FALSE]
    /\ KeepsGate /\ UNCHANGED <<library, seen, work, art>>

(* A worker ended well, or with an error that drops what the window        *)
(* returned.                                                               *)
Joined ==
    \/ KeepsGate /\ UNCHANGED outcome
    \/ LosesSwitch /\ outcome' = "error"

(* The previewer does not return while it keeps a probe.                   *)
JoinPreview ==
    /\ drive = "stopPreview" /\ preview.pc = "idle" /\ ~preview.retained
    /\ Goes("stopArt")
    /\ preview' = NoPreview
    /\ art' = [art EXCEPT !.queued = FALSE, !.stopping = TRUE]
    /\ Joined /\ UNCHANGED <<library, seen, work>>

JoinArt ==
    /\ drive = "stopArt" /\ art.pc = "idle"
    /\ Goes("stopJobs")
    /\ art' = [art EXCEPT !.pc = "off"]
    /\ jobs' = [jobs EXCEPT !.stopping = TRUE]
    /\ Joined /\ UNCHANGED <<library, seen, op, done, preview>>

Drained ==
    /\ Unfinished = {}
    /\ jobs.ingress = {} /\ jobs.admitting = {} /\ jobs.inflight = {}

(* with_runtime drained; caches are dropped and the log is flushed.        *)
JoinJobs ==
    /\ drive = "stopJobs" /\ ~jobs.failed /\ Drained /\ ~art.retained
    /\ jobs' = NoJobs
    /\ Goes("close")
    /\ Joined /\ UNCHANGED <<library, seen, op, done, workers>>

(* with_runtime failed: it drops what the window returned.                 *)
JobsFailed ==
    /\ drive = "stopJobs" /\ jobs.failed /\ ~art.retained
    /\ jobs' = [jobs EXCEPT !.on = FALSE]
    /\ Goes("close")
    /\ outcome' = "error"
    /\ LosesSwitch
    /\ UNCHANGED <<library, seen, op, done, workers>>

(* A publication in doubt, a log that cannot be flushed, an output of      *)
(* diagnostics, or a close without proof: the owner is kept for ever.      *)
Unclosed ==
    /\ \/ drive = "stopJobs" /\ (jobs.failed \/ Drained) /\ art.retained
       \/ drive = "stopJobs" /\ ~jobs.failed /\ Drained /\ outcome # "error"
       \/ drive = "close"
    /\ jobs' = [jobs EXCEPT !.on = FALSE]
    /\ Goes("unclosed")
    /\ KeepsGate /\ UNCHANGED <<outcome, library, seen, op, done, workers>>

Closed ==
    /\ drive = "close"
    /\ \/ outcome = "finish" /\ Goes("over") /\ KeepsGate /\ UNCHANGED library
       \/ outcome = "move" /\ Goes("move") /\ KeepsGate /\ library' = FALSE
       \/ outcome = "error" /\ Goes("failed") /\ LosesSwitch /\ UNCHANGED library
    /\ UNCHANGED <<outcome, seen, work, workers>>

(* The library is at its new place, or resumed at the old one.             *)
Moved ==
    /\ drive = "move"
    /\ Goes("open")
    /\ library' = TRUE
    /\ KeepsGate /\ UNCHANGED <<outcome, seen, work, workers>>

(* close_for_relocation, a move that is or may be committed, or a source   *)
(* that cannot be resumed.                                                 *)
MoveFails ==
    /\ drive = "move"
    /\ Goes("failed")
    /\ LosesSwitch
    /\ UNCHANGED <<outcome, library, seen, work, workers>>

(* recovery::settle gives the session back when its library can be used    *)
(* again: drive_inner takes over the gate that the failure left.           *)
Retry(t) ==
    /\ drive = "failed" /\ library /\ ~jobs.failed
    /\ Goes("open")
    /\ IF phase = "recovery" THEN BeginRecovery(t) ELSE KeepsGate
    /\ UNCHANGED <<outcome, library, seen, work, workers>>

(* Or the failure is settled without it; another session has another gate. *)
GiveUp ==
    /\ drive = "failed"
    /\ Goes("over")
    /\ KeepsGate /\ UNCHANGED <<outcome, library, seen, work, workers>>

Driver ==
    \/ Open \/ OpenFails \/ Ready \/ StartFails
    \/ JoinPreview \/ JoinArt \/ JoinJobs \/ JobsFailed
    \/ Unclosed \/ Closed \/ Moved \/ MoveFails

SessionNext ==
    \/ \E t \in Threads : Window(t) \/ Retry(t)
    \/ RequestArt \/ CancelPreparation
    \/ Jobs \/ JobsFail
    \/ Workers
    \/ Driver \/ Return \/ GiveUp

SessionSpec == SessionInit /\ [][SessionNext]_sessionVars

(* Threads that are not blocked run; a window that was given the Switch    *)
(* returns with it.  Nobody has to ask for a move, to retry or to finish.  *)
SessionFairness ==
    /\ \A t \in Threads :
          /\ WF_sessionVars(LeaveLibrary(t))
          /\ WF_sessionVars(LooksAtMemory(t) \/ LooksAtRows(t) \/ NotIdle(t) \/ Drains(t))
    /\ WF_sessionVars(ArtEnter \/ ArtLeave)
    /\ WF_sessionVars(PreviewEnds)
    /\ WF_sessionVars(Jobs)
    /\ WF_sessionVars(Driver)
    /\ WF_sessionVars(Return /\ outcome' = "move")

FairSession == SessionSpec /\ SessionFairness

----------------------------------------------------------------------------
SessionTypeOK ==
    /\ TypeOK
    /\ drive \in Drives /\ outcome \in {"none", "finish", "move", "error"}
    /\ library \in BOOLEAN
    /\ seen \subseteq Threads
    /\ jobs \in [on: BOOLEAN, ingress: SUBSET Ops, admitting: SUBSET Ops,
                 inflight: SUBSET Units, stopping: BOOLEAN, failed: BOOLEAN]
    /\ op \in [Ops -> {"none", "active", "ended"}] /\ done \subseteq Units
    /\ art \in [pc: {"off", "idle", "popped", "inside"}, queued: BOOLEAN,
                stopping: BOOLEAN, retained: BOOLEAN]
    /\ preview \in [pc: {"off", "idle", "busy"}, queued: BOOLEAN, retained: BOOLEAN]

(* A move that was granted interrupts no operation: stopping the job       *)
(* session would cancel whatever is unfinished.  Memory and rows are read  *)
(* one after the other while the session works on, and an operation can be *)
(* interrupted in its rows while one of its items is still executed; both  *)
(* tests of begin_switch, and the refusal while a mutator is admitted, are *)
(* needed.                                                                 *)
MoveInterruptsNothing ==
    (drive = "run" /\ \E t \in Threads : pc[t] = "held") =>
        /\ Unfinished = {}
        /\ jobs.ingress = {} /\ jobs.admitting = {} /\ jobs.inflight = {}

(* An owner that is kept for ever keeps the gate closed with it.           *)
Stuck ==
    \/ drive = "unclosed"
    \/ drive = "stopPreview" /\ preview.retained

(* Whoever asked for a move gets an answer, and a granted Switch is given  *)
(* back: the gate is open or in recovery again, unless something unsettled *)
(* is kept.                                                                *)
SwitchSettles ==
    \A t \in Threads : pc[t] \in Owning ~> pc[t] = "out" \/ Stuck
============================================================================
