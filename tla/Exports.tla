------------------------------- MODULE Exports -------------------------------
(***************************************************************************)
(* crates/librairii-storage/src/export/ and platform/unix/export_output.rs:*)
(* from the preview of an export to the file in the folder the user chose. *)
(*                                                                         *)
(* A preview leaves a plan that can be started once.  A worker of the job  *)
(* session checks the story again, takes custody, reserves a private       *)
(* workspace in the library record, creates it in the destination, names   *)
(* its owners in the record, copies and verifies, renames the payload to   *)
(* its final name without replacing anything, flushes, reports, and only   *)
(* then removes the workspace and its entry in the record.                 *)
(*                                                                         *)
(* An export is one operation with one story.  The copy and its read-back  *)
(* touch only the private payload: they succeed or the export gives up.    *)
(* The output that probes the destination of a preview is gone when the    *)
(* preview exists, or the library is fenced.                               *)
(***************************************************************************)
EXTENDS Naturals, FiniteSets, SequencesExt

CONSTANTS
    Jobs,          \* exports
    Story,         \* the story of each
    Name,          \* its output name in the destination
    Nobody,        \* no job; holder of a free name
    Foreign,       \* holder of a name that is not ours
    Limit,         \* MAX_PREPARED
    MaxChanges,    \* bound: flags changed and stories removed
    MaxFaults,     \* bound: effects that fail or lose their acknowledgement
    MaxDeaths      \* bound: ends of the process

ASSUME ExportsAssumption ==
    /\ Nobody \notin Jobs /\ Foreign \notin Jobs /\ Nobody # Foreign
    /\ DOMAIN Story = Jobs /\ DOMAIN Name = Jobs
    /\ Limit \in Nat \ {0}
    /\ MaxChanges \in Nat /\ MaxFaults \in Nat /\ MaxDeaths \in Nat

VARIABLES
    story,         \* "fine", "broken" or "gone"
    prepared,      \* Exports.prepared
    ticket,        \* the preview the window shows, or Nobody
    plans,         \* ExportExecutor.plans
    ingress,       \* the start handed to the job session, or Nobody
    rejected,      \* admissions the window has not yet seen refused
    row,           \* the item in the database
    cancelled,     \* cancellation tokens
    job,           \* what the worker of an export holds, and where it is
    place,         \* workspace and file of each export, as they are seen
    mayBe,         \* and as a loss of power may leave them
    holder,        \* whose file has each output name
    reg,           \* entry of each export in the record, several if uncertain
    custody,       \* custody_active, with its holder
    fenced,        \* the fence of the library
    app,           \* "open", "starting", "refused"
    count          \* changes, faults and deaths so far

window == <<prepared, ticket, plans, ingress, rejected>>
disk == <<place, mayBe, holder, reg>>
vars == <<story, window, row, cancelled, job, disk, custody, fenced, app, count>>

Names == {Name[j] : j \in Jobs}
Stories == {Story[j] : j \in Jobs}

(* No workspace; an empty one; one with the payload; an empty one beside   *)
(* the published file; the file alone.                                     *)
Places == {"none", "dir", "payload", "published", "kept"}
Out == {"published", "kept"}
Bare == {"none", "kept"}

(* A reservation names the workspace, a full entry its owners as well.     *)
Entries == {"none", "reserved", "full"}

Ends == {"succeeded", "skipped", "conflicted", "failed", "cancelled"}

Points == {"idle", "check1", "custody", "check2", "reserve", "mkdir", "payload", "register",
           "check3", "copy", "publish", "flush", "report",
           "retire", "upgrade", "remove", "sync", "forget"}

(* mem: the entry the worker remembers; owned: it holds the directory;     *)
(* uncertain: a rename without acknowledgement.                            *)
Idle == [pc |-> "idle", outcome |-> "none", mem |-> "none", owned |-> FALSE, uncertain |-> FALSE]

TypeOK ==
    /\ story \in [Stories -> {"fine", "broken", "gone"}]
    /\ prepared \in Seq(Jobs) /\ Len(prepared) <= Limit
    /\ ticket \in Jobs \cup {Nobody} /\ ingress \in Jobs \cup {Nobody}
    /\ plans \subseteq Jobs /\ rejected \subseteq Jobs /\ cancelled \subseteq Jobs
    /\ row \in [Jobs -> Ends \cup {"absent", "queued", "running", "interrupted"}]
    /\ job \in [Jobs -> [pc: Points, outcome: Ends \cup {"none"}, mem: Entries,
                         owned: BOOLEAN, uncertain: BOOLEAN]]
    /\ place \in [Jobs -> Places] /\ mayBe \in [Jobs -> SUBSET Places]
    /\ holder \in [Names -> Jobs \cup {Nobody, Foreign}]
    /\ reg \in [Jobs -> SUBSET Entries]
    /\ custody \in Jobs \cup {Nobody} /\ fenced \in BOOLEAN
    /\ app \in {"open", "starting", "refused"}
    /\ count \in [changes: 0..MaxChanges, faults: 0..MaxFaults, deaths: 0..MaxDeaths]

Moves(j, next) == job' = [job EXCEPT ![j] = next]
Goes(j, pc) == job' = [job EXCEPT ![j].pc = pc]

Spend(what) == count' = [count EXCEPT ![what] = @ + 1]
Faulty == count.faults < MaxFaults /\ Spend("faults")

Places_(j, now, later) ==
    /\ place' = [place EXCEPT ![j] = now]
    /\ mayBe' = [mayBe EXCEPT ![j] = later]

Records(j, entries) == reg' = [reg EXCEPT ![j] = entries]

-----------------------------------------------------------------------------
(* Preview and start                                                       *)

(* The plan of the ticket is the newest: only a preview or a start that was*)
(* refused adds one, and both change the ticket.                           *)
OtherPlans == IF ticket = Nobody THEN prepared ELSE Front(prepared)

(* Controller::prepare discards the preview it replaces; Exports::prepare  *)
(* keeps the plan of one that has a ready item, if need be for the oldest. *)
Prepare(j) ==
    /\ app = "open" /\ ~fenced /\ row[j] = "absent" /\ j \notin plans /\ ingress # j
    /\ story[Story[j]] = "fine" /\ holder[Name[j]] = Nobody
    /\ prepared' = Append(IF Len(OtherPlans) < Limit THEN OtherPlans ELSE Tail(OtherPlans), j)
    /\ ticket' = j
    /\ UNCHANGED <<plans, ingress, rejected, story, row, cancelled, job, disk, custody, fenced, app, count>>

(* The probe of the destination is kept when it cannot be removed.         *)
ProbeRetained ==
    /\ app = "open" /\ ~fenced /\ Faulty
    /\ prepared' = OtherPlans
    /\ ticket' = Nobody
    /\ fenced' = TRUE
    /\ UNCHANGED <<plans, ingress, rejected, story, row, cancelled, job, disk, custody, app>>

Discard ==
    /\ app = "open" /\ ticket # Nobody
    /\ prepared' = OtherPlans
    /\ ticket' = Nobody
    /\ UNCHANGED <<plans, ingress, rejected, story, row, cancelled, job, disk, custody, fenced, app, count>>

(* Variant: an operation without a row counts as ended.                    *)
OverOrMissing(j) == row[j] \notin {"queued", "running"}

(* prune: the row says that the operation ended; no row says nothing.      *)
Over(j) == row[j] \notin {"absent", "queued", "running"}

Pruned == {j \in plans : ~ Over(j)}

(* ExportExecutor::offer.  Whatever the start meets, its ticket is spent;  *)
(* the plan is spent unless it does not fit beside those in use, which may *)
(* be few and large, or the session takes no start now.                    *)
Offer ==
    /\ app = "open" /\ ticket # Nobody
    /\ ticket' = Nobody
    /\ \/ \* ResourceLimit
          /\ Pruned # {}
          /\ plans' = Pruned /\ UNCHANGED <<prepared, ingress>>
       \/ \* Stale
          /\ Cardinality(Pruned) < Limit
          /\ fenced \/ story[Story[ticket]] # "fine"
          /\ plans' = Pruned /\ prepared' = OtherPlans /\ UNCHANGED ingress
       \/ \* QueueFull: the plan goes back
          /\ Cardinality(Pruned) < Limit
          /\ ~fenced /\ story[Story[ticket]] = "fine" /\ ingress # Nobody
          /\ plans' = Pruned /\ UNCHANGED <<prepared, ingress>>
       \/ /\ Cardinality(Pruned) < Limit
          /\ ~fenced /\ story[Story[ticket]] = "fine" /\ ingress = Nobody
          /\ plans' = Pruned \cup {ticket} /\ prepared' = OtherPlans /\ ingress' = ticket
    /\ UNCHANGED <<rejected, story, row, cancelled, job, disk, custody, fenced, app, count>>

(* The coordinator creates the operation, or the store refuses it.         *)
Admit ==
    /\ app = "open" /\ ingress # Nobody
    /\ ingress' = Nobody
    /\ \/ row' = [row EXCEPT ![ingress] = "queued"] /\ UNCHANGED <<rejected, count>>
       \/ Faulty /\ rejected' = rejected \cup {ingress} /\ UNCHANGED row
    /\ UNCHANGED <<prepared, ticket, plans, story, cancelled, job, disk, custody, fenced, app>>

(* observe_jobs and reject_admission.                                      *)
RejectAdmission(j) ==
    /\ app = "open" /\ j \in rejected
    /\ rejected' = rejected \ {j} /\ plans' = plans \ {j}
    /\ UNCHANGED <<prepared, ticket, ingress, story, row, cancelled, job, disk, custody, fenced, app, count>>

Cancel(j) ==
    /\ app = "open" /\ row[j] \in {"queued", "running"} /\ j \notin cancelled
    /\ cancelled' = cancelled \cup {j}
    /\ UNCHANGED <<story, window, row, job, disk, custody, fenced, app, count>>

-----------------------------------------------------------------------------
(* The worker: until bytes are written                                     *)

Reports(j, outcome) == Moves(j, [job[j] EXCEPT !.pc = "report", !.outcome = outcome])
Compensates(j, outcome) == Moves(j, [job[j] EXCEPT !.pc = "retire", !.outcome = outcome])

(* The coordinator starts the item and a worker takes it.                  *)
Begin(j) ==
    /\ app = "open" /\ row[j] = "queued"
    /\ row' = [row EXCEPT ![j] = "running"]
    /\ IF j \in cancelled THEN Reports(j, "cancelled")
       ELSE IF j \notin plans THEN Reports(j, "failed")
       ELSE Goes(j, "check1")
    /\ UNCHANGED <<story, window, cancelled, disk, custody, fenced, app, count>>

(* eligibility: "none" if the export may go on.                            *)
Verdict(j) ==
    IF j \in cancelled THEN "cancelled"
    ELSE IF fenced THEN "failed"
    ELSE IF story[Story[j]] # "fine" THEN "skipped"
    ELSE "none"

(* Before the source is opened, and so before custody.                     *)
FirstCheck(j) ==
    /\ job[j].pc = "check1"
    /\ IF Verdict(j) = "none" THEN Goes(j, "custody") ELSE Reports(j, Verdict(j))
    /\ UNCHANGED <<story, window, row, cancelled, disk, custody, fenced, app, count>>

(* A cancellation ends the wait for a busy custody with the error of the   *)
(* last attempt: the item is reported failed, not cancelled.               *)
TakeCustody(j) ==
    /\ job[j].pc = "custody"
    /\ \/ /\ custody = Nobody /\ ~fenced /\ j \notin cancelled
          /\ custody' = j
          /\ Goes(j, "check2")
       \/ /\ custody = Nobody /\ ~fenced /\ j \in cancelled
          /\ Reports(j, "cancelled") /\ UNCHANGED custody
       \/ /\ fenced \/ (custody # Nobody /\ j \in cancelled)
          /\ Reports(j, "failed") /\ UNCHANGED custody
    /\ UNCHANGED <<story, window, row, cancelled, disk, fenced, app, count>>

SecondCheck(j) ==
    /\ job[j].pc = "check2"
    /\ IF Verdict(j) = "none"
       THEN Goes(j, "reserve") /\ UNCHANGED custody
       ELSE Reports(j, Verdict(j)) /\ custody' = Nobody
    /\ UNCHANGED <<story, window, row, cancelled, disk, fenced, app, count>>

(* create_export_temporary refused before it owned anything.               *)
Unacquired(j) ==
    /\ job[j].pc = "reserve"
    /\ fenced \/ j \in cancelled
    /\ Compensates(j, "failed")
    /\ UNCHANGED <<story, window, row, cancelled, disk, custody, fenced, app, count>>

Reserve(j) ==
    /\ job[j].pc = "reserve" /\ ~fenced
    /\ \/ /\ Records(j, {"reserved"})
          /\ Moves(j, [job[j] EXCEPT !.pc = "mkdir", !.mem = "reserved"])
          /\ UNCHANGED <<fenced, count>>
       \/ \* refused, or not acknowledged: in both cases fenced
          /\ Faulty
          /\ \E entries \in {{"none"}, {"none", "reserved"}} : Records(j, entries)
          /\ Moves(j, [job[j] EXCEPT !.pc = "retire", !.outcome = "failed", !.mem = "reserved"])
          /\ fenced' = TRUE
    /\ UNCHANGED <<story, window, row, cancelled, place, mayBe, holder, custody, app>>

(* create_child: a directory that was made and could not be opened has no  *)
(* owner.                                                                  *)
MakeDirectory(j) ==
    /\ job[j].pc = "mkdir"
    /\ \/ /\ Places_(j, "dir", {"none", "dir"})
          /\ Moves(j, [job[j] EXCEPT !.pc = "payload", !.owned = TRUE])
          /\ UNCHANGED <<fenced, count>>
       \/ /\ Faulty
          /\ \/ Places_(j, "dir", {"none", "dir"})
             \/ UNCHANGED <<place, mayBe>>
          /\ Compensates(j, "failed")
          /\ fenced' = TRUE
    /\ UNCHANGED <<story, window, row, cancelled, holder, reg, custody, app>>

(* The payload, its directory and the destination are flushed.             *)
MakePayload(j) ==
    /\ job[j].pc = "payload"
    /\ \/ /\ Places_(j, "payload", {"payload"})
          /\ Goes(j, "register")
          /\ UNCHANGED <<fenced, count>>
       \/ /\ Faulty
          /\ \/ Places_(j, "payload", {"none", "dir", "payload"})
             \/ UNCHANGED <<place, mayBe>>
          /\ Compensates(j, "failed")
          /\ fenced' = TRUE
    /\ UNCHANGED <<story, window, row, cancelled, holder, reg, custody, app>>

(* The worker remembers the full entry before the record has it.           *)
Register(j) ==
    /\ job[j].pc = "register"
    /\ \/ /\ Records(j, {"full"})
          /\ Moves(j, [job[j] EXCEPT !.pc = "check3", !.mem = "full"])
          /\ UNCHANGED <<fenced, count>>
       \/ /\ Faulty
          /\ \E entries \in {{"reserved"}, {"reserved", "full"}} : Records(j, entries)
          /\ Moves(j, [job[j] EXCEPT !.pc = "retire", !.outcome = "failed", !.mem = "full"])
          /\ fenced' = TRUE
    /\ UNCHANGED <<story, window, row, cancelled, place, mayBe, holder, custody, app>>

ThirdCheck(j) ==
    /\ job[j].pc = "check3"
    /\ IF Verdict(j) = "none" THEN Goes(j, "copy") ELSE Compensates(j, Verdict(j))
    /\ UNCHANGED <<story, window, row, cancelled, disk, custody, fenced, app, count>>

(* Copy, flush and read-back of the private payload.                       *)
Copy(j) ==
    /\ job[j].pc = "copy"
    /\ \/ j \notin cancelled /\ ~fenced /\ Goes(j, "publish") /\ UNCHANGED count
       \/ (j \in cancelled) /\ Compensates(j, "cancelled") /\ UNCHANGED count
       \/ /\ IF fenced THEN UNCHANGED count ELSE Faulty
          /\ Compensates(j, "failed")
    /\ UNCHANGED <<story, window, row, cancelled, disk, custody, fenced, app>>

-----------------------------------------------------------------------------
(* The worker: publication                                                 *)

(* Variant: a rename that is known counts as done.                         *)
PendingUntilKnown(j) == job[j].uncertain

(* publication_pending: from here on the export can only go forward.       *)
Pending(j) == job[j].uncertain \/ job[j].pc = "flush"

(* An error while nothing is pending.                                      *)
PublishRefused(j) ==
    /\ job[j].pc \in {"publish", "flush"} /\ ~ Pending(j) /\ fenced
    /\ Compensates(j, "failed")
    /\ UNCHANGED <<story, window, row, cancelled, disk, custody, fenced, app, count>>

(* Which of the two names has the payload; then the same call goes on.     *)
Reconcile(j) ==
    /\ job[j].pc = "publish" /\ job[j].uncertain /\ ~fenced
    /\ Moves(j, [job[j] EXCEPT !.uncertain = FALSE,
                               !.pc = IF place[j] = "published" THEN "flush" ELSE "publish"])
    /\ UNCHANGED <<story, window, row, cancelled, disk, custody, fenced, app, count>>

(* Variant: a rename that replaces.                                        *)
NeverClash(j) == FALSE

(* EEXIST of the rename without replacement.                               *)
Clash(j) == holder[Name[j]] # Nobody

Lands(j) ==
    /\ Places_(j, "published", {"payload", "published"})
    /\ holder' = [holder EXCEPT ![Name[j]] = j]

Publish(j) ==
    /\ job[j].pc = "publish" /\ ~job[j].uncertain /\ ~fenced
    /\ \/ /\ Clash(j) /\ Compensates(j, "conflicted")
          /\ UNCHANGED <<place, mayBe, holder, count>>
       \/ /\ ~ Clash(j) /\ Lands(j)
          /\ Goes(j, "flush")
          /\ UNCHANGED count
       \/ \* any other error: whether it was renamed is looked up later
          /\ ~ Clash(j) /\ Faulty
          /\ Lands(j) \/ UNCHANGED <<place, mayBe, holder>>
          /\ Moves(j, [job[j] EXCEPT !.uncertain = TRUE])
    /\ UNCHANGED <<story, window, row, cancelled, reg, custody, fenced, app>>

(* Both directories.  A failure is tried again; behind the fence the       *)
(* worker waits for ever.                                                  *)
Flush(j) ==
    /\ job[j].pc = "flush" /\ ~fenced
    /\ \/ mayBe' = [mayBe EXCEPT ![j] = {"published"}] /\ Reports(j, "succeeded") /\ UNCHANGED count
       \/ Faulty /\ UNCHANGED <<mayBe, job>>
    /\ UNCHANGED <<story, window, row, cancelled, place, holder, reg, custody, fenced, app>>

-----------------------------------------------------------------------------
(* Report, compensation and settlement                                     *)

(* Variant: custody is not given back.                                     *)
DoneKeepsCustody(j) == Moves(j, Idle) /\ UNCHANGED custody

Done(j) == Moves(j, Idle) /\ custody' = IF custody = j THEN Nobody ELSE custody

(* A committed export still has its workspace, a compensated one has not.  *)
Report(j) ==
    /\ job[j].pc = "report"
    /\ row' = [row EXCEPT ![j] = job[j].outcome]
    /\ IF job[j].outcome = "succeeded"
       THEN Goes(j, "retire") /\ UNCHANGED custody
       ELSE Done(j)
    /\ UNCHANGED <<story, window, cancelled, disk, fenced, app, count>>

Retired(j) ==
    IF row[j] = "running" THEN Goes(j, "report") /\ UNCHANGED custody ELSE Done(j)

(* retire_registered: the record is read again if it was in doubt.  An     *)
(* entry that misses owners the worker has is completed first.             *)
Retire(j) ==
    /\ job[j].pc = "retire"
    /\ IF job[j].mem = "none"
       THEN Retired(j) /\ UNCHANGED reg
       ELSE /\ \E entry \in reg[j] : Records(j, {entry})
            /\ Goes(j, IF job[j].mem = "reserved" /\ job[j].owned THEN "upgrade" ELSE "remove")
            /\ UNCHANGED custody
    /\ UNCHANGED <<story, window, row, cancelled, place, mayBe, holder, fenced, app, count>>

Upgrade(j) ==
    /\ job[j].pc = "upgrade"
    /\ \/ /\ Records(j, {"full"})
          /\ Moves(j, [job[j] EXCEPT !.pc = "remove", !.mem = "full"])
          /\ UNCHANGED <<fenced, count>>
       \/ /\ Faulty
          /\ Records(j, reg[j] \cup {"full"})
          /\ Goes(j, "retire")
          /\ fenced' = TRUE
    /\ UNCHANGED <<story, window, row, cancelled, place, mayBe, holder, custody, app>>

Without(p) == IF p \in Out THEN "kept" ELSE "none"

(* unlink, flush of the workspace, rmdir.  A workspace without an owner is *)
(* never removed: the worker tries for ever.                               *)
RemoveSpace(j) ==
    /\ job[j].pc = "remove"
    /\ job[j].owned \/ place[j] \in Bare
    /\ \/ /\ Places_(j, Without(place[j]),
                        (IF place[j] = "payload" THEN {"dir"} ELSE mayBe[j]) \cup {Without(place[j])})
          /\ Goes(j, "sync")
          /\ UNCHANGED count
       \/ /\ Faulty
          /\ Goes(j, "retire")
          /\ IF place[j] = "payload"
             THEN Places_(j, "dir", mayBe[j] \cup {"dir"})
             ELSE UNCHANGED <<place, mayBe>>
    /\ UNCHANGED <<story, window, row, cancelled, holder, reg, custody, fenced, app>>

(* Variant: the destination is not flushed.                                *)
SyncNothing(j) ==
    /\ job[j].pc = "sync"
    /\ Goes(j, "forget")
    /\ UNCHANGED <<story, window, row, cancelled, disk, custody, fenced, app, count>>

(* The flush of the destination.                                           *)
Sync(j) ==
    /\ job[j].pc = "sync"
    /\ \/ /\ mayBe' = [mayBe EXCEPT ![j] = {place[j]}]
          /\ Goes(j, "forget") /\ UNCHANGED count
       \/ Faulty /\ Goes(j, "retire") /\ UNCHANGED mayBe
    /\ UNCHANGED <<story, window, row, cancelled, place, holder, reg, custody, fenced, app>>

(* forget_temporary drops the entry that equals the remembered one: a      *)
(* reservation that was never completed stays in the record.               *)
Forget(j) ==
    /\ job[j].pc = "forget"
    /\ \/ /\ Records(j, IF reg[j] = {job[j].mem} THEN {"none"} ELSE reg[j])
          /\ Retired(j)
          /\ UNCHANGED <<fenced, count>>
       \/ /\ Faulty
          /\ Records(j, reg[j] \cup IF reg[j] = {job[j].mem} THEN {"none"} ELSE {})
          /\ Goes(j, "retire") /\ UNCHANGED custody
          /\ fenced' = TRUE
    /\ UNCHANGED <<story, window, row, cancelled, place, mayBe, holder, app>>

Work(j) ==
    \/ FirstCheck(j) \/ TakeCustody(j) \/ SecondCheck(j) \/ Unacquired(j) \/ Reserve(j)
    \/ MakeDirectory(j) \/ MakePayload(j) \/ Register(j) \/ ThirdCheck(j) \/ Copy(j)
    \/ PublishRefused(j) \/ Reconcile(j) \/ Publish(j) \/ Flush(j)
    \/ Report(j) \/ Retire(j) \/ Upgrade(j) \/ RemoveSpace(j) \/ Sync(j) \/ Forget(j)

-----------------------------------------------------------------------------
(* The rest of the world                                                   *)

(* A flag is a transaction, it needs no custody.                           *)
Flag(s) ==
    /\ app = "open" /\ ~fenced /\ count.changes < MaxChanges /\ story[s] # "gone"
    /\ story' = [story EXCEPT ![s] = IF @ = "fine" THEN "broken" ELSE "fine"]
    /\ Spend("changes")
    /\ UNCHANGED <<window, row, cancelled, job, disk, custody, fenced, app>>

(* StoryRemoval, in one step.                                              *)
RemoveStory(s) ==
    /\ app = "open" /\ custody = Nobody /\ ~fenced
    /\ count.changes < MaxChanges /\ story[s] # "gone"
    /\ story' = [story EXCEPT ![s] = "gone"]
    /\ Spend("changes")
    /\ UNCHANGED <<window, row, cancelled, job, disk, custody, fenced, app>>

(* Somebody else puts a file into the destination.                         *)
Intrude(n) ==
    /\ holder[n] = Nobody
    /\ holder' = [holder EXCEPT ![n] = Foreign]
    /\ UNCHANGED <<story, window, row, cancelled, job, place, mayBe, reg, custody, fenced, app, count>>

(* Another transaction of the library has an uncertain commit.             *)
OtherUncertain ==
    /\ app = "open" /\ ~fenced /\ Faulty
    /\ fenced' = TRUE
    /\ UNCHANGED <<story, window, row, cancelled, job, disk, custody, app>>

Dies ==
    /\ app = "open" \/ app = "starting"
    /\ count.deaths < MaxDeaths /\ Spend("deaths")
    /\ prepared' = <<>> /\ ticket' = Nobody /\ plans' = {} /\ ingress' = Nobody /\ rejected' = {}
    /\ cancelled' = {} /\ job' = [j \in Jobs |-> Idle]
    /\ reg' \in [Jobs -> {{e} : e \in Entries}] /\ \A j \in Jobs : reg'[j] \subseteq reg[j]
    /\ custody' = Nobody /\ fenced' = FALSE /\ app' = "starting"
    /\ UNCHANGED <<story, row>>

Crash == Dies /\ UNCHANGED <<place, mayBe, holder>>

LosePower ==
    /\ Dies
    /\ place' \in [Jobs -> Places] /\ \A j \in Jobs : place'[j] \in mayBe[j]
    /\ mayBe' = [j \in Jobs |-> {place'[j]}]
    /\ holder' = [n \in Names |->
            IF holder[n] \in Jobs /\ place'[holder[n]] \notin Out THEN Nobody ELSE holder[n]]

(* The record names the owners of what is there.                           *)
Proven(j) == reg[j] = {"full"} \/ place[j] \in Bare

(* recover_native_temporaries: one workspace goes, and then its entry.     *)
Recover(j) ==
    /\ app = "starting" /\ reg[j] # {"none"} /\ Proven(j)
    /\ IF place[j] \in Bare /\ mayBe[j] = {place[j]}
       THEN Records(j, {"none"}) /\ UNCHANGED <<place, mayBe>>
       ELSE Places_(j, Without(place[j]), {Without(place[j])}) /\ UNCHANGED reg
    /\ UNCHANGED <<story, window, row, cancelled, job, holder, custody, fenced, app, count>>

(* recover_operation_startup interrupts what ran, whatever the cleanup     *)
(* met.  A destination that is away is met as well.                        *)
Start ==
    /\ app = "starting"
    /\ \/ (\A j \in Jobs : reg[j] = {"none"}) /\ app' = "open" /\ UNCHANGED count
       \/ (\E j \in Jobs : ~ Proven(j) /\ reg[j] # {"none"}) /\ app' = "refused" /\ UNCHANGED count
       \/ (\E j \in Jobs : reg[j] # {"none"}) /\ Faulty /\ app' = "refused"
    /\ row' = [j \in Jobs |-> IF row[j] \in {"queued", "running"} THEN "interrupted" ELSE row[j]]
    /\ UNCHANGED <<story, window, cancelled, job, disk, custody, fenced>>

StartAgain ==
    /\ app = "refused" /\ app' = "starting"
    /\ UNCHANGED <<story, window, row, cancelled, job, disk, custody, fenced, count>>

Init ==
    /\ story = [s \in Stories |-> "fine"]
    /\ prepared = <<>> /\ ticket = Nobody /\ plans = {} /\ ingress = Nobody /\ rejected = {}
    /\ row = [j \in Jobs |-> "absent"] /\ cancelled = {}
    /\ job = [j \in Jobs |-> Idle]
    /\ place = [j \in Jobs |-> "none"] /\ mayBe = [j \in Jobs |-> {"none"}]
    /\ holder = [n \in Names |-> Nobody]
    /\ reg = [j \in Jobs |-> {"none"}]
    /\ custody = Nobody /\ fenced = FALSE /\ app = "open"
    /\ count = [changes |-> 0, faults |-> 0, deaths |-> 0]

Next ==
    \/ ProbeRetained \/ Discard \/ Offer \/ Admit
    \/ \E j \in Jobs : Prepare(j) \/ RejectAdmission(j) \/ Cancel(j) \/ Begin(j) \/ Work(j) \/ Recover(j)
    \/ \E s \in Stories : Flag(s) \/ RemoveStory(s)
    \/ \E n \in Names : Intrude(n)
    \/ OtherUncertain \/ Crash \/ LosePower \/ Start \/ StartAgain

(* Workers run until their item is settled.                                *)
Spec ==
    /\ Init /\ [][Next]_vars
    /\ \A j \in Jobs : WF_vars(Work(j))

-----------------------------------------------------------------------------
(* Properties                                                              *)

(* What the database says of an export is so, also after a loss of power:  *)
(* a succeeded one has its file, flushed, under its name; a skipped,       *)
(* conflicted, failed or cancelled one has none.  The story of an export   *)
(* that is not yet settled is still in the library (publish_registered,    *)
(* and the custody that execute hands to settle).                          *)
ExportReportIsTrue ==
    \A j \in Jobs :
        /\ row[j] = "succeeded" => holder[Name[j]] = j /\ mayBe[j] \subseteq Out
        /\ row[j] \in Ends \ {"succeeded"} => holder[Name[j]] # j /\ mayBe[j] \cap Out = {}
        /\ job[j].outcome = "succeeded" => story[Story[j]] # "gone"

(* What has a name in the destination keeps it: no file is replaced, and   *)
(* none is removed by a compensation, a settlement or a recovery.  A loss  *)
(* of power takes only a file that was not yet reported, and never will be:*)
(* the start after it interrupts the item.                                 *)
DestinationIsKept ==
    [][ \A n \in Names : holder[n] # Nobody =>
            \/ holder'[n] = holder[n]
            \/ app' = "starting" /\ holder[n] \in Jobs /\ row[holder[n]] \notin Ends ]_vars

(* Every workspace that is in the destination, or that a loss of power     *)
(* could bring back, is named by the record, whatever becomes of the       *)
(* record's last write; and none is left behind by an export that is over. *)
WorkspaceIsRecorded ==
    \A j \in Jobs :
        /\ ~ (mayBe[j] \cup {place[j]} \subseteq Bare) => "none" \notin reg[j]
        /\ app = "open" /\ job[j].pc = "idle" => mayBe[j] \cup {place[j]} \subseteq Bare

(* An operation that waits or runs has its plan, and is not reported failed*)
(* for the want of it.                                                     *)
PlanIsKept ==
    app = "open" => \A j \in Jobs : row[j] \in {"queued", "running"} => j \in plans

(* A publication behind the fence and a workspace without an owner are     *)
(* tried for ever.                                                         *)
Stuck(j) ==
    \/ fenced /\ Pending(j)
    \/ job[j].pc = "remove" /\ ~job[j].owned /\ place[j] \notin Bare

(* Every other export comes to its end, also behind the fence, and does    *)
(* not keep the others from theirs.                                        *)
ExportEnds ==
    \A j \in Jobs :
        job[j].pc # "idle" ~> job[j].pc = "idle" \/ app # "open" \/ \E k \in Jobs : Stuck(k)
=============================================================================
