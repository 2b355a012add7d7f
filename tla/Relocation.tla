------------------------------ MODULE Relocation ------------------------------
(***************************************************************************)
(* Moving a complete library to another folder:                            *)
(*   crates/librairii-storage/src/native/owned/relocation.rs,              *)
(*   crates/librairii-storage/src/profile/relocation.rs (the journal),     *)
(*   crates/librairii-storage/src/profile.rs (publication of the profile), *)
(*   crates/librairii-desktop/src/startup_flow.rs (recovery at start).     *)
(*                                                                         *)
(* The library is copied to a private workspace, verified, renamed to its  *)
(* target, and becomes the library when the profile names it.  Only then   *)
(* is the old folder emptied, file by file.  A process may die, and power  *)
(* may fail, at any step.                                                  *)
(***************************************************************************)
EXTENDS Naturals, FiniteSets

CONSTANTS
    Roots,            \* folders a library can be in
    Home,             \* where it is at first
    Data,             \* its database, archives and other managed files
    Versions,         \* contents a file can have
    MaxMoves,         \* bound: moves begun
    MaxFaults,        \* bound: failing calls and interferences
    MaxDeaths,        \* bound: processes that die, if the power never fails
    MaxOutages        \* bound: power losses, if no process dies

Entries == Data \cup {"identity"}
Content == Versions \cup {"absent", "partial", "foreign"}

ASSUME HomeAssumption == Home \in Roots
ASSUME DataAssumption == "identity" \notin Data
ASSUME VersionsAssumption ==
    /\ "original" \in Versions
    /\ Versions \cap {"absent", "partial", "foreign"} = {}
ASSUME BoundsAssumption ==
    MaxMoves \in Nat /\ MaxFaults \in Nat /\ MaxDeaths \in Nat \ {0} /\ MaxOutages \in Nat

VARIABLES
    tree,       \* content of the library folder made for each root
    control,    \* its control files
    epoch,      \* epoch in its native state record
    proof,      \* move proof in that record, 0 for none
    place,      \* where that folder is
    mayBe,      \* where a power loss may leave it
    extra,      \* roots in which somebody put a file of his own
    loose,      \* copied files that were never flushed, with their root
    profile,    \* root named by the profile
    profiles,   \* roots it may name after a power loss
    residue,    \* a staged or displaced profile is left in the namespace
    journal,    \* the move journal
    app,        \* what the application is doing
    at,         \* where a move or its recovery is
    intent,     \* Attempt.intent
    att,        \* the flags of Attempt
    truth,      \* the library as its user knows it
    damage,     \* its files that a power loss took
    moves, faults, deaths, outages

disk == <<tree, control, epoch, proof, place, mayBe, extra, loose>>
namespace == <<profile, profiles, residue, journal>>
attempt == <<intent, att>>
counters == <<moves, faults, deaths, outages>>
vars == <<disk, namespace, app, at, attempt, truth, damage, counters>>

Controls == {"state", "lock"}
Places == {"none", "workspace", "there"}

Intents == [move: 0..MaxMoves, src: Roots, dst: Roots, selected: BOOLEAN,
            epoch: Nat, manifest: [Entries -> Content]]
Attempts == [journal: BOOLEAN, published: BOOLEAN, uncertain: BOOLEAN,
             committed: BOOLEAN, pending: BOOLEAN, startup: BOOLEAN]
Journals == [state: {"none", "torn", "intent", "retired"}, intent: Intents]
Steps == {"own", "journal", "jflush", "copy", "flush", "check", "commit", "sync",
          "finish", "clean", "ack", "controls", "rmdir", "close", "reopen", "idle"}

TypeOK ==
    /\ tree \in [Roots -> [Entries -> Content]]
    /\ control \in [Roots -> SUBSET Controls]
    /\ epoch \in [Roots -> Nat]
    /\ proof \in [Roots -> 0..MaxMoves]
    /\ place \in [Roots -> Places]
    /\ mayBe \in [Roots -> SUBSET Places]
    /\ extra \subseteq Roots
    /\ loose \subseteq Roots \X Entries
    /\ profile \in Roots /\ profiles \subseteq Roots
    /\ residue \in BOOLEAN
    /\ journal \in Journals
    /\ app \in {"start", "asks", "open", "move", "failed", "recover", "refused"}
    /\ at \in Steps
    /\ intent \in Intents /\ att \in Attempts
    /\ truth \in [Entries -> Versions] /\ damage \subseteq Entries
    /\ moves \in 0..MaxMoves /\ faults \in 0..MaxFaults
    /\ deaths \in 0..MaxDeaths /\ outages \in 0..MaxOutages

Nothing == [e \in Entries |-> "absent"]
Original == [e \in Entries |-> "original"]
NoIntent == [move |-> 0, src |-> Home, dst |-> Home, selected |-> FALSE,
             epoch |-> 0, manifest |-> Nothing]
NewAttempt == [journal |-> FALSE, published |-> FALSE, uncertain |-> FALSE,
               committed |-> FALSE, pending |-> FALSE, startup |-> FALSE]
NoJournal == [state |-> "none", intent |-> NoIntent]

Init ==
    /\ tree = [r \in Roots |-> IF r = Home THEN Original ELSE Nothing]
    /\ control = [r \in Roots |-> IF r = Home THEN Controls ELSE {}]
    /\ epoch = [r \in Roots |-> IF r = Home THEN 1 ELSE 0]
    /\ proof = [r \in Roots |-> 0]
    /\ place = [r \in Roots |-> IF r = Home THEN "there" ELSE "none"]
    /\ mayBe = [r \in Roots |-> {place[r]}]
    /\ extra = {} /\ loose = {}
    /\ profile = Home /\ profiles = {Home}
    /\ residue = FALSE
    /\ journal = NoJournal
    /\ app = "open" /\ at = "idle"
    /\ intent = NoIntent /\ att = NewAttempt
    /\ truth = Original /\ damage = {}
    /\ moves = 0 /\ faults = 0 /\ deaths = 0 /\ outages = 0

src == intent.src
dst == intent.dst

Fault == faults < MaxFaults /\ faults' = faults + 1 /\ UNCHANGED <<moves, deaths, outages>>

----------------------------------------------------------------------------
(* Use of the open library.                                                *)

(* A mutation through the database runtime, at the root it is bound to.    *)
Edit(d, v) ==
    /\ app = "open"
    /\ tree[profile][d] # v
    /\ tree' = [tree EXCEPT ![profile][d] = v]
    /\ truth' = [truth EXCEPT ![d] = v]
    /\ UNCHANGED <<control, epoch, proof, place, mayBe, extra, loose, namespace, app, at, attempt, damage, counters>>

(* Opening writes a new epoch into the state record.                       *)
OpenAt(r) ==
    /\ app' = "open" /\ at' = "idle"
    /\ epoch' = [epoch EXCEPT ![r] = @ + 1]

(* The library is opened, closed, and the application starts over.         *)
CloseAt(r) ==
    /\ app' = "start" /\ at' = "idle"
    /\ epoch' = [epoch EXCEPT ![r] = @ + 1]

----------------------------------------------------------------------------
(* Attempt::run, up to the commit.                                         *)

Go(step) == app' = app /\ at' = step

(* An error of run() leaves a RelocationFailure, an error of               *)
(* recover_relocation a refused start.                                     *)
Fail == app' = (IF app = "recover" THEN "refused" ELSE "failed") /\ UNCHANGED at

Working(step) == app = "move" /\ at = step

(* The library is closed, its manifest captured, the workspace created.    *)
BeginMove(t, sel) ==
    /\ app = "open" /\ moves < MaxMoves
    /\ t # profile /\ place[t] = "none"
    /\ intent' = [move |-> moves + 1, src |-> profile, dst |-> t, selected |-> sel,
                  epoch |-> epoch[profile], manifest |-> tree[profile]]
    /\ att' = NewAttempt
    /\ place' = [place EXCEPT ![t] = IF sel THEN "there" ELSE "workspace"]
    /\ mayBe' = [mayBe EXCEPT ![t] = {place'[t]}]
    /\ tree' = [tree EXCEPT ![t] = Nothing]
    /\ control' = [control EXCEPT ![t] = {}]
    /\ proof' = [proof EXCEPT ![t] = 0]
    /\ extra' = extra \ {t}
    /\ loose' = {x \in loose: x[1] # t}
    /\ app' = "move" /\ at' = "own"
    /\ moves' = moves + 1
    /\ UNCHANGED <<epoch, namespace, truth, damage, faults, deaths, outages>>

(* Variant: the parent of the workspace is not flushed again.              *)
ParentUnflushed == mayBe' = mayBe

(* A rename whose flush failed is completed by this flush.                 *)
FlushParent == mayBe' = [mayBe EXCEPT ![dst] = {place[dst]}]

(* Parent flushed, lease and state record created or taken over, an earlier*)
(* publication recognised.                                                 *)
Own ==
    /\ Working("own")
    /\ \/ /\ FlushParent
          /\ control' = [control EXCEPT ![dst] = Controls]
          /\ proof' = [proof EXCEPT ![dst] = intent.move]
          /\ epoch' = [epoch EXCEPT ![dst] = intent.epoch]
          /\ att' = [att EXCEPT !.published = @ \/ (~intent.selected /\ place[dst] = "there")]
          /\ Go(IF ~att.journal THEN "journal" ELSE IF att'.published THEN "check" ELSE "copy")
          /\ UNCHANGED counters
       \/ /\ Fault /\ Fail
          /\ UNCHANGED <<mayBe, control, proof, epoch, att>>
    /\ UNCHANGED <<tree, place, extra, loose, namespace, intent, truth, damage>>

(* create_move_journal, up to the write.  Another journal is in the way.   *)
WriteJournal ==
    /\ Working("journal")
    /\ \/ /\ journal.state = "none" \/ journal.intent = intent
          /\ journal' = [state |-> "torn", intent |-> intent]
          /\ Go("jflush")
       \/ /\ journal.state # "none" /\ journal.intent # intent
          /\ Fail
          /\ UNCHANGED journal
    /\ UNCHANGED <<disk, profile, profiles, residue, attempt, truth, damage, counters>>

(* What a failed or interrupted write can leave of the journal.            *)
TornJournals == {[journal EXCEPT !.state = s]: s \in {"torn", "intent"}}

FlushJournal ==
    /\ Working("jflush")
    /\ \/ /\ journal' = [journal EXCEPT !.state = "intent"]
          /\ att' = [att EXCEPT !.journal = TRUE]
          /\ Go(IF att.published THEN "check" ELSE "copy")
          /\ UNCHANGED counters
       \/ /\ Fault /\ Fail
          /\ journal' \in TornJournals
          /\ UNCHANGED att
    /\ UNCHANGED <<disk, profile, profiles, residue, intent, truth, damage>>

(* copy_entry: never over anything but an absent file.  After a failure the*)
(* file may be there in part or whole, and it, or the directory made for   *)
(* it, without a flush.  A whole file is not looked at again: the next     *)
(* attempt accepts it and flushes neither.                                 *)
Copy(e) ==
    /\ Working("copy")
    /\ tree[dst][e] # intent.manifest[e]
    /\ \/ /\ tree[src][e] = intent.manifest[e] /\ tree[dst][e] = "absent"
          /\ tree' = [tree EXCEPT ![dst][e] = intent.manifest[e]]
          /\ Go("copy")
          /\ UNCHANGED <<loose, counters>>
       \/ /\ tree[src][e] # intent.manifest[e] \/ tree[dst][e] # "absent"
          /\ Fail
          /\ UNCHANGED <<tree, loose, counters>>
       \/ /\ Fault /\ Fail
          /\ tree[dst][e] = "absent"
          /\ \E c \in {"absent", "partial", intent.manifest[e]}: tree' = [tree EXCEPT ![dst][e] = c]
          /\ loose' \in {loose, loose \cup {<<dst, e>>}}
    /\ UNCHANGED <<control, epoch, proof, place, mayBe, extra, namespace, attempt, truth, damage>>

(* verify_copy                                                             *)
Verified == tree[dst] = intent.manifest

(* source.relocation_manifest() = intent.manifest; the manifest covers the *)
(* state record too.                                                       *)
SourceSame == tree[src] = intent.manifest /\ epoch[src] = intent.epoch

(* publish_directory; a selected mount point is its own workspace.         *)
Publish ==
    /\ Working("copy") /\ Verified
    /\ \/ /\ SourceSame /\ intent.selected
          /\ att' = [att EXCEPT !.published = TRUE]
          /\ Go("check")
          /\ UNCHANGED <<place, mayBe, counters>>
       \/ /\ SourceSame /\ ~intent.selected
          /\ place' = [place EXCEPT ![dst] = "there"]
          /\ mayBe' = [mayBe EXCEPT ![dst] = {"workspace", "there"}]
          /\ Go("flush")
          /\ UNCHANGED <<att, counters>>
       \/ /\ ~SourceSame /\ Fail
          /\ UNCHANGED <<att, place, mayBe, counters>>
       \/ /\ Fault /\ Fail
          /\ UNCHANGED <<att, place, mayBe>>
    /\ UNCHANGED <<tree, control, epoch, proof, extra, loose, namespace, intent, truth, damage>>

FlushPublished ==
    /\ Working("flush")
    /\ \/ /\ mayBe' = [mayBe EXCEPT ![dst] = {place[dst]}]
          /\ att' = [att EXCEPT !.published = TRUE]
          /\ Go("check")
          /\ UNCHANGED counters
       \/ /\ Fault /\ Fail
          /\ UNCHANGED <<mayBe, att>>
    /\ UNCHANGED <<tree, control, epoch, proof, place, extra, loose, namespace, intent, truth, damage>>

(* The checks after publication, repeated just before the commit.          *)
MayCommit == Verified /\ SourceSame

Check ==
    /\ Working("check")
    /\ \/ MayCommit /\ Go("commit") /\ UNCHANGED counters
       \/ ~MayCommit /\ Fail /\ UNCHANGED counters
       \/ Fault /\ Fail
    /\ UNCHANGED <<disk, namespace, attempt, truth, damage>>

----------------------------------------------------------------------------
(* The commit: ProfileBinding::retarget and update_unix.                   *)

(* Variant: a failed publication is reported as not committed.             *)
NeverUncertain == FALSE

(* publication_uncertain is set before anything is published.              *)
Uncertain == TRUE

(* The staged profile is exchanged with the old one, which stays under the *)
(* temporary name; or it is refused before.                                *)
Exchange ==
    /\ Working("commit")
    /\ att' = [att EXCEPT !.uncertain = Uncertain]
    /\ \/ /\ profile' = dst
          /\ profiles' = {src, dst}
          /\ residue' = TRUE
          /\ Go("sync")
          /\ UNCHANGED counters
       \/ /\ Fault /\ Fail
          /\ residue' \in BOOLEAN
          /\ UNCHANGED <<profile, profiles>>
    /\ UNCHANGED <<disk, journal, intent, truth, damage>>

(* The namespace is flushed, the displaced profile removed.                *)
Sync ==
    /\ Working("sync")
    /\ \/ /\ profiles' = {dst}
          /\ residue' = FALSE
          /\ att' = [att EXCEPT !.uncertain = FALSE, !.committed = TRUE]
          /\ Go("finish")
          /\ UNCHANGED counters
       \/ /\ Fault /\ Fail
          /\ \/ profiles' \in {profiles, {dst}} /\ UNCHANGED residue
             \/ profiles' = {dst} /\ residue' = FALSE
          /\ UNCHANGED att
    /\ UNCHANGED <<disk, profile, journal, intent, truth, damage>>

----------------------------------------------------------------------------
(* finish and cleanup_tree, shared by the move and by the recovery.        *)

Cleaning(step) == app \in {"move", "recover"} /\ at = step

Pending(step) == att' = [att EXCEPT !.pending = TRUE] /\ Go(step)

Retired == journal.state = "retired"

(* The source folder can be cleaned: it is there, with its lock and with   *)
(* the state that was copied; with the receipt, whatever is left of it.    *)
Cleanable == Retired \/ (place[src] = "there" /\ "lock" \in control[src] /\ epoch[src] = intent.epoch)

(* The destination is verified once more before anything is removed.       *)
Finish ==
    /\ Cleaning("finish")
    /\ \/ /\ Verified /\ (app = "recover" => Cleanable)
          /\ att' = [att EXCEPT !.pending = FALSE]
          /\ Go("clean")
          /\ UNCHANGED counters
       \/ /\ app = "recover" /\ (~Verified \/ ~Cleanable)
          /\ Pending("close")
          /\ UNCHANGED counters
       \/ /\ app = "move" /\ Fail
          /\ IF Verified THEN Fault ELSE UNCHANGED counters
          /\ UNCHANGED att
       \/ /\ app = "recover" /\ Fault /\ Pending("close")
    /\ UNCHANGED <<disk, namespace, intent, truth, damage>>

(* Variant: whatever stands under the recorded name is removed.            *)
RemovableByName(d) == tree[src][d] # "absent"

(* A recorded file is removed only if it is still the recorded one.        *)
Removable(d) == tree[src][d] # "absent" /\ tree[src][d] = intent.manifest[d]

Clean(d) ==
    /\ Cleaning("clean") /\ ~Retired
    /\ Removable(d)
    /\ \/ /\ tree' = [tree EXCEPT ![src][d] = "absent"]
          /\ Go("clean")
          /\ UNCHANGED <<att, counters>>
       \/ /\ Fault /\ Pending("clean")
          /\ \E c \in {"absent", tree[src][d]}: tree' = [tree EXCEPT ![src][d] = c]
    /\ UNCHANGED <<control, epoch, proof, place, mayBe, extra, loose, namespace, intent, truth, damage>>

(* Variant: recorded files that had to stay are not seen.                  *)
LeftOnlyExtra == src \in extra

(* Anything of the library, or of somebody else, is left.                  *)
Left == src \in extra \/ \E d \in Data: tree[src][d] # "absent"

Cleaned ==
    /\ Cleaning("clean")
    /\ Retired \/ att.pending \/ \A d \in Data: ~Removable(d)
    /\ IF att.pending \/ Left THEN Pending("close")
       ELSE Go(IF Retired THEN "controls" ELSE "ack") /\ UNCHANGED att
    /\ UNCHANGED <<disk, namespace, intent, truth, damage, counters>>

(* acknowledge_move_retirement                                             *)
Receipt == journal' = [journal EXCEPT !.state = "retired"]

(* Any flush of the namespace also makes the profile durable.              *)
FlushNamespace == profiles' = {profile}

(* The control files are as recorded: the receipt is written first.        *)
Acknowledge ==
    /\ Cleaning("ack")
    /\ \/ /\ control[src] = Controls /\ tree[src]["identity"] = intent.manifest["identity"]
          /\ epoch[src] = intent.epoch /\ journal.state = "intent"
          /\ Receipt /\ FlushNamespace
          /\ Go("controls")
          /\ UNCHANGED <<att, counters>>
       \/ /\ \/ control[src] # Controls \/ tree[src]["identity"] # intent.manifest["identity"]
             \/ epoch[src] # intent.epoch \/ journal.state # "intent"
          /\ Pending("close")
          /\ UNCHANGED <<journal, profiles, counters>>
       \/ /\ Fault /\ Pending("close")
          /\ journal' \in {journal, [journal EXCEPT !.state = IF @ = "intent" THEN "retired" ELSE @]}
          /\ UNCHANGED profiles
    /\ UNCHANGED <<disk, profile, residue, intent, truth, damage>>

(* Identity, state and lock, in that order.                                *)
RemoveControls ==
    /\ Cleaning("controls")
    /\ \/ /\ tree[src]["identity"] # "absent"
          /\ tree' = [tree EXCEPT ![src]["identity"] = "absent"]
          /\ UNCHANGED control /\ Go("controls")
       \/ /\ tree[src]["identity"] = "absent" /\ control[src] # {}
          /\ control' = [control EXCEPT ![src] = IF "state" \in @ THEN @ \ {"state"} ELSE {}]
          /\ UNCHANGED tree /\ Go("controls")
       \/ /\ tree[src]["identity"] = "absent" /\ control[src] = {}
          /\ UNCHANGED <<tree, control>> /\ Go("rmdir")
    /\ UNCHANGED <<epoch, proof, place, mayBe, extra, loose, namespace, attempt, truth, damage, counters>>

ControlsFail ==
    /\ Cleaning("controls")
    /\ Fault /\ Pending("close")
    /\ UNCHANGED <<disk, namespace, intent, truth, damage>>

(* The folder goes only if it is empty.                                    *)
RemoveFolder ==
    /\ Cleaning("rmdir")
    /\ \/ /\ place[src] = "there" /\ src \notin extra
          /\ place' = [place EXCEPT ![src] = "none"]
          /\ mayBe' = [mayBe EXCEPT ![src] = {"none"}]
          /\ UNCHANGED <<att, counters>> /\ Go("close")
       \/ /\ place[src] # "there" \/ src \in extra
          /\ Pending("close")
          /\ UNCHANGED <<place, mayBe, counters>>
       \/ /\ Fault /\ Pending("close")
          /\ UNCHANGED <<place, mayBe>>
    /\ UNCHANGED <<tree, control, epoch, proof, extra, loose, namespace, intent, truth, damage>>

(* The journal is read, and retired if nothing is pending or the receipt is*)
(* there; the move then returns the destination (a move retried by the     *)
(* start only closes it again and starts over), the recovery goes on to    *)
(* reopen.                                                                 *)
CloseMove ==
    /\ Cleaning("close")
    /\ \/ /\ IF ~att.pending \/ Retired
             THEN journal.state # "none" /\ journal' = NoJournal /\ FlushNamespace
             ELSE UNCHANGED <<journal, profiles>>
          /\ \/ app = "move" /\ ~att.startup /\ OpenAt(dst)
             \/ app = "move" /\ att.startup /\ CloseAt(dst)
             \/ app = "recover" /\ Go("reopen") /\ UNCHANGED epoch
          /\ UNCHANGED counters
       \/ /\ Fault /\ Fail
          /\ journal' \in IF ~att.pending \/ Retired THEN {journal, NoJournal} ELSE {journal}
          /\ UNCHANGED <<epoch, profiles>>
    /\ UNCHANGED <<tree, control, proof, place, mayBe, extra, loose, profile, residue, attempt, truth, damage>>

----------------------------------------------------------------------------
(* After a failure, in the same process.                                   *)

(* RelocationFailure::retry: nothing while the publication is uncertain.   *)
Retry ==
    /\ app = "failed" /\ ~att.uncertain
    /\ app' = "move"
    /\ at' = IF att.committed THEN "finish" ELSE "own"
    /\ UNCHANGED <<disk, namespace, attempt, truth, damage, counters>>

(* resume_source and abort: the copy stays, the journal goes if it was     *)
(* acknowledged, and once it is gone it cannot be retired again.  The move *)
(* that failed goes on with its source in the same process, an application *)
(* told to stop closes it.  A failure that the start holds is not resumed. *)
ResumeSource ==
    /\ app = "failed" /\ ~att.uncertain /\ ~att.committed /\ ~att.startup
    /\ \/ /\ att.journal => journal.state # "none"
          /\ journal' = IF att.journal THEN NoJournal ELSE journal
          /\ att' = [att EXCEPT !.journal = FALSE]
          /\ OpenAt(src) \/ CloseAt(src)
          /\ UNCHANGED counters
       \/ /\ att.journal /\ Fault
          /\ journal' \in {journal, NoJournal}
          /\ UNCHANGED <<att, app, at, epoch>>
    /\ UNCHANGED <<tree, control, proof, place, mayBe, extra, loose, profile, profiles, residue, intent, truth, damage>>

----------------------------------------------------------------------------
(* The end of a process.                                                   *)

(* A file being copied may be left half written, or whole; a profile being *)
(* staged may be left over.                                                *)
Torn ==
    {tree} \cup {[tree EXCEPT ![dst][e] = IF whole THEN intent.manifest[e] ELSE "partial"]:
                    e \in {x \in Entries: Working("copy") /\ tree[dst][x] = "absent"},
                    whole \in BOOLEAN}

EndsProcess ==
    /\ app' = "start" /\ at' = "idle"
    /\ residue' \in {residue, residue \/ Working("commit")}
    /\ UNCHANGED <<control, epoch, proof, extra, attempt, truth, moves, faults>>

(* A failure held by the start keeps even a stopping application alive.    *)
Stuck == app = "failed" /\ att.startup

(* The process is killed, or ends by itself; what it wrote stays visible.  *)
(* Killing an application that cannot end is counted as a first death only.*)
Die ==
    /\ Stuck \/ (deaths < MaxDeaths /\ outages = 0)
    /\ deaths' = IF Stuck /\ deaths # 0 THEN deaths ELSE deaths + 1
    /\ EndsProcess
    /\ tree' \in Torn
    /\ loose' = loose \cup {<<dst, e>>: e \in {x \in Entries: tree'[dst][x] # tree[dst][x]}}
    /\ IF Working("jflush") THEN journal' \in TornJournals ELSE UNCHANGED journal
    /\ UNCHANGED <<place, mayBe, profile, profiles, damage, outages>>

(* Copied files that are on no disk yet.                                   *)
Unflushed == {x \in loose: tree[x[1]][x[2]] # "absent"}

(* What is left of t when the files in gone are lost, some in part.        *)
Without(t, gone) ==
    {[r \in Roots |-> [e \in Entries |->
        IF <<r, e>> \notin gone THEN t[r][e] ELSE IF <<r, e>> \in half THEN "partial" ELSE "absent"]]:
            half \in SUBSET gone}

(* The power fails: what was not flushed may be as before.                 *)
LosePower ==
    /\ outages < MaxOutages /\ outages' = outages + 1 /\ deaths = 0
    /\ EndsProcess
    /\ IF Working("jflush") THEN journal' \in TornJournals \cup {NoJournal} ELSE UNCHANGED journal
    /\ place' \in {p \in [Roots -> Places]: \A r \in Roots: p[r] \in mayBe[r]}
    /\ mayBe' = [r \in Roots |-> {place'[r]}]
    /\ profile' \in profiles /\ profiles' = {profile'}
    /\ \E gone \in SUBSET Unflushed, t \in Torn:
          /\ tree' \in Without(t, gone)
          /\ damage' = damage \cup {e \in Entries: <<profile', e>> \in gone}
    /\ loose' = {}
    /\ UNCHANGED deaths

----------------------------------------------------------------------------
(* The next start: recover_closed.                                         *)

(* The identity of the library can be read.                                *)
Identified == tree[profile]["identity"] \in Versions

(* The root the profile names is a library folder of this journal.         *)
Qualified(i) ==
    /\ profile \in {i.src, i.dst}
    /\ Retired => profile = i.dst
    /\ place[profile] = "there" /\ control[profile] = Controls /\ Identified
    /\ profile = i.dst => /\ proof[i.dst] = i.move
                          /\ epoch[i.dst] >= i.epoch
                          /\ epoch[i.dst] = i.epoch => tree[i.dst] = i.manifest

(* The profile alone decides which root is the library.                    *)
Committed == profile = journal.intent.dst

(* recover_relocation, up to the cleanup.                                  *)
Recover ==
    /\ app = "start" /\ journal.state # "none"
    /\ \/ /\ journal.state # "torn" /\ Qualified(journal.intent)
          /\ intent' = journal.intent
          /\ att' = [NewAttempt EXCEPT !.journal = TRUE, !.committed = Committed]
          /\ IF Committed THEN app' = "recover" /\ at' = "finish" ELSE app' = "asks" /\ UNCHANGED at
          /\ UNCHANGED counters
       \/ /\ journal.state = "torn" \/ ~Qualified(journal.intent)
          /\ app' = "refused"
          /\ UNCHANGED <<at, attempt, counters>>
       \/ /\ Fault
          /\ app' = "refused"
          /\ UNCHANGED <<at, attempt>>
    /\ UNCHANGED <<disk, namespace, truth, damage>>

(* NativeLibrary::reopen: begin_binding refuses a namespace with leftovers.*)
Reopens == ~residue /\ place[profile] = "there" /\ control[profile] = Controls /\ Identified

Reopen ==
    /\ \/ app = "start" /\ journal.state = "none"
       \/ app = "recover" /\ at = "reopen"
    /\ \/ Reopens /\ OpenAt(profile)
       \/ ~Reopens /\ app' = "refused" /\ UNCHANGED <<at, epoch>>
    /\ UNCHANGED <<tree, control, proof, place, mayBe, extra, loose, namespace, attempt, truth, damage, counters>>

(* The user tries again.                                                   *)
TryAgain ==
    /\ app \in {"refused", "asks"}
    /\ app' = "start" /\ at' = "idle"
    /\ UNCHANGED <<disk, namespace, attempt, truth, damage, counters>>

(* retry_relocation: the recorded workspace is taken over as it is.        *)
RetryMove ==
    /\ app = "asks" /\ journal.state # "none"
    /\ ~residue
    /\ place[dst] # "none" /\ control[dst] = Controls /\ proof[dst] = intent.move
    /\ att' = [att EXCEPT !.startup = TRUE, !.published = ~intent.selected /\ place[dst] = "there"]
    /\ app' = "move" /\ at' = "own"
    /\ UNCHANGED <<disk, namespace, intent, truth, damage, counters>>

(* Variant: the journal is kept too.                                       *)
KeepSourceAndJournal ==
    /\ app = "asks" /\ journal.state # "none"
    /\ app' = "start" /\ at' = "idle"
    /\ UNCHANGED <<disk, namespace, attempt, truth, damage, counters>>

(* cancel_relocation: the copy is kept, the journal retired.               *)
KeepSource ==
    /\ app = "asks" /\ journal.state # "none"
    /\ \/ /\ journal' = NoJournal /\ FlushNamespace
          /\ app' = "start" /\ at' = "idle" /\ UNCHANGED counters
       \/ /\ journal' \in {journal, NoJournal} /\ Fault
          /\ UNCHANGED <<app, at, profiles>>
    /\ UNCHANGED <<disk, profile, residue, attempt, truth, damage>>

----------------------------------------------------------------------------
(* Other programs, in folders that are not the library.                    *)

Undecided == app = "move" /\ at \in {"commit", "sync"}

Tamper(r, d) ==
    /\ r \notin profiles \cup {profile} /\ ~Undecided
    /\ tree[r][d] \notin {"absent", "foreign"}
    /\ Fault
    /\ tree' = [tree EXCEPT ![r][d] = "foreign"]
    /\ loose' = loose \ {<<r, d>>}
    /\ UNCHANGED <<control, epoch, proof, place, mayBe, extra, namespace, app, at, attempt, truth, damage>>

AddFile(r) ==
    /\ r \notin profiles \cup {profile} /\ ~Undecided
    /\ place[r] = "there" /\ r \notin extra
    /\ Fault
    /\ extra' = extra \cup {r}
    /\ UNCHANGED <<tree, control, epoch, proof, place, mayBe, loose, namespace, app, at, attempt, truth, damage>>

----------------------------------------------------------------------------
Move ==
    \/ Own \/ WriteJournal \/ FlushJournal \/ (\E e \in Entries: Copy(e))
    \/ Publish \/ FlushPublished \/ Check \/ Exchange \/ Sync
    \/ Finish \/ (\E d \in Data: Clean(d)) \/ Cleaned \/ Acknowledge
    \/ RemoveControls \/ ControlsFail \/ RemoveFolder \/ CloseMove

Next ==
    \/ \E d \in Data, v \in Versions: Edit(d, v)
    \/ \E t \in Roots, sel \in BOOLEAN: BeginMove(t, sel)
    \/ Move
    \/ Retry \/ ResumeSource
    \/ Die \/ LosePower \/ Recover \/ Reopen \/ TryAgain \/ RetryMove \/ KeepSource
    \/ \E r \in Roots, d \in Data: Tamper(r, d)
    \/ \E r \in Roots: AddFile(r)

Spec == Init /\ [][Next]_vars

(* The thread works, an application that waits for its user is answered,   *)
(* one that only can be killed is killed.                                  *)
FairSpec ==
    /\ Spec
    /\ WF_vars(Move) /\ WF_vars(Recover \/ Reopen)
    /\ WF_vars(att.committed /\ Retry) /\ SF_vars(ResumeSource) /\ SF_vars(Stuck /\ Die)
    /\ WF_vars(TryAgain) /\ SF_vars(KeepSource)

----------------------------------------------------------------------------
(* Properties.                                                             *)

(* The root that the profile names holds the whole library as its user     *)
(* knows it, through copies, retries, cleanups, deaths and power losses,   *)
(* but for files whose flush failed in copy_entry and that a power loss    *)
(* took: cleanup_tree never takes from the library its last copy, and a    *)
(* stale copy never becomes the library.  If no call fails and no process  *)
(* dies, a power loss takes nothing.                                       *)
AuthorityIsWhole ==
    /\ place[profile] = "there"
    /\ control[profile] = Controls
    /\ \A e \in Entries \ damage: tree[profile][e] = truth[e]
    /\ faults = 0 /\ deaths = 0 => damage = {}

(* What RelocationFailure::commit_status reports is so.                    *)
StatusIsTrue ==
    app = "failed" /\ ~att.uncertain =>
        profile = IF att.committed THEN dst ELSE src

(* A retirement receipt in the journal proves that the move was committed  *)
(* and that nothing stands under a recorded name any more: with it alone   *)
(* the control files of the old folder may go.                             *)
ReceiptIsTrue ==
    journal.state = "retired" =>
        /\ profile = journal.intent.dst
        /\ \A d \in Data: tree[journal.intent.src][d] = "absent"

(* No step removes or overwrites what somebody else wrote, or the folder he*)
(* put it in; a power loss may take back the rename of that folder.        *)
ForeignStays ==
    [][\A r \in Roots :
          /\ \A d \in Data : tree[r][d] = "foreign" => tree'[r][d] = "foreign"
          /\ r \in extra => r \in extra'
          /\ r \in extra /\ place[r] = "there" /\ outages' = outages => place'[r] = "there"]_vars

(* Whatever failed or died, a start ends with the library open, unless the *)
(* namespace of the profile holds a torn journal or a left-over profile, or*)
(* a power loss took files of the library.                                 *)
StartOpens ==
    app = "start" ~> (app = "open" \/ journal.state = "torn" \/ residue \/ damage # {})

(* A start after the commit of a move opens the destination.               *)
CommittedMoveOpens ==
    (app = "start" /\ journal.state = "intent" /\ profile = journal.intent.dst)
        ~> app = "open"
============================================================================
