-------------------------- MODULE MetadataRefresh --------------------------
(***************************************************************************)
(* The refresh of the official catalogue and the artwork fetched for it:   *)
(* librairii-app/src/metadata/refresh.rs, librairii-storage/src/metadata.rs*)
(* with metadata/owner.rs and artwork.rs, librairii-desktop/src/           *)
(* metadata_jobs.rs and artwork.rs, and the recovery of refreshes when the *)
(* database is opened.                                                     *)
(*                                                                         *)
(* A worker of the job session runs one refresh at a time.  It opens a     *)
(* catalog_syncs row, fetches, publishes the response as a file, stages a  *)
(* catalog_snapshots row that names it, and activates the snapshot in one  *)
(* transaction with the success of the row.  The artwork thread publishes  *)
(* files into the same area, under the same custody, and names them in     *)
(* catalog_artworks.  Whoever cannot say what became of an effect keeps    *)
(* the custody, fences the library, and reports nothing.                   *)
(*                                                                         *)
(* The private container a file is written in is left out: it is the one   *)
(* of Imports.  An image is modelled by its checksum, a response by its    *)
(* refresh, and there is one locale and one artwork, as in the code's      *)
(* en-GB and in one entry of its queue.                                    *)
(***************************************************************************)
EXTENDS Naturals, FiniteSetsExt

CONSTANTS
    Images,        \* what the server may send for the artwork
    NoOne,         \* holder of free custody
    MaxRefreshes,  \* bound: refreshes
    MaxArtworks,   \* bound: requests for the artwork
    MaxFaults,     \* bound: effects without acknowledgement
    MaxDeaths,     \* bound: ends of the process
    MaxOutages     \* bound: losses of power

ASSUME MetadataAssumption ==
    /\ MaxRefreshes \in Nat /\ MaxArtworks \in Nat
    /\ MaxFaults \in Nat /\ MaxDeaths \in Nat /\ MaxOutages \in Nat
    /\ Images \cap {"none", "missing"} = {}
    /\ NoOne \notin {"refresh", "artwork"}

VARIABLES
    syncs,         \* status in catalog_syncs, by refresh
    snaps,         \* status in catalog_snapshots, by refresh (UNIQUE sync_id)
    artRow,        \* catalog_artworks: "none", "missing", or the image cached
    item,          \* the item of the refresh in operation_items
    there,         \* files under catalog/
    mayBe,         \* whether each is there after a loss of power
    custody,       \* custody_active, with its holder
    fenced,        \* the fences of the library and of its database
    work,          \* where each actor is, and its MetadataStorage
    app,           \* "open", "starting"
    count          \* refreshes, requests, faults, deaths and outages so far

db == <<syncs, snaps, artRow>>
disk == <<there, mayBe>>
vars == <<db, item, disk, custody, fenced, work, app, count>>

Refreshes == 1..MaxRefreshes

Actors == {"refresh", "artwork"}

(* catalog/raw-<sync>.json and catalog/official/<artwork>/<checksum>.<ext>   *)
Paths == ({"raw"} \X Refreshes) \cup ({"art"} \X Images)

NoFile == <<"raw", 0>>

(* held: an effect is retained, or the outcome is uncertain.  staged: the  *)
(* staged snapshot is known to the session.                                *)
Idle == [pc |-> "idle", file |-> NoFile, cancelled |-> FALSE,
         held |-> FALSE, staged |-> FALSE, code |-> "none"]

(* The refresh that the worker runs, and its number.                       *)
R == work["refresh"]
Sync == R.file[2]

At(a, pc) == app = "open" /\ work[a].pc = pc

Moves(a, j) == work' = [work EXCEPT ![a] = j]

Spend(what) == count' = [count EXCEPT ![what] = @ + 1]

Faulty == count.faults < MaxFaults /\ Spend("faults")

(* What a flush of the directory with the file p makes durable.            *)
Flushed(p) == [q \in Paths |-> IF q[1] = p[1] THEN {(q \in there)} ELSE mayBe[q]]

(* The code of an error that is no answer about a cancelled work.          *)
Code(j) == IF j.cancelled THEN "cancelled" ELSE "failed"

(* RefreshSession::failed is next, for this code.                          *)
Failing(j, code) == [j EXCEPT !.pc = "fail", !.code = code]

(* execute with an uncertain outcome, or anything retained: compensate is  *)
(* never true, so that the worker keeps it until the process ends.         *)
Outcome(j, code) == [j EXCEPT !.pc = IF j.held THEN "spin" ELSE "report", !.code = code]

Uncertain(j) == [j EXCEPT !.pc = "spin", !.held = TRUE]

(* publish returned an error: the refresh fails, the artwork gives up.     *)
NotPublished(a, j) ==
    IF a = "refresh" THEN Failing(j, Code(j)) ELSE [Idle EXCEPT !.held = j.held]

-----------------------------------------------------------------------------
(* From the item to the payload                                            *)

(* The session takes up the item of the next refresh.                      *)
StartItem ==
    /\ At("refresh", "idle") /\ count.refreshes < MaxRefreshes
    /\ LET r == count.refreshes + 1
       IN  /\ item' = [item EXCEPT ![r] = "running"]
           /\ Moves("refresh", [Idle EXCEPT !.pc = "start", !.file = <<"raw", r>>])
    /\ Spend("refreshes")
    /\ UNCHANGED <<db, disk, custody, fenced, app>>

(* The user asks to cancel, or the session stops; for the artwork, a move  *)
(* or the end of the session.                                              *)
Cancel(a) ==
    /\ app = "open" /\ work[a].pc # "idle" /\ ~work[a].cancelled
    /\ Moves(a, [work[a] EXCEPT !.cancelled = TRUE])
    /\ UNCHANGED <<db, item, disk, custody, fenced, app, count>>

(* A token cancelled before execute is reported without calling it.        *)
Execute ==
    /\ At("refresh", "start")
    /\ Moves("refresh", IF R.cancelled THEN Outcome(R, "cancelled")
                        ELSE [R EXCEPT !.pc = "begin"])
    /\ UNCHANGED <<db, item, disk, custody, fenced, app, count>>

BeginSync ==
    /\ At("refresh", "begin") /\ ~R.cancelled /\ ~fenced
    /\ \A r \in Refreshes : syncs[r] # "running"
    /\ syncs' = [syncs EXCEPT ![Sync] = "running"]
    /\ Moves("refresh", [R EXCEPT !.pc = "fetch"])
    /\ UNCHANGED <<snaps, artRow, item, disk, custody, fenced, app, count>>

(* Busy, fenced, cancelled or rolled back: there is no session to fail.    *)
BeginRefused ==
    /\ At("refresh", "begin")
    /\ Moves("refresh", Outcome(R, Code(R)))
    /\ UNCHANGED <<db, item, disk, custody, fenced, app, count>>

BeginUnknown ==
    /\ At("refresh", "begin") /\ ~R.cancelled /\ ~fenced /\ Faulty
    /\ \A r \in Refreshes : syncs[r] # "running"
    /\ syncs' \in {syncs, [syncs EXCEPT ![Sync] = "running"]}
    /\ fenced' = TRUE
    /\ Moves("refresh", Uncertain(R))
    /\ UNCHANGED <<snaps, artRow, item, disk, custody, app>>

(* A valid catalogue, and no cancellation up to the call of stage.         *)
Fetched ==
    /\ At("refresh", "fetch") /\ ~R.cancelled
    /\ Moves("refresh", [R EXCEPT !.pc = "custody"])
    /\ UNCHANGED <<db, item, disk, custody, fenced, app, count>>

FetchFails ==
    /\ At("refresh", "fetch")
    /\ Moves("refresh", Failing(R, Code(R)))
    /\ UNCHANGED <<db, item, disk, custody, fenced, app, count>>

(* A request for an artwork that is registered and not cached, up to the   *)
(* bytes of the answer; nothing is requested while anything is retained.   *)
FetchArtwork ==
    /\ At("artwork", "idle") /\ ~work["artwork"].held /\ artRow = "missing"
    /\ count.artworks < MaxArtworks
    /\ \E i \in Images :
           Moves("artwork", [Idle EXCEPT !.pc = "custody", !.file = <<"art", i>>])
    /\ Spend("artworks")
    /\ UNCHANGED <<db, item, disk, custody, fenced, app>>

-----------------------------------------------------------------------------
(* MetadataStorage::publish, the same for both                             *)

(* Variant: the owner is kept and the library is not fenced.               *)
RetainQuietly(a, j) == fenced' = fenced /\ Moves(a, j)

(* retain: the fence, then the owner with its guard.                       *)
Retain(a, j) == fenced' = TRUE /\ Moves(a, j)

(* Variant: the route of the artwork is not flushed.                       *)
RouteUnflushed(p) == mayBe

(* artwork_route flushes the three directories before anything is written. *)
Route(p) == IF p[1] = "art" THEN Flushed(p) ELSE mayBe

TakeCustody(a) ==
    /\ At(a, "custody") /\ ~work[a].cancelled
    /\ ~fenced /\ custody = NoOne
    /\ custody' = a
    /\ mayBe' = Route(work[a].file)
    /\ Moves(a, [work[a] EXCEPT !.pc = "stage"])
    /\ UNCHANGED <<db, item, there, fenced, app, count>>

RouteFails ==
    /\ At("artwork", "custody") /\ ~work["artwork"].cancelled
    /\ ~fenced /\ custody = NoOne /\ Faulty
    /\ custody' = "artwork"
    /\ Retain("artwork", NotPublished("artwork", [work["artwork"] EXCEPT !.held = TRUE]))
    /\ UNCHANGED <<db, item, disk, app>>

(* Cancelled while it spins on the custody, or met by a fence.             *)
NoCustody(a) ==
    /\ At(a, "custody") /\ (work[a].cancelled \/ fenced)
    /\ Moves(a, NotPublished(a, work[a]))
    /\ UNCHANGED <<db, item, disk, custody, fenced, app, count>>

(* No container, a failed write, a cancellation: the container is retired. *)
GiveUp(a) ==
    /\ At(a, "stage")
    /\ custody' = NoOne
    /\ Moves(a, NotPublished(a, work[a]))
    /\ UNCHANGED <<db, item, disk, fenced, app, count>>

(* A container half made, or not retired, as after a fence, or a rename    *)
(* without answer.                                                         *)
StageUnknown(a) ==
    /\ At(a, "stage")
    /\ IF fenced THEN UNCHANGED count ELSE Faulty
    /\ there' \in {there} \cup
           IF fenced \/ work[a].cancelled THEN {} ELSE {there \cup {work[a].file}}
    /\ mayBe' = IF there' = there THEN mayBe
                ELSE [mayBe EXCEPT ![work[a].file] = BOOLEAN]
    /\ Retain(a, NotPublished(a, [work[a] EXCEPT !.held = TRUE]))
    /\ UNCHANGED <<db, item, custody, app>>

(* The rename replaces nothing: a file of this checksum is used as it is.  *)
Rename(a) ==
    /\ At(a, "stage") /\ ~fenced /\ ~work[a].cancelled
    /\ IF work[a].file \in there
       THEN /\ Moves(a, [work[a] EXCEPT !.pc = "verify"])
            /\ UNCHANGED disk
       ELSE /\ there' = there \cup {work[a].file}
            /\ mayBe' = [mayBe EXCEPT ![work[a].file] = BOOLEAN]
            /\ Moves(a, [work[a] EXCEPT !.pc = "flush"])
    /\ UNCHANGED <<db, item, custody, fenced, app, count>>

(* The destination is flushed before the receipt exists.                   *)
Flush(a) ==
    /\ At(a, "flush") /\ ~fenced
    /\ mayBe' = Flushed(work[a].file)
    /\ Moves(a, [work[a] EXCEPT !.pc = "commit"])
    /\ UNCHANGED <<db, item, there, custody, fenced, app, count>>

(* A file that is reused is looked at once more.                           *)
Verify(a) ==
    /\ At(a, "verify") /\ ~fenced
    /\ Moves(a, [work[a] EXCEPT !.pc = "commit"])
    /\ UNCHANGED <<db, item, disk, custody, fenced, app, count>>

(* Refused, or the custody is checked after the other actor fenced it.     *)
FlushUnknown(a) ==
    /\ At(a, "flush") \/ At(a, "verify")
    /\ IF fenced THEN UNCHANGED count ELSE Faulty
    /\ Retain(a, NotPublished(a, [work[a] EXCEPT !.held = TRUE]))
    /\ UNCHANGED <<db, item, disk, custody, app>>

-----------------------------------------------------------------------------
(* The rows that name the file                                             *)

(* stage_rows registers the artwork with the snapshot.                     *)
Staged ==
    /\ snaps' = [snaps EXCEPT ![Sync] = "staged"]
    /\ artRow' = IF artRow = "none" THEN "missing" ELSE artRow
    /\ UNCHANGED syncs

(* An ordinary transaction: refused by a fence, and by a cancellation.     *)
StageRows ==
    /\ At("refresh", "commit") /\ ~fenced /\ ~R.cancelled
    /\ Staged
    /\ Moves("refresh", [R EXCEPT !.pc = "finish", !.staged = TRUE])
    /\ UNCHANGED <<item, disk, custody, fenced, app, count>>

(* A repair transaction: neither refuses it.                               *)
CacheRow ==
    /\ At("artwork", "commit")
    /\ artRow' = work["artwork"].file[2]
    /\ Moves("artwork", [work["artwork"] EXCEPT !.pc = "finish"])
    /\ UNCHANGED <<syncs, snaps, item, disk, custody, fenced, app, count>>

RowsRefused(a) ==
    /\ At(a, "commit")
    /\ Moves(a, [work[a] EXCEPT !.pc = "finish"])
    /\ UNCHANGED <<db, item, disk, custody, fenced, app, count>>

(* The receipt is retained; the session of the refresh is not failed.      *)
RowsUnknown(a) ==
    /\ At(a, "commit") /\ Faulty
    /\ IF a = "refresh"
       THEN ~fenced /\ ~R.cancelled /\ (Staged \/ UNCHANGED db)
       ELSE artRow' \in {artRow, work[a].file[2]} /\ UNCHANGED <<syncs, snaps>>
    /\ Retain(a, IF a = "refresh" THEN Uncertain(R) ELSE [Idle EXCEPT !.held = TRUE])
    /\ UNCHANGED <<item, disk, custody, app>>

(* What follows a known answer, with the last look at the cancellation.    *)
AfterRows(a, j) ==
    IF a = "artwork" THEN [Idle EXCEPT !.held = j.held]
    ELSE IF ~j.staged THEN Failing(j, Code(j))
    ELSE IF j.cancelled THEN Failing(j, "cancelled")
    ELSE [j EXCEPT !.pc = "activate"]

(* The private container is removed and the custody released.              *)
FinishStage(a) ==
    /\ At(a, "finish") /\ ~fenced
    /\ custody' = NoOne
    /\ Moves(a, AfterRows(a, work[a]))
    /\ UNCHANGED <<db, item, disk, fenced, app, count>>

(* Its removal fails; the answer about the rows stays true.                *)
FinishFails(a) ==
    /\ At(a, "finish")
    /\ IF fenced THEN UNCHANGED count ELSE Faulty
    /\ Retain(a, AfterRows(a, [work[a] EXCEPT !.held = TRUE]))
    /\ UNCHANGED <<db, item, disk, custody, app>>

-----------------------------------------------------------------------------
(* Activation, failure and report                                          *)

(* Age projection, the old snapshot, the new one and the row together.     *)
Activated ==
    /\ snaps' = [r \in Refreshes |-> IF r = Sync THEN "active"
                                     ELSE IF snaps[r] = "active" THEN "superseded"
                                     ELSE snaps[r]]
    /\ syncs' = [syncs EXCEPT ![Sync] = "succeeded"]
    /\ UNCHANGED artRow

Activate ==
    /\ At("refresh", "activate")
    /\ Activated
    /\ Moves("refresh", Outcome(R, "succeeded"))
    /\ UNCHANGED <<item, disk, custody, fenced, app, count>>

ActivateRefused ==
    /\ At("refresh", "activate")
    /\ Moves("refresh", Failing(R, "failed"))
    /\ UNCHANGED <<db, item, disk, custody, fenced, app, count>>

(* Variant: an unknown activation is failed like a refused one.            *)
UnknownFails(j) == Failing(j, "failed")

(* An unknown activation is neither failed nor reported.                   *)
UnknownActivation(j) == Uncertain(j)

ActivateUnknown ==
    /\ At("refresh", "activate") /\ Faulty
    /\ Activated \/ UNCHANGED db
    /\ fenced' = TRUE
    /\ Moves("refresh", UnknownActivation(R))
    /\ UNCHANGED <<item, disk, custody, app>>

(* finish_catalog_failure: the staged snapshot goes with the row.  The     *)
(* statement needs a running row, and a staged snapshot if one is given.   *)
Ends(code) ==
    /\ syncs[Sync] = "running" /\ (R.staged => snaps[Sync] = "staged")
    /\ syncs' = [syncs EXCEPT ![Sync] = code]
    /\ snaps' = [snaps EXCEPT ![Sync] = IF R.staged THEN "rejected" ELSE @]
    /\ UNCHANGED artRow

Fail ==
    /\ At("refresh", "fail")
    /\ Ends(R.code)
    /\ Moves("refresh", Outcome(R, R.code))
    /\ UNCHANGED <<item, disk, custody, fenced, app, count>>

(* The row stays running, and every later refresh of the session is busy.  *)
FailRefused ==
    /\ At("refresh", "fail")
    /\ Moves("refresh", Outcome(R, "failed"))
    /\ UNCHANGED <<db, item, disk, custody, fenced, app, count>>

FailUnknown ==
    /\ At("refresh", "fail") /\ Faulty
    /\ Ends(R.code) \/ UNCHANGED db
    /\ fenced' = TRUE
    /\ Moves("refresh", Uncertain(R))
    /\ UNCHANGED <<item, disk, custody, app>>

(* The report is saved and the owner, with nothing retained, is let go.    *)
SaveReport ==
    /\ At("refresh", "report")
    /\ item' = [item EXCEPT ![Sync] = R.code]
    /\ Moves("refresh", Idle)
    /\ UNCHANGED <<db, disk, custody, fenced, app, count>>

-----------------------------------------------------------------------------
(* The end of the process, and the next start                              *)

Gone ==
    /\ app' = "starting"
    /\ work' = [a \in Actors |-> Idle]
    /\ custody' = NoOne
    /\ fenced' = FALSE

Die ==
    /\ app = "open" /\ count.deaths < MaxDeaths
    /\ Gone /\ Spend("deaths")
    /\ UNCHANGED <<db, item, disk>>

LosePower ==
    /\ count.outages < MaxOutages
    /\ there' \in {T \in SUBSET Paths : \A p \in Paths : (p \in T) \in mayBe[p]}
    /\ mayBe' = [p \in Paths |-> {(p \in there')}]
    /\ Gone /\ Spend("outages")
    /\ UNCHANGED <<db, item>>

(* recover_catalog_refreshes, and the recovery of the operation rows.      *)
Open ==
    /\ app = "starting"
    /\ snaps' = [r \in Refreshes |->
                    IF snaps[r] = "staged" /\ syncs[r] = "running" THEN "rejected"
                    ELSE snaps[r]]
    /\ syncs' = [r \in Refreshes |-> IF syncs[r] = "running" THEN "failed" ELSE syncs[r]]
    /\ item' = [r \in Refreshes |-> IF item[r] = "running" THEN "interrupted" ELSE item[r]]
    /\ app' = "open"
    /\ UNCHANGED <<artRow, disk, custody, fenced, work, count>>

-----------------------------------------------------------------------------
Init ==
    /\ syncs = [r \in Refreshes |-> "none"]
    /\ snaps = [r \in Refreshes |-> "none"]
    /\ item = [r \in Refreshes |-> "none"]
    /\ artRow = "none"
    /\ there = {} /\ mayBe = [p \in Paths |-> {FALSE}]
    /\ custody = NoOne /\ fenced = FALSE
    /\ work = [a \in Actors |-> Idle]
    /\ app = "open"
    /\ count = [refreshes |-> 0, artworks |-> 0, faults |-> 0, deaths |-> 0, outages |-> 0]

(* A step of the publication by one of the actors.                         *)
Publish(a) ==
    \/ TakeCustody(a) \/ NoCustody(a) \/ GiveUp(a) \/ StageUnknown(a) \/ Rename(a)
    \/ Flush(a) \/ Verify(a) \/ FlushUnknown(a) \/ RowsRefused(a) \/ RowsUnknown(a)
    \/ FinishStage(a) \/ FinishFails(a)

Refresh ==
    \/ Execute \/ BeginSync \/ BeginRefused \/ BeginUnknown \/ Fetched \/ FetchFails
    \/ Publish("refresh") \/ StageRows
    \/ Activate \/ ActivateRefused \/ ActivateUnknown
    \/ Fail \/ FailRefused \/ FailUnknown \/ SaveReport

Artwork == RouteFails \/ Publish("artwork") \/ CacheRow

Next ==
    \/ StartItem \/ FetchArtwork \/ Refresh \/ Artwork
    \/ \E a \in Actors : Cancel(a)
    \/ Die \/ LosePower \/ Open

Spec == Init /\ [][Next]_vars

(* A thread that has work runs, and a start is completed.  Nobody has to   *)
(* ask for a refresh or an artwork, or to cancel one.  Custody is taken by *)
(* polling: a finite number of artworks cannot starve it.                  *)
FairSpec ==
    /\ Spec
    /\ WF_vars(Refresh) /\ WF_vars(Artwork) /\ WF_vars(Open)

-----------------------------------------------------------------------------
(* Properties                                                              *)

Points == {"idle", "start", "begin", "fetch", "custody", "stage", "flush", "verify", "commit",
           "finish", "activate", "fail", "report", "spin"}

Jobs == [pc: Points, file: Paths \cup {NoFile}, cancelled: BOOLEAN, held: BOOLEAN,
         staged: BOOLEAN, code: {"none", "succeeded", "failed", "cancelled"}]

Counts == [refreshes: 0..MaxRefreshes, artworks: 0..MaxArtworks, faults: 0..MaxFaults,
           deaths: 0..MaxDeaths, outages: 0..MaxOutages]

TypeOK ==
    /\ syncs \in [Refreshes -> {"none", "running", "succeeded", "failed", "cancelled"}]
    /\ snaps \in [Refreshes -> {"none", "staged", "active", "superseded", "rejected"}]
    /\ item \in [Refreshes -> {"none", "running", "succeeded", "failed", "cancelled",
                               "interrupted"}]
    /\ artRow \in {"none", "missing"} \cup Images
    /\ there \subseteq Paths /\ mayBe \in [Paths -> SUBSET BOOLEAN]
    /\ custody \in Actors \cup {NoOne} /\ fenced \in BOOLEAN
    /\ work \in [Actors -> Jobs] /\ app \in {"open", "starting"}
    /\ count \in Counts

(* Whatever the catalogue names is on disk, and stays there if the power   *)
(* fails now: the response of every snapshot, also one kept for recovery   *)
(* only, and the cached artwork, also if its file was left without a flush *)
(* by a process that died and is now used as it is.                        *)
CatalogHasFiles ==
    /\ \A r \in Refreshes : snaps[r] # "none" => mayBe[<<"raw", r>>] = {TRUE}
    /\ artRow \in Images => mayBe[<<"art", artRow>>] = {TRUE}

Succeeded == {r \in Refreshes : syncs[r] = "succeeded"}

(* The saved report, the row of the refresh and the catalogue say the same.*)
(* Success is reported of nothing but an activated snapshot, failure and   *)
(* cancellation of none; the catalogue in use is that of the last refresh  *)
(* that succeeded, there is one from the first success on, and a row that  *)
(* is still running without a worker was reported as not saved.            *)
RefreshReportIsTrue ==
    /\ \A r \in Refreshes :
           /\ snaps[r] \in {"active", "superseded"} <=> syncs[r] = "succeeded"
           /\ snaps[r] = "active" => r = Max(Succeeded)
           /\ item[r] = "succeeded" => syncs[r] = "succeeded"
           /\ item[r] = "cancelled" => syncs[r] \in {"none", "cancelled"}
           /\ item[r] = "failed" => syncs[r] \in {"none", "running", "failed"}
           /\ syncs[r] = "running" => item[r] \in {"running", "failed"}
    /\ Succeeded # {} => \E r \in Refreshes : snaps[r] = "active"

(* A refresh that was taken up is reported, or its worker keeps evidence   *)
(* of an effect it cannot vouch for behind a fence: no guard that the      *)
(* artwork keeps makes it wait for ever.                                   *)
RefreshEnds ==
    \A r \in Refreshes :
        item[r] = "running" ~> \/ item[r] # "running"
                               \/ fenced /\ R.held /\ R.pc = "spin"

=============================================================================
