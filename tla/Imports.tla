------------------------------- MODULE Imports -------------------------------
(***************************************************************************)
(* crates/librairii-storage/src/imports/: the import of one picked archive *)
(* by a worker of the job session, with the file effects it uses           *)
(* (platform/unix.rs, unix/import_source.rs), the registration of private  *)
(* containers in the library record (native.rs) and the recovery of those  *)
(* containers at the next start (operations_repository/recovery.rs).       *)
(*                                                                         *)
(* An archive is copied into a private container, looked up, inspected,    *)
(* published under its checksum without ever replacing a file, followed by *)
(* the artwork found in it, and only then catalogued.  One custody guards  *)
(* every effect on shared directories; it is free while a worker copies    *)
(* and inspects, and an import that reached a decision keeps it until its  *)
(* report is durable and its containers are gone.                          *)
(*                                                                         *)
(* Copying and inspecting touch only the private container: they succeed   *)
(* or the import gives up.  A source that cannot be opened reports a       *)
(* failure and owns nothing; it is left out.                               *)
(***************************************************************************)
EXTENDS Naturals, SequencesExt

CONSTANTS
    Workers,
    Sources,       \* picked archives: [hash, name, uuid, art]
    NoArt,         \* art of an archive without artwork
    NoOne,         \* holder of free custody
    MaxImports,    \* bound: imports
    MaxRemovals,   \* bound: stories removed in between
    MaxFaults,     \* bound: effects without acknowledgement, failed cleanups
    MaxDeaths      \* bound: ends of the process

ASSUME ImportsAssumption ==
    /\ NoOne \notin Workers
    /\ MaxImports \in Nat /\ MaxRemovals \in Nat
    /\ MaxFaults \in Nat /\ MaxDeaths \in Nat
    \* the checksum decides what the archive says of itself
    /\ \A a, b \in Sources : a.hash = b.hash => a.uuid = b.uuid /\ a.art = b.art

VARIABLES
    rows,          \* stories with their archive, by the source imported
    there,         \* managed files
    mayBe,         \* whether each is there after a loss of power
    staging,       \* private containers on disk
    registered,    \* containers the library record names
    custody,       \* custody_active, with its holder
    fenced,        \* the fence of the library
    job,           \* ImportResources of each worker, and where it is
    app,           \* "open", "starting", "refused"
    count          \* imports, removals, faults and deaths so far

disk == <<there, mayBe, staging, registered>>
vars == <<rows, disk, custody, fenced, job, app, count>>

Kinds == {"archive", "artwork"}

(* archives/<checksum>/<name> and catalog/embedded/<uuid>/<hash>.png        *)
File(s, kind) ==
    IF kind = "archive" THEN <<kind, s.hash, s.name>> ELSE <<kind, s.uuid, s.art>>

Files(s) ==
    {File(s, "archive")} \cup IF s.art = NoArt THEN {} ELSE {File(s, "artwork")}

Paths == UNION {Files(s) : s \in Sources}

Directory(p) == <<p[1], p[2]>>

Containers == Workers \X Kinds

Idle == [pc |-> "idle", src |-> CHOOSE s \in Sources : TRUE, kind |-> "archive",
         stages |-> {}, publications |-> <<>>, held |-> FALSE,
         outcome |-> "none", reported |-> FALSE, made |-> {}]

(* What the directory flush makes durable.                                 *)
Flushed(d) == [p \in Paths |-> IF Directory(p) = d THEN {(p \in there)} ELSE mayBe[p]]

(* A change of a name that no flush has followed.                          *)
Unsettled(p) == [mayBe EXCEPT ![p] = BOOLEAN]

(* Custody can be taken: not fenced, not active.                           *)
TryCustody == custody = NoOne /\ ~fenced

Moves(w, j) == job' = [job EXCEPT ![w] = j]

Spend(what) == count' = [count EXCEPT ![what] = @ + 1]

Faulty == count.faults < MaxFaults /\ Spend("faults")

(* execute after an error: publications are what makes compensation due.   *)
Failed(j) ==
    [j EXCEPT !.outcome = "failed",
              !.pc = IF j.publications = <<>> THEN "report" ELSE "compensate"]

(* Variant: the guard is not dropped.                                      *)
AfterStageKeeps(j) == custody

(* The guard of stage() is local until the import has decided to publish.  *)
AfterStage(j) == IF j.kind = "archive" THEN NoOne ELSE custody

-----------------------------------------------------------------------------
(* The import                                                              *)

Begin(w) ==
    /\ app = "open" /\ job[w].pc = "idle" /\ count.imports < MaxImports
    /\ \E s \in Sources : Moves(w, [Idle EXCEPT !.pc = "stage", !.src = s])
    /\ Spend("imports")
    /\ UNCHANGED <<rows, disk, custody, fenced, app>>

(* An error without an effect: a cancellation, a source that changed, an   *)
(* archive that is not valid, a full record, a rolled back transaction, or *)
(* the fence met by the next check.                                        *)
GiveUp(w) ==
    /\ job[w].pc \in {"stage", "register", "lookup", "check", "publish", "catalog"}
    /\ Moves(w, Failed(job[w]))
    /\ custody' = IF job[w].pc = "register" THEN AfterStage(job[w]) ELSE custody
    /\ UNCHANGED <<rows, disk, fenced, app, count>>

(* The artwork route flushes its directories before the container exists.  *)
Route(j) ==
    IF j.kind = "artwork" THEN Flushed(Directory(File(j.src, "artwork"))) ELSE mayBe

MayCreate(w) ==
    /\ job[w].pc = "stage"
    /\ IF job[w].kind = "archive" THEN TryCustody ELSE ~fenced

CreateStage(w) ==
    /\ MayCreate(w)
    /\ staging' = staging \cup {<<w, job[w].kind>>}
    /\ mayBe' = Route(job[w])
    /\ Moves(w, [job[w] EXCEPT !.pc = "register",
                               !.stages = @ \cup {job[w].kind}])
    /\ custody' = w
    /\ UNCHANGED <<rows, there, registered, fenced, app, count>>

(* The allocation stopped half way: what there is of it is kept unknown.   *)
PartialStage(w) ==
    /\ MayCreate(w) /\ Faulty
    /\ staging' \in {staging, staging \cup {<<w, job[w].kind>>}}
    /\ mayBe' = Route(job[w])
    /\ fenced' = TRUE
    /\ Moves(w, Failed([job[w] EXCEPT !.held = TRUE]))
    /\ UNCHANGED <<rows, there, registered, custody, app>>

(* The directories of the artwork are not acknowledged.                    *)
NoRoute(w) ==
    /\ MayCreate(w) /\ job[w].kind = "artwork" /\ Faulty
    /\ fenced' = TRUE
    /\ Moves(w, Failed(job[w]))
    /\ UNCHANGED <<rows, disk, custody, app>>

(* The container is durable before the record names it.                    *)
Register(w) ==
    /\ job[w].pc = "register" /\ ~fenced
    /\ registered' = registered \cup {<<w, job[w].kind>>}
    /\ Moves(w, [job[w] EXCEPT
            !.pc = IF job[w].kind = "archive" THEN "lookup" ELSE "publish"])
    /\ custody' = AfterStage(job[w])
    /\ UNCHANGED <<rows, there, mayBe, staging, fenced, app, count>>

(* The new record may or may not be the one on disk.                       *)
RegisterUncertain(w) ==
    /\ job[w].pc = "register" /\ ~fenced /\ Faulty
    /\ registered' \in {registered, registered \cup {<<w, job[w].kind>>}}
    /\ fenced' = TRUE
    /\ Moves(w, Failed(job[w]))
    /\ custody' = AfterStage(job[w])
    /\ UNCHANGED <<rows, there, mayBe, staging, app>>

ByHash(s) == \E r \in rows : r.hash = s.hash

BeforePublish(s) ==
    IF ByHash(s) THEN "duplicate"
    ELSE IF \E r \in rows : r.uuid = s.uuid THEN "conflict"
    ELSE "none"

(* Variant: a duplicate does not keep its custody.                         *)
LookupReleases(w) ==
    /\ job[w].pc = "lookup" /\ TryCustody
    /\ Moves(w, IF ByHash(job[w].src)
                THEN [job[w] EXCEPT !.pc = "report", !.outcome = "duplicate"]
                ELSE [job[w] EXCEPT !.pc = "check"])
    /\ UNCHANGED <<rows, disk, custody, fenced, app, count>>

(* The copy is measured; custody is free again while it is inspected.      *)
Lookup(w) ==
    /\ job[w].pc = "lookup" /\ TryCustody
    /\ IF ByHash(job[w].src)
       THEN /\ Moves(w, [job[w] EXCEPT !.pc = "report", !.outcome = "duplicate"])
            /\ custody' = w
       ELSE /\ Moves(w, [job[w] EXCEPT !.pc = "check"])
            /\ UNCHANGED custody
    /\ UNCHANGED <<rows, disk, fenced, app, count>>

(* The inspection gave the UUID.  From here custody is kept.               *)
Check(w) ==
    /\ job[w].pc = "check" /\ TryCustody
    /\ LET decision == BeforePublish(job[w].src) IN
       Moves(w, [job[w] EXCEPT !.pc = IF decision = "none" THEN "publish" ELSE "report",
                               !.outcome = decision])
    /\ custody' = w
    /\ UNCHANGED <<rows, disk, fenced, app, count>>

(* Variant: a route that is found is not flushed.                          *)
PreparedBlind(j) == mayBe

(* The archive route, created or found, is flushed before the rename: a    *)
(* file that an earlier process left there is durable when it is reused.   *)
Prepared(j) ==
    IF j.kind = "archive" THEN Flushed(Directory(File(j.src, "archive"))) ELSE mayBe

(* Variant: a reused file is recorded as a new one.                        *)
ReceiptOwning(j, new) == [kind |-> j.kind, new |-> TRUE]

(* NewOwned or ReusedExisting                                              *)
Receipt(j, new) == [kind |-> j.kind, new |-> new]

(* Artwork follows the archive; the catalogue follows the last file.       *)
Advance(j, new) ==
    LET more == j.kind = "archive" /\ j.src.art # NoArt IN
    [j EXCEPT !.stages = @ \ {j.kind},
              !.publications = Append(@, Receipt(j, new)),
              !.kind = IF more THEN "artwork" ELSE @,
              !.pc = IF more THEN "stage" ELSE "catalog"]

(* The name exists: its bytes are measured and it is reused untouched.     *)
Reuse(w) ==
    /\ job[w].pc = "publish" /\ ~fenced
    /\ File(job[w].src, job[w].kind) \in there
    /\ mayBe' = Prepared(job[w])
    /\ Moves(w, Advance(job[w], FALSE))
    /\ UNCHANGED <<rows, there, staging, registered, custody, fenced, app, count>>

Publish(w) ==
    /\ job[w].pc = "publish" /\ ~fenced
    /\ LET p == File(job[w].src, job[w].kind)
           own == [job[w] EXCEPT !.made = @ \cup {p}]
       IN  /\ p \notin there
           /\ \/ /\ there' = there \cup {p}
                 /\ mayBe' = [Prepared(job[w]) EXCEPT ![p] = BOOLEAN]
                 /\ Moves(w, [own EXCEPT !.pc = "flush"])
                 /\ UNCHANGED <<fenced, count>>
              \/ \* the rename is not acknowledged
                 /\ Faulty
                 /\ there' \in {there, there \cup {p}}
                 /\ mayBe' = [Prepared(job[w]) EXCEPT ![p] = BOOLEAN]
                 /\ fenced' = TRUE
                 /\ Moves(w, Failed([own EXCEPT !.stages = @ \ {job[w].kind}, !.held = TRUE]))
              \/ \* the archive route is not acknowledged
                 /\ job[w].kind = "archive" /\ Faulty
                 /\ fenced' = TRUE
                 /\ Moves(w, Failed(job[w]))
                 /\ UNCHANGED <<there, mayBe>>
    /\ UNCHANGED <<rows, staging, registered, custody, app>>

(* Both directories of the rename are flushed before it counts.            *)
Flush(w) ==
    /\ job[w].pc = "flush"
    /\ LET p == File(job[w].src, job[w].kind) IN
       \/ /\ ~fenced
          /\ mayBe' = Flushed(Directory(p))
          /\ Moves(w, Advance(job[w], TRUE))
          /\ UNCHANGED <<fenced, count>>
       \/ /\ IF fenced THEN UNCHANGED count ELSE Faulty
          /\ fenced' = TRUE
          /\ Moves(w, Failed([job[w] EXCEPT !.stages = @ \ {job[w].kind}, !.held = TRUE]))
          /\ UNCHANGED mayBe
    /\ UNCHANGED <<rows, there, staging, registered, custody, app>>

Catalog(w) ==
    /\ job[w].pc = "catalog" /\ ~fenced
    /\ LET decision == BeforePublish(job[w].src)
           created == IF decision = "none" THEN rows \cup {job[w].src} ELSE rows
       IN  \/ /\ rows' = created
              /\ Moves(w, [job[w] EXCEPT !.pc = "report",
                    !.outcome = IF decision = "none" THEN "imported" ELSE decision])
              /\ UNCHANGED <<fenced, count>>
           \/ \* CommitUncertain
              /\ Faulty
              /\ rows' \in {rows, created}
              /\ fenced' = TRUE
              /\ Moves(w, [job[w] EXCEPT !.pc = "readback"])
    /\ UNCHANGED <<disk, custody, app>>

(* The write is not repeated: the writer reads back what it holds.         *)
Readback(w) ==
    /\ job[w].pc = "readback"
    /\ Moves(w, IF ByHash(job[w].src)
                THEN [job[w] EXCEPT !.pc = "report", !.outcome = "imported"]
                ELSE Failed(job[w]))
    /\ UNCHANGED <<rows, disk, custody, fenced, app, count>>

-----------------------------------------------------------------------------
(* Compensation, the report and the settlement                             *)

Absent(s) == \A r \in rows : Files(r) \cap Files(s) = {}

(* What a failed cleanup leaves: the owner is kept, and settle refuses it. *)
Holding(j) == [j EXCEPT !.held = TRUE, !.pc = IF j.reported THEN "settle" ELSE "compensate"]

(* Restored: the last publication goes back.  Reused files stay.           *)
Compensate(w) ==
    /\ job[w].pc = "compensate" /\ job[w].publications # <<>> /\ Absent(job[w].src)
    /\ LET last == Last(job[w].publications)
           p == File(job[w].src, last.kind)
           popped == [job[w] EXCEPT !.publications = Front(@), !.kind = last.kind]
       IN  \/ /\ ~fenced /\ ~last.new
              /\ Moves(w, [popped EXCEPT !.pc = "retire"])
              /\ UNCHANGED <<there, mayBe, fenced, count>>
           \/ /\ ~fenced /\ last.new
              /\ there' = there \ {p} /\ mayBe' = Unsettled(p)
              /\ Moves(w, [popped EXCEPT !.pc = "restored"])
              /\ UNCHANGED <<fenced, count>>
           \/ \* the fence, or a rename without acknowledgement
              /\ IF fenced
                 THEN UNCHANGED <<there, mayBe, count>>
                 ELSE /\ Faulty /\ last.new
                      /\ there' \in {there, there \ {p}} /\ mayBe' = Unsettled(p)
              /\ fenced' = TRUE
              /\ Moves(w, Holding(popped))
    /\ UNCHANGED <<rows, staging, registered, custody, app>>

FlushRestored(w) ==
    /\ job[w].pc = "restored"
    /\ \/ /\ mayBe' = Flushed(Directory(File(job[w].src, job[w].kind)))
          /\ Moves(w, [job[w] EXCEPT !.pc = "retire"])
          /\ UNCHANGED <<fenced, count>>
       \/ /\ Faulty
          /\ fenced' = TRUE
          /\ Moves(w, Holding(job[w]))
          /\ UNCHANGED mayBe
    /\ UNCHANGED <<rows, there, staging, registered, custody, app>>

(* A call with nothing left to roll back; held owners do not stop it.      *)
Compensated(w) ==
    /\ job[w].pc = "compensate" /\ job[w].publications = <<>>
    /\ Moves(w, [job[w] EXCEPT !.pc = "report"])
    /\ UNCHANGED <<rows, disk, custody, fenced, app, count>>

(* The container goes, and only then the record forgets it.  Of the three  *)
(* cleanups only retire_owned_temp can refuse without raising the fence.   *)
Retire(w) ==
    /\ job[w].pc = "retire"
    /\ \/ /\ ~fenced
          /\ staging' = staging \ {<<w, job[w].kind>>}
          /\ Moves(w, [job[w] EXCEPT !.pc = "forget"])
          /\ UNCHANGED <<fenced, count>>
       \/ /\ IF fenced
             THEN UNCHANGED count
             ELSE Faulty /\ job[w].outcome \in {"failed", "conflict"}
          /\ Moves(w, Holding(job[w]))
          /\ UNCHANGED <<staging, fenced>>
       \/ /\ ~fenced /\ Faulty
          /\ staging' \in {staging, staging \ {<<w, job[w].kind>>}}
          /\ fenced' = TRUE
          /\ Moves(w, Holding(job[w]))
    /\ UNCHANGED <<rows, there, mayBe, registered, custody, app>>

Forget(w) ==
    /\ job[w].pc = "forget" /\ ~fenced
    /\ registered' = registered \ {<<w, job[w].kind>>}
    /\ Moves(w, [job[w] EXCEPT
            !.pc = IF job[w].reported THEN "clean" ELSE "compensate"])
    /\ UNCHANGED <<rows, there, mayBe, staging, custody, fenced, app, count>>

(* The check before it meets the fence, or the record is not acknowledged. *)
ForgetUncertain(w) ==
    /\ job[w].pc = "forget"
    /\ IF fenced
       THEN UNCHANGED <<registered, count>>
       ELSE /\ Faulty
            /\ registered' \in {registered, registered \ {<<w, job[w].kind>>}}
    /\ fenced' = TRUE
    /\ Moves(w, Holding(job[w]))
    /\ UNCHANGED <<rows, there, mayBe, staging, custody, app>>

(* The outcome of the item is durable; the fence does not stop it.         *)
Report(w) ==
    /\ job[w].pc = "report"
    /\ Moves(w, [job[w] EXCEPT !.pc = "settle", !.reported = TRUE])
    /\ UNCHANGED <<rows, disk, custody, fenced, app, count>>

Settle(w) ==
    /\ job[w].pc = "settle" /\ ~job[w].held
    /\ custody = w \/ TryCustody
    /\ custody' = w
    /\ Moves(w, [job[w] EXCEPT !.pc = "clean"])
    /\ UNCHANGED <<rows, disk, fenced, app, count>>

(* Artwork container, archive container, then the publications backwards.  *)
Clean(w) ==
    /\ job[w].pc = "clean"
    /\ LET j == job[w]
           kind == IF "artwork" \in j.stages THEN "artwork" ELSE "archive"
       IN  \/ /\ j.stages # {}
              /\ Moves(w, [j EXCEPT !.stages = @ \ {kind}, !.kind = kind, !.pc = "retire"])
              /\ UNCHANGED custody
           \/ /\ j.stages = {} /\ j.publications # <<>>
              /\ Moves(w, [j EXCEPT !.publications = Front(@),
                                    !.kind = Last(j.publications).kind, !.pc = "retire"])
              /\ UNCHANGED custody
           \/ /\ j.stages = {} /\ j.publications = <<>>
              /\ Moves(w, Idle)
              /\ custody' = NoOne
    /\ UNCHANGED <<rows, disk, fenced, app, count>>

-----------------------------------------------------------------------------
(* The rest of the library                                                 *)

(* StoryRemoval, in one step: the row and the archive go under custody,    *)
(* the artwork of the story stays.                                         *)
RemoveStory ==
    /\ app = "open" /\ custody = NoOne /\ ~fenced /\ count.removals < MaxRemovals
    /\ \E r \in rows :
        /\ rows' = rows \ {r}
        /\ there' = there \ {File(r, "archive")}
        /\ mayBe' = [mayBe EXCEPT ![File(r, "archive")] = {FALSE}]
    /\ Spend("removals")
    /\ UNCHANGED <<staging, registered, custody, fenced, job, app>>

(* Another transaction of the library has an uncertain commit.             *)
OtherUncertain ==
    /\ app = "open" /\ ~fenced /\ Faulty
    /\ fenced' = TRUE
    /\ UNCHANGED <<rows, disk, custody, job, app>>

Dies ==
    /\ app # "refused" /\ count.deaths < MaxDeaths
    /\ Spend("deaths")
    /\ job' = [w \in Workers |-> Idle]
    /\ custody' = NoOne /\ fenced' = FALSE /\ app' = "starting"
    /\ UNCHANGED <<rows, registered>>

Crash == Dies /\ UNCHANGED <<there, mayBe, staging>>

(* A container is durable once registered and gone once forgotten.         *)
LosePower ==
    /\ Dies
    /\ \E kept \in SUBSET Paths :
        /\ \A p \in Paths : (p \in kept) \in mayBe[p]
        /\ there' = kept
        /\ mayBe' = [p \in Paths |-> {(p \in kept)}]
    /\ \E left \in SUBSET ((staging \cup registered) \ (staging \cap registered)) :
        staging' = (staging \cap registered) \cup left

(* Recovery of one registered container: it goes, and then its entry.      *)
Recover(c) ==
    /\ app = "starting" /\ c \in registered
    /\ IF c \in staging
       THEN staging' = staging \ {c} /\ UNCHANGED registered
       ELSE registered' = registered \ {c} /\ UNCHANGED staging
    /\ UNCHANGED <<rows, there, mayBe, custody, fenced, job, app, count>>

(* require_empty_staging                                                   *)
Open ==
    /\ app = "starting" /\ registered = {}
    /\ app' = IF staging = {} THEN "open" ELSE "refused"
    /\ UNCHANGED <<rows, disk, custody, fenced, job, count>>

Work(w) ==
    \/ CreateStage(w) \/ PartialStage(w) \/ NoRoute(w)
    \/ Register(w) \/ RegisterUncertain(w) \/ Lookup(w) \/ Check(w)
    \/ Reuse(w) \/ Publish(w) \/ Flush(w) \/ Catalog(w) \/ Readback(w)
    \/ Compensate(w) \/ FlushRestored(w) \/ Compensated(w)
    \/ Retire(w) \/ Forget(w) \/ ForgetUncertain(w) \/ Report(w) \/ Settle(w) \/ Clean(w)

Init ==
    /\ rows = {} /\ there = {} /\ mayBe = [p \in Paths |-> {FALSE}]
    /\ staging = {} /\ registered = {}
    /\ custody = NoOne /\ fenced = FALSE
    /\ job = [w \in Workers |-> Idle]
    /\ app = "open"
    /\ count = [imports |-> 0, removals |-> 0, faults |-> 0, deaths |-> 0]

Next ==
    \/ \E w \in Workers : Begin(w) \/ GiveUp(w) \/ Work(w)
    \/ RemoveStory \/ OtherUncertain \/ Crash \/ LosePower \/ Open
    \/ \E c \in Containers : Recover(c)

(* A worker thread runs until its item is settled; a start runs to its end.*)
(* Giving up is not fair: nothing ends a wait for custody but custody.     *)
Spec ==
    /\ Init /\ [][Next]_vars
    /\ \A w \in Workers : WF_vars(Work(w))
    /\ WF_vars(Open) /\ \A c \in Containers : WF_vars(Recover(c))

-----------------------------------------------------------------------------
(* Properties                                                              *)

(* A catalogued story has its archive and its artwork on disk, and a loss  *)
(* of power takes neither: run flushes what it renames before create, and  *)
(* what it reuses of an earlier process too.                               *)
RowHasFiles ==
    \A r \in rows : \A p \in Files(r) : p \in there /\ mayBe[p] = {TRUE}

(* Until its effects are settled, what an item reports is so: imported and *)
(* duplicate archives are catalogued, a conflict has another archive under *)
(* the same UUID (the custody that execute keeps for settle), and of a     *)
(* failed import no file is left, unless an acknowledgement was lost       *)
(* (compensate).                                                           *)
ReportIsTrue ==
    \A w \in Workers : job[w].reported =>
        LET s == job[w].src IN
        /\ job[w].outcome \in {"imported", "duplicate"} => ByHash(s)
        /\ job[w].outcome = "conflict" => \E r \in rows : r.uuid = s.uuid /\ r.hash # s.hash
        /\ job[w].outcome = "failed" /\ ~fenced => job[w].made \cap there = {}

(* A managed file disappears only with the story it belongs to, with power *)
(* before it was flushed, or by the import that put it there itself:       *)
(* rollback_import leaves reused files alone.                              *)
OrphansStay ==
    [][ \A p \in there \ there' :
            \/ \E r \in rows \ rows' : p = File(r, "archive")
            \/ \E w \in Workers : p \in job[w].made
            \/ app' = "starting" ]_vars

(* An import ends, whatever the other workers hold, unless the library is  *)
(* fenced, an owner is held for ever or the process ends.                  *)
ImportEnds ==
    \A w \in Workers :
        job[w].pc # "idle" ~>
            job[w].pc = "idle" \/ fenced \/ app # "open" \/ \E v \in Workers : job[v].held

=============================================================================
