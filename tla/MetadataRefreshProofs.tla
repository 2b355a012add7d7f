------------------------ MODULE MetadataRefreshProofs ------------------------
(***************************************************************************)
(* The safety of the metadata refresh, for any images and any number of    *)
(* refreshes, requests, faults, deaths and losses of power.                *)
(*                                                                         *)
(* RefreshInv is the inductive invariant.  Of the files it says which are  *)
(* settled at each point of a publication, of the rows what they say of    *)
(* the refresh that the worker runs and of all that went before it.        *)
(***************************************************************************)
EXTENDS MetadataRefresh, TLAPS

(* The actor holds the custody.                                            *)
Guarded == {"stage", "flush", "verify", "commit", "finish"}

Unstaged == {"fetch", "custody", "stage", "flush", "verify", "commit"}

(* The response of refresh r was not published yet.                        *)
Unpublished(r) ==
    \/ r > count.refreshes
    \/ r = count.refreshes /\ R.pc \in {"start", "begin", "fetch", "custody", "stage"}

(* What the disk holds is one of the things a loss of power may leave, and *)
(* it may leave nothing that was never written.                            *)
DiskAgrees ==
    /\ \A p \in Paths : (p \in there) \in mayBe[p]
    /\ \A r \in Refreshes : Unpublished(r) => mayBe[<<"raw", r>>] = {FALSE}

(* The actor at each point of MetadataStorage::publish.  The custody keeps *)
(* the flushed route of the artwork as it is up to the look at the file,   *)
(* and a receipt is given for a durable file only.                         *)
Publishing(a) ==
    /\ work[a].pc # "idle" =>
          work[a].file \in IF a = "artwork" THEN {"art"} \X Images
                           ELSE {<<"raw", count.refreshes>>}
    /\ a = "artwork" => work[a].pc \in {"idle", "custody"} \cup Guarded
    /\ work[a].pc \in Guarded => custody = a
    /\ work[a].pc \in {"stage", "verify"} /\ a = "artwork" =>
          \A i \in Images : mayBe[<<"art", i>>] = {(<<"art", i>> \in there)}
    /\ work[a].pc \in {"flush", "verify"} => work[a].file \in there
    /\ work[a].pc = "verify" => a = "artwork"
    /\ work[a].pc = "commit" => mayBe[work[a].file] = {TRUE}

(* The code is a true report of the row with the status s.                 *)
Tells(code, s) ==
    \/ code = "succeeded" /\ s = "succeeded"
    \/ code = "cancelled" /\ s \in {"none", "cancelled"}
    \/ code = "failed" /\ s \in {"none", "running", "failed"}

(* The worker of the refresh and its rows, at each point.                  *)
Running ==
    R.pc # "idle" =>
        LET n == count.refreshes IN
        /\ n \in Refreshes /\ item[n] = "running"
        /\ R.pc \in {"start", "begin"} => syncs[n] = "none" /\ snaps[n] = "none" /\ ~R.staged
        /\ R.pc \in Unstaged => syncs[n] = "running" /\ snaps[n] = "none" /\ ~R.staged
        /\ R.pc \in {"finish", "activate", "fail"} =>
              syncs[n] = "running" /\ snaps[n] = IF R.staged THEN "staged" ELSE "none"
        /\ R.pc = "activate" => R.staged
        /\ R.pc = "fail" => R.code \in {"failed", "cancelled"}
        /\ R.pc = "report" => Tells(R.code, syncs[n])

(* The rows of all refreshes; what comes after the last one is not there.  *)
History ==
    /\ \A r \in Refreshes : r > count.refreshes =>
          syncs[r] = "none" /\ snaps[r] = "none" /\ item[r] = "none"
    /\ \A r \in Refreshes : snaps[r] \in {"active", "superseded"} <=> syncs[r] = "succeeded"
    /\ \A r, q \in Refreshes : snaps[r] = "active" /\ syncs[q] = "succeeded" => q <= r
    /\ \A r \in Refreshes : item[r] \in {"succeeded", "cancelled", "failed"} => Tells(item[r], syncs[r])
    /\ \A r \in Refreshes : syncs[r] = "running" => item[r] \in {"running", "failed"}
    /\ \A r \in Refreshes : syncs[r] = "succeeded" => \E q \in Refreshes : snaps[q] = "active"

(* Nobody works before the application is open.                            *)
Quiet == app = "starting" => \A a \in Actors : work[a].pc = "idle"

RefreshInv ==
    /\ TypeOK
    /\ DiskAgrees
    /\ CatalogHasFiles
    /\ \A a \in Actors : Publishing(a)
    /\ Running
    /\ History
    /\ Quiet

-----------------------------------------------------------------------------
(* The actors, their files and their records.                              *)

LEMMA Apart ==
  /\ Actors = {"refresh", "artwork"} /\ "refresh" # "artwork"
  /\ NoOne \notin Actors
  /\ \A r \in Refreshes : <<"raw", r>> \in Paths /\ <<"raw", r>>[1] = "raw" /\ <<"raw", r>>[2] = r
  /\ \A i \in Images : <<"art", i>> \in Paths /\ <<"art", i>>[1] = "art" /\ <<"art", i>>[2] = i
  /\ \A p \in Paths : \/ p[1] = "raw" /\ p[2] \in Refreshes /\ p = <<"raw", p[2]>>
                      \/ p[1] = "art" /\ p[2] \in Images /\ p = <<"art", p[2]>>
  BY MetadataAssumption DEF Actors, Paths

LEMMA CountsTyped ==
  ASSUME TypeOK
  PROVE  /\ count.refreshes \in Nat /\ Refreshes \subseteq Nat
         /\ count.refreshes \in 0..MaxRefreshes
         /\ count.refreshes + 1 \in Nat
         /\ \A r \in Refreshes : r \in Nat /\ r # 0
  BY MetadataAssumption DEF TypeOK, Counts, Refreshes

LEMMA IdleTyped == Idle \in Jobs /\ Idle.pc = "idle"
  BY DEF Idle, Jobs, Points

LEMMA LeavesTyped ==
  ASSUME NEW h \in BOOLEAN, NEW k, k = [Idle EXCEPT !.held = h]
  PROVE  k \in Jobs /\ k.pc = "idle"
  BY DEF Idle, Jobs, Points

(* The effect of a move of one actor.                                      *)
LEMMA Moved ==
  ASSUME TypeOK, NEW a \in Actors, NEW j \in Jobs, Moves(a, j)
  PROVE  /\ work' \in [Actors -> Jobs]
         /\ work'[a] = j
         /\ \A b \in Actors \ {a} : work'[b] = work[b]
  BY DEF TypeOK, Moves

LEMMA Spent ==
  ASSUME TypeOK, Faulty
  PROVE  count' \in Counts /\ count'.refreshes = count.refreshes
  BY MetadataAssumption DEF TypeOK, Faulty, Spend, Counts

(* The records that the code makes of a record.                            *)
LEMMA Going ==
  ASSUME NEW j \in Jobs, NEW pc \in Points, NEW k, k = [j EXCEPT !.pc = pc]
  PROVE  /\ k \in Jobs /\ k.pc = pc /\ k.file = j.file /\ k.code = j.code
         /\ k.staged <=> j.staged
  BY DEF Jobs

LEMMA HeldTyped ==
  ASSUME NEW j \in Jobs, NEW k, k = [j EXCEPT !.held = TRUE]
  PROVE  /\ k \in Jobs /\ k.pc = j.pc /\ k.file = j.file /\ k.code = j.code
         /\ k.staged <=> j.staged
         /\ k.cancelled <=> j.cancelled
  BY DEF Jobs

LEMMA CancelTyped ==
  ASSUME NEW j \in Jobs, NEW k, k = [j EXCEPT !.cancelled = TRUE]
  PROVE  /\ k \in Jobs /\ k.pc = j.pc /\ k.file = j.file /\ k.code = j.code
         /\ k.staged <=> j.staged
  BY DEF Jobs

LEMMA FailingTyped ==
  ASSUME NEW j \in Jobs, NEW c \in {"failed", "cancelled"}, NEW k, k = Failing(j, c)
  PROVE  /\ k \in Jobs /\ k.pc = "fail" /\ k.file = j.file /\ k.code = c
         /\ k.staged <=> j.staged
  BY DEF Jobs, Failing, Points

LEMMA OutcomeTyped ==
  ASSUME NEW j \in Jobs, NEW c \in {"succeeded", "failed", "cancelled"}, NEW k, k = Outcome(j, c)
  PROVE  /\ k \in Jobs /\ k.pc \in {"spin", "report"} /\ k.file = j.file /\ k.code = c
  BY DEF Jobs, Outcome, Points

LEMMA UncertainTyped ==
  ASSUME NEW j \in Jobs, NEW k, k = Uncertain(j)
  PROVE  k \in Jobs /\ k.pc = "spin" /\ k.file = j.file
  BY DEF Jobs, Uncertain, Points

LEMMA CodeTyped == \A j : Code(j) \in {"failed", "cancelled"}
  BY DEF Code

LEMMA NotPublishedTyped ==
  ASSUME NEW j \in Jobs, NEW a \in Actors, NEW k, k = NotPublished(a, j)
  PROVE  /\ k \in Jobs
         /\ a = "artwork" => k.pc = "idle"
         /\ a = "refresh" => /\ k.pc = "fail" /\ k.file = j.file
                             /\ k.code \in {"failed", "cancelled"}
                             /\ k.staged <=> j.staged
<1>1. CASE a = "refresh"
  <2>1. k = Failing(j, Code(j))
    BY <1>1 DEF NotPublished
  <2> QED BY <1>1, <2>1, CodeTyped, FailingTyped
<1>2. CASE a = "artwork"
  <2>1. k = [Idle EXCEPT !.held = j.held] /\ j.held \in BOOLEAN
    BY <1>2 DEF NotPublished, Jobs
  <2> QED BY <1>2, <2>1, LeavesTyped
<1> QED BY <1>1, <1>2, Apart

LEMMA AfterRowsTyped ==
  ASSUME NEW j \in Jobs, NEW a \in Actors, NEW k, k = AfterRows(a, j)
  PROVE  /\ k \in Jobs
         /\ a = "artwork" => k.pc = "idle"
         /\ a = "refresh" => /\ k.pc \in {"fail", "activate"} /\ k.file = j.file
                             /\ k.staged <=> j.staged
                             /\ k.pc = "fail" => k.code \in {"failed", "cancelled"}
                             /\ k.pc = "activate" => k.staged
<1>1. CASE a = "artwork"
  <2>1. k = [Idle EXCEPT !.held = j.held] /\ j.held \in BOOLEAN
    BY <1>1 DEF AfterRows, Jobs
  <2> QED BY <1>1, <2>1, LeavesTyped
<1>2. CASE a = "refresh" /\ ~j.staged
  <2>1. k = Failing(j, Code(j))
    BY <1>2 DEF AfterRows
  <2> QED BY <1>2, <2>1, CodeTyped, FailingTyped
<1>3. CASE a = "refresh" /\ j.staged /\ j.cancelled
  <2>1. k = Failing(j, "cancelled")
    BY <1>3 DEF AfterRows
  <2> QED BY <1>3, <2>1, FailingTyped
<1>4. CASE a = "refresh" /\ j.staged /\ ~j.cancelled
  <2>1. k = [j EXCEPT !.pc = "activate"] /\ "activate" \in Points
    BY <1>4 DEF AfterRows, Points
  <2> QED BY <1>4, <2>1, Going
<1> QED BY <1>1, <1>2, <1>3, <1>4, Apart

-----------------------------------------------------------------------------
(* What a step of one actor leaves alone.                                  *)

Early == {"start", "begin", "fetch", "custody", "stage"}

Steps(a) ==
    /\ app = "open" /\ app' = "open"
    /\ count'.refreshes = count.refreshes
    /\ \A b \in Actors \ {a} : work'[b] = work[b] /\ (custody = b => custody' = b)
    /\ work'[a].pc # "idle" => work[a].pc # "idle" /\ work'[a].file = work[a].file
    /\ work'[a].pc \in Early => work[a].pc \in Early

(* The disk is touched under custody only.                                 *)
Guards(a) == UNCHANGED disk \/ custody \in {a, NoOne}

LEMMA OthersPublish ==
  ASSUME RefreshInv, NEW a \in Actors, Steps(a), Guards(a), NEW b \in Actors, b # a
  PROVE  Publishing(b)'
<1>1. work'[b] = work[b] /\ (custody = b => custody' = b) /\ count'.refreshes = count.refreshes
  BY DEF Steps
<1>2. Publishing(b)
  BY DEF RefreshInv
<1>3. CASE work[b].pc \notin Guarded
  BY <1>1, <1>2, <1>3 DEF Publishing, Guarded
<1>4. CASE work[b].pc \in Guarded
  <2>1. custody = b /\ mayBe' = mayBe /\ there' = there
    BY <1>2, <1>4, Apart DEF Publishing, Guards, disk
  <2> QED BY <1>1, <1>2, <2>1 DEF Publishing
<1> QED BY <1>3, <1>4

LEMMA FreshStays ==
  ASSUME TypeOK, NEW a \in Actors, Steps(a), NEW r \in Refreshes, Unpublished(r)'
  PROVE  Unpublished(r)
<1>1. R'.pc \in Early => R.pc \in Early
  <2>1. CASE a = "refresh"
    BY <2>1 DEF Steps, R
  <2>2. CASE a = "artwork"
    BY <2>2, Apart DEF Steps, R
  <2> QED BY <2>1, <2>2, Apart
<1> QED BY <1>1 DEF Unpublished, Steps, Early

LEMMA DiskKept ==
  ASSUME RefreshInv, NEW a \in Actors, Steps(a), UNCHANGED disk
  PROVE  DiskAgrees'
<1>1. mayBe' = mayBe /\ there' = there
  BY DEF disk
<1>2. \A r \in Refreshes : Unpublished(r)' => Unpublished(r)
  BY FreshStays DEF RefreshInv
<1> QED BY <1>1, <1>2 DEF RefreshInv, DiskAgrees

LEMMA FilesKept ==
  ASSUME CatalogHasFiles, UNCHANGED <<snaps, artRow>>,
         \A p \in Paths : mayBe[p] = {TRUE} => mayBe'[p] = {TRUE}
  PROVE  CatalogHasFiles'
  BY Apart DEF CatalogHasFiles

LEMMA HistoryKept ==
  ASSUME History, UNCHANGED <<syncs, snaps, item>>, count'.refreshes = count.refreshes
  PROVE  History'
  BY DEF History, Tells

LEMMA RunningKept ==
  ASSUME Running, UNCHANGED <<syncs, snaps, item>>, Steps("artwork")
  PROVE  Running'
<1>1. R' = R /\ count'.refreshes = count.refreshes
  BY Apart DEF Steps, R
<1> QED BY <1>1 DEF Running, Tells

LEMMA Whole ==
  ASSUME RefreshInv, NEW a \in Actors, Steps(a), Guards(a), TypeOK', DiskAgrees',
         CatalogHasFiles', Publishing(a)', Running', History'
  PROVE  RefreshInv'
<1>1. \A b \in Actors : Publishing(b)'
  BY OthersPublish
<1>2. Quiet'
  BY DEF Steps, Quiet
<1> QED BY <1>1, <1>2 DEF RefreshInv

(* A step that writes neither rows nor files.                              *)
LEMMA Stays ==
  ASSUME RefreshInv, NEW a \in Actors, Steps(a), UNCHANGED <<syncs, snaps, artRow, item, there, mayBe>>,
         TypeOK', Publishing(a)', a = "refresh" => Running'
  PROVE  RefreshInv'
<1>1. UNCHANGED disk /\ Guards(a)
  BY DEF disk, Guards
<1>2. DiskAgrees'
  BY <1>1, DiskKept
<1>3. CatalogHasFiles'
  BY FilesKept DEF RefreshInv
<1>4. History'
  BY HistoryKept DEF RefreshInv, Steps
<1>5. Running'
  BY RunningKept, Apart DEF RefreshInv
<1> QED BY <1>1, <1>2, <1>3, <1>4, <1>5, Whole

(* The refresh goes on to a point where it has nothing to fear: its rows   *)
(* are as they were.                                                       *)
LEMMA RefreshStays ==
  ASSUME RefreshInv, Steps("refresh"), UNCHANGED <<syncs, snaps, artRow, item, there, mayBe>>,
         TypeOK', R'.pc \notin Guarded \cup {"idle"}, Running'
  PROVE  RefreshInv'
<1>1. "refresh" \in Actors /\ "refresh" # "artwork"
  BY Apart
<1>2. Publishing("refresh") /\ work'["refresh"].pc \notin Guarded \cup {"idle"}
  BY <1>1 DEF RefreshInv, R
<1>3. Publishing("refresh")'
  BY <1>1, <1>2 DEF Publishing, Guarded, Steps
<1> QED BY <1>1, <1>3, Stays

(* An actor that gives its place up, or an artwork that is done.           *)
LEMMA ArtworkLeaves ==
  ASSUME RefreshInv, Steps("artwork"), UNCHANGED <<syncs, snaps, artRow, item, there, mayBe>>,
         TypeOK', work'["artwork"].pc = "idle"
  PROVE  RefreshInv'
<1>1. "artwork" \in Actors /\ "refresh" # "artwork"
  BY Apart
<1>2. Publishing("artwork")'
  BY <1>1 DEF Publishing, Guarded
<1> QED BY <1>1, <1>2, Stays

-----------------------------------------------------------------------------
(* The step that moves an actor to the record k.                           *)

LEMMA Taken ==
  ASSUME TypeOK, NEW a \in Actors, NEW k \in Jobs, Moves(a, k), app = "open", UNCHANGED app,
         count'.refreshes = count.refreshes, UNCHANGED custody \/ custody \in {a, NoOne},
         k.pc # "idle" => work[a].pc # "idle" /\ k.file = work[a].file,
         k.pc \in Early => work[a].pc \in Early
  PROVE  Steps(a) /\ work' \in [Actors -> Jobs] /\ work'[a] = k /\ (a = "refresh" => R' = k)
<1>1. /\ work' \in [Actors -> Jobs] /\ work'[a] = k
      /\ \A b \in Actors \ {a} : work'[b] = work[b]
  BY Moved
<1>2. \A b \in Actors \ {a} : custody = b => custody' = b
  BY Apart
<1> QED BY <1>1, <1>2 DEF Steps, R

LEMMA JobTyped ==
  ASSUME TypeOK
  PROVE  \A a \in Actors : work[a] \in Jobs
  BY DEF TypeOK

LEMMA TypeKept ==
  ASSUME TypeOK, UNCHANGED <<syncs, snaps, artRow, item, there, mayBe, app>>,
         work' \in [Actors -> Jobs], count' \in Counts, custody' \in Actors \cup {NoOne},
         fenced' \in BOOLEAN
  PROVE  TypeOK'
  BY DEF TypeOK

LEMMA CountKept ==
  ASSUME TypeOK, UNCHANGED count
  PROVE  count' \in Counts /\ count'.refreshes = count.refreshes
  BY DEF TypeOK

(* What a failed refresh needs: a running row, and to know of the staged   *)
(* snapshot.                                                               *)
LEMMA ToFail ==
  ASSUME Running, UNCHANGED <<syncs, snaps, item>>, count'.refreshes = count.refreshes,
         R.pc \in Unstaged \cup {"finish", "activate"}, R'.pc = "fail",
         R'.code \in {"failed", "cancelled"}, R'.staged <=> R.staged
  PROVE  Running'
  BY DEF Running, Unstaged

(* What a report needs: that it is true.                                   *)
LEMMA ToReport ==
  ASSUME Running, UNCHANGED item, count'.refreshes = count.refreshes,
         R.pc # "idle", R'.pc \in {"spin", "report"}, Tells(R'.code, syncs'[count.refreshes])
  PROVE  Running'
  BY DEF Running, Unstaged, Tells

(* Nothing is promised of an effect without answer.                        *)
LEMMA ToSpin ==
  ASSUME Running, UNCHANGED item, count'.refreshes = count.refreshes,
         R.pc # "idle", R'.pc = "spin"
  PROVE  Running'
  BY DEF Running, Unstaged

-----------------------------------------------------------------------------
(* The refresh up to the payload.                                          *)

LEMMA ExecuteKeeps == ASSUME RefreshInv, Execute PROVE RefreshInv'
<1> DEFINE a == "refresh"
<1>0. TypeOK /\ Running /\ a \in Actors /\ R \in Jobs /\ R = work[a]
  BY JobTyped, Apart DEF RefreshInv, R
<1>1. /\ app = "open" /\ R.pc = "start"
      /\ UNCHANGED <<syncs, snaps, artRow, item, there, mayBe, custody, fenced, app, count>>
  BY DEF Execute, At, R, db, disk
<1>2. PICK k : /\ Moves(a, k)
               /\ k = Outcome(R, "cancelled") \/ k = [R EXCEPT !.pc = "begin"]
  BY DEF Execute
<1>3. /\ k \in Jobs /\ k.file = R.file
      /\ \/ k.pc \in {"spin", "report"} /\ k.code = "cancelled"
         \/ k.pc = "begin" /\ (k.staged <=> R.staged)
  <2>1. "begin" \in Points BY DEF Points
  <2> QED BY <1>0, <1>2, <2>1, OutcomeTyped, Going
<1>4. Steps(a) /\ work' \in [Actors -> Jobs] /\ R' = k
  BY <1>0, <1>1, <1>2, <1>3, Taken DEF Early
<1>5. TypeOK'
  BY <1>0, <1>1, <1>4, TypeKept DEF TypeOK
<1>6. Running'
  <2>1. CASE k.pc = "begin"
    BY <1>0, <1>1, <1>3, <1>4, <2>1 DEF Running, Unstaged
  <2>2. CASE k.pc # "begin"
    <3>1. Tells("cancelled", syncs[count.refreshes])
      BY <1>0, <1>1 DEF Running, Tells
    <3> QED BY <1>0, <1>1, <1>3, <1>4, <2>2, <3>1, ToReport
  <2> QED BY <2>1, <2>2
<1>7. R'.pc \notin Guarded \cup {"idle"}
  BY <1>3, <1>4 DEF Guarded
<1> QED BY <1>1, <1>4, <1>5, <1>6, <1>7, RefreshStays

LEMMA BeginRefusedKeeps == ASSUME RefreshInv, BeginRefused PROVE RefreshInv'
<1> DEFINE a == "refresh"
           k == Outcome(R, Code(R))
<1>0. TypeOK /\ Running /\ a \in Actors /\ R \in Jobs /\ R = work[a]
  BY JobTyped, Apart DEF RefreshInv, R
<1>1. /\ app = "open" /\ R.pc = "begin" /\ Moves(a, k)
      /\ UNCHANGED <<syncs, snaps, artRow, item, there, mayBe, custody, fenced, app, count>>
  BY DEF BeginRefused, At, R, db, disk
<1>2. k \in Jobs /\ k.pc \in {"spin", "report"} /\ k.file = R.file /\ k.code \in {"failed", "cancelled"}
  BY <1>0, CodeTyped, OutcomeTyped
<1> HIDE DEF k
<1>3. Steps(a) /\ work' \in [Actors -> Jobs] /\ R' = k
  BY <1>0, <1>1, <1>2, Taken DEF Early
<1>4. TypeOK'
  BY <1>0, <1>1, <1>3, TypeKept DEF TypeOK
<1>5. Tells(k.code, syncs[count.refreshes])
  BY <1>0, <1>1, <1>2 DEF Running, Tells
<1>6. Running'
  BY <1>0, <1>1, <1>2, <1>3, <1>5, ToReport
<1>7. R'.pc \notin Guarded \cup {"idle"}
  BY <1>2, <1>3 DEF Guarded
<1> QED BY <1>1, <1>3, <1>4, <1>6, <1>7, RefreshStays

LEMMA FetchedKeeps == ASSUME RefreshInv, Fetched PROVE RefreshInv'
<1> DEFINE a == "refresh"
           k == [R EXCEPT !.pc = "custody"]
<1>0. TypeOK /\ Running /\ a \in Actors /\ R \in Jobs /\ R = work[a]
  BY JobTyped, Apart DEF RefreshInv, R
<1>1. /\ app = "open" /\ R.pc = "fetch" /\ Moves(a, k)
      /\ UNCHANGED <<syncs, snaps, artRow, item, there, mayBe, custody, fenced, app, count>>
  BY DEF Fetched, At, R, db, disk
<1>2. k \in Jobs /\ k.pc = "custody" /\ k.file = R.file /\ (k.staged <=> R.staged)
  <2>1. "custody" \in Points BY DEF Points
  <2> QED BY <1>0, <2>1, Going
<1> HIDE DEF k
<1>3. Steps(a) /\ work' \in [Actors -> Jobs] /\ R' = k
  BY <1>0, <1>1, <1>2, Taken DEF Early
<1>4. TypeOK'
  BY <1>0, <1>1, <1>3, TypeKept DEF TypeOK
<1>5. Running'
  BY <1>0, <1>1, <1>2, <1>3 DEF Running, Unstaged
<1>6. R'.pc \notin Guarded \cup {"idle"}
  BY <1>2, <1>3 DEF Guarded
<1> QED BY <1>1, <1>3, <1>4, <1>5, <1>6, RefreshStays

(* The refresh goes to RefreshSession::failed.                             *)
LEMMA FailsWith ==
  ASSUME RefreshInv, NEW code \in {"failed", "cancelled"}, Moves("refresh", Failing(R, code)),
         app = "open", R.pc \in {"fetch", "activate"},
         UNCHANGED <<syncs, snaps, artRow, item, there, mayBe, custody, fenced, app, count>>
  PROVE  RefreshInv'
<1> DEFINE a == "refresh"
           k == Failing(R, code)
<1>0. TypeOK /\ Running /\ a \in Actors /\ R \in Jobs /\ R = work[a]
  BY JobTyped, Apart DEF RefreshInv, R
<1>2. /\ k \in Jobs /\ k.pc = "fail" /\ k.file = R.file /\ (k.staged <=> R.staged)
      /\ k.code \in {"failed", "cancelled"}
  BY <1>0, FailingTyped
<1> HIDE DEF k
<1>3. Steps(a) /\ work' \in [Actors -> Jobs] /\ R' = k
  <2>1. Moves(a, k) BY DEF k
  <2> QED BY <1>0, <1>2, <2>1, Taken DEF Early
<1>4. TypeOK'
  BY <1>0, <1>3, TypeKept DEF TypeOK
<1>5. Running'
  BY <1>0, <1>2, <1>3, ToFail DEF Unstaged
<1>6. R'.pc \notin Guarded \cup {"idle"}
  BY <1>2, <1>3 DEF Guarded
<1> QED BY <1>3, <1>4, <1>5, <1>6, RefreshStays

LEMMA FetchFailsKeeps == ASSUME RefreshInv, FetchFails PROVE RefreshInv'
  BY FailsWith, CodeTyped DEF FetchFails, At, R, db, disk

LEMMA ActivateRefusedKeeps == ASSUME RefreshInv, ActivateRefused PROVE RefreshInv'
  BY FailsWith DEF ActivateRefused, At, R, db, disk

LEMMA FailRefusedKeeps == ASSUME RefreshInv, FailRefused PROVE RefreshInv'
<1> DEFINE a == "refresh"
           k == Outcome(R, "failed")
<1>0. TypeOK /\ Running /\ a \in Actors /\ R \in Jobs /\ R = work[a]
  BY JobTyped, Apart DEF RefreshInv, R
<1>1. /\ app = "open" /\ R.pc = "fail" /\ Moves(a, k)
      /\ UNCHANGED <<syncs, snaps, artRow, item, there, mayBe, custody, fenced, app, count>>
  BY DEF FailRefused, At, R, db, disk
<1>2. k \in Jobs /\ k.pc \in {"spin", "report"} /\ k.file = R.file /\ k.code = "failed"
  BY <1>0, OutcomeTyped
<1> HIDE DEF k
<1>3. Steps(a) /\ work' \in [Actors -> Jobs] /\ R' = k
  BY <1>0, <1>1, <1>2, Taken DEF Early
<1>4. TypeOK'
  BY <1>0, <1>1, <1>3, TypeKept DEF TypeOK
<1>5. Tells(k.code, syncs[count.refreshes])
  BY <1>0, <1>1, <1>2 DEF Running, Tells
<1>6. Running'
  BY <1>0, <1>1, <1>2, <1>3, <1>5, ToReport
<1>7. R'.pc \notin Guarded \cup {"idle"}
  BY <1>2, <1>3 DEF Guarded
<1> QED BY <1>1, <1>3, <1>4, <1>6, <1>7, RefreshStays

-----------------------------------------------------------------------------
(* What the refresh writes in the rows.                                    *)

LEMMA SyncIsLast ==
  ASSUME RefreshInv, R.pc # "idle"
  PROVE  Sync = count.refreshes /\ Sync \in Refreshes /\ R.file = <<"raw", Sync>>
<1>1. R.file = <<"raw", count.refreshes>> /\ count.refreshes \in Refreshes
  BY Apart DEF RefreshInv, Publishing, Running, R
<1> QED BY <1>1, Apart DEF Sync

(* A step that writes rows and leaves the files alone.                     *)
LEMMA RefreshWrites ==
  ASSUME RefreshInv, Steps("refresh"), UNCHANGED <<there, mayBe>>, TypeOK', CatalogHasFiles',
         R'.pc \notin Guarded \cup {"idle"}, Running', History'
  PROVE  RefreshInv'
<1>1. "refresh" \in Actors /\ "refresh" # "artwork"
  BY Apart
<1>2. Publishing("refresh") /\ work'["refresh"].pc \notin Guarded \cup {"idle"}
  BY <1>1 DEF RefreshInv, R
<1>3. Publishing("refresh")'
  BY <1>1, <1>2 DEF Publishing, Guarded, Steps
<1>4. DiskAgrees' /\ Guards("refresh")
  BY <1>1, DiskKept DEF disk, Guards
<1> QED BY <1>1, <1>3, <1>4, Whole

(* The row of a refresh that begins.                                       *)
LEMMA BeginRow ==
  ASSUME RefreshInv, R.pc = "begin", syncs' = [syncs EXCEPT ![Sync] = "running"],
         UNCHANGED <<snaps, artRow, item>>, count'.refreshes = count.refreshes
  PROVE  /\ History'
         /\ syncs' \in [Refreshes -> {"none", "running", "succeeded", "failed", "cancelled"}]
         /\ syncs'[count.refreshes] = "running"
<1>1. /\ TypeOK /\ History /\ Sync = count.refreshes /\ Sync \in Refreshes
      /\ syncs[Sync] = "none" /\ snaps[Sync] = "none" /\ item[Sync] = "running"
  BY SyncIsLast DEF RefreshInv, Running
<1>2. /\ syncs'[Sync] = "running" /\ \A r \in Refreshes \ {Sync} : syncs'[r] = syncs[r]
      /\ syncs' \in [Refreshes -> {"none", "running", "succeeded", "failed", "cancelled"}]
  BY <1>1 DEF TypeOK
<1>3. ~ (Sync > count.refreshes)
  BY <1>1, CountsTyped
<1>4. History'
  BY <1>1, <1>2, <1>3 DEF History, Tells
<1> QED BY <1>1, <1>2, <1>4

LEMMA BeginSyncKeeps == ASSUME RefreshInv, BeginSync PROVE RefreshInv'
<1> DEFINE a == "refresh"
           k == [R EXCEPT !.pc = "fetch"]
<1>0. TypeOK /\ Running /\ a \in Actors /\ R \in Jobs /\ R = work[a] /\ CatalogHasFiles
  BY JobTyped, Apart DEF RefreshInv, R
<1>1. /\ app = "open" /\ R.pc = "begin" /\ Moves(a, k)
      /\ syncs' = [syncs EXCEPT ![Sync] = "running"]
      /\ UNCHANGED <<snaps, artRow, item, there, mayBe, custody, fenced, app, count>>
  BY DEF BeginSync, At, R, disk
<1>2. k \in Jobs /\ k.pc = "fetch" /\ k.file = R.file /\ (k.staged <=> R.staged)
  <2>1. "fetch" \in Points BY DEF Points
  <2> QED BY <1>0, <2>1, Going
<1> HIDE DEF k
<1>3. Steps(a) /\ work' \in [Actors -> Jobs] /\ R' = k
  BY <1>0, <1>1, <1>2, Taken DEF Early
<1>4. /\ History' /\ syncs'[count.refreshes] = "running"
      /\ syncs' \in [Refreshes -> {"none", "running", "succeeded", "failed", "cancelled"}]
  BY <1>1, BeginRow
<1>5. TypeOK'
  BY <1>0, <1>1, <1>3, <1>4 DEF TypeOK
<1>6. Running'
  BY <1>0, <1>1, <1>2, <1>3, <1>4 DEF Running, Unstaged
<1>7. R'.pc \notin Guarded \cup {"idle"}
  BY <1>2, <1>3 DEF Guarded
<1>8. CatalogHasFiles'
  BY <1>0, <1>1, FilesKept
<1> QED BY <1>1, <1>3, <1>4, <1>5, <1>6, <1>7, <1>8, RefreshWrites

(* A transaction of the refresh without answer, its rows in order.         *)
LEMMA WriteUnknown ==
  ASSUME RefreshInv, Moves("refresh", Uncertain(R)), Faulty, fenced' = TRUE,
         app = "open", R.pc # "idle", UNCHANGED <<item, there, mayBe, custody, app>>,
         CatalogHasFiles', History',
         syncs' \in [Refreshes -> {"none", "running", "succeeded", "failed", "cancelled"}],
         snaps' \in [Refreshes -> {"none", "staged", "active", "superseded", "rejected"}],
         artRow' \in {"none", "missing"} \cup Images
  PROVE  RefreshInv'
<1> DEFINE a == "refresh"
           k == Uncertain(R)
<1>0. TypeOK /\ Running /\ a \in Actors /\ R \in Jobs /\ R = work[a]
  BY JobTyped, Apart DEF RefreshInv, R
<1>1. k \in Jobs /\ k.pc = "spin" /\ k.file = R.file
  BY <1>0, UncertainTyped
<1>2. count' \in Counts /\ count'.refreshes = count.refreshes
  BY <1>0, Spent
<1> HIDE DEF k
<1>3. Steps(a) /\ work' \in [Actors -> Jobs] /\ R' = k
  <2>1. Moves(a, k) BY DEF k
  <2> QED BY <1>0, <1>1, <1>2, <2>1, Taken DEF Early
<1>4. TypeOK'
  BY <1>0, <1>2, <1>3 DEF TypeOK
<1>5. Running'
  BY <1>0, <1>1, <1>2, <1>3, ToSpin
<1>6. R'.pc \notin Guarded \cup {"idle"}
  BY <1>1, <1>3 DEF Guarded
<1> QED BY <1>3, <1>4, <1>5, <1>6, RefreshWrites

LEMMA BeginUnknownKeeps == ASSUME RefreshInv, BeginUnknown PROVE RefreshInv'
<1>0. TypeOK /\ CatalogHasFiles /\ History
  BY DEF RefreshInv
<1>1. /\ app = "open" /\ R.pc = "begin" /\ Moves("refresh", Uncertain(R)) /\ Faulty /\ fenced' = TRUE
      /\ syncs' = syncs \/ syncs' = [syncs EXCEPT ![Sync] = "running"]
      /\ UNCHANGED <<snaps, artRow, item, there, mayBe, custody, app>>
  BY DEF BeginUnknown, At, R, disk
<1>2. count'.refreshes = count.refreshes
  BY <1>0, <1>1, Spent
<1>3. /\ History'
      /\ syncs' \in [Refreshes -> {"none", "running", "succeeded", "failed", "cancelled"}]
  BY <1>0, <1>1, <1>2, BeginRow, HistoryKept DEF TypeOK
<1>4. CatalogHasFiles'
  BY <1>0, <1>1, FilesKept
<1> QED BY <1>0, <1>1, <1>3, <1>4, WriteUnknown DEF TypeOK

SyncStates == {"none", "running", "succeeded", "failed", "cancelled"}
SnapStates == {"none", "staged", "active", "superseded", "rejected"}

(* Activation: the last refresh is the greatest, and the only active one.  *)
LEMMA ActivatedRows ==
  ASSUME RefreshInv, R.pc = "activate", Activated, UNCHANGED <<item, mayBe>>,
         count'.refreshes = count.refreshes
  PROVE  /\ History' /\ CatalogHasFiles' /\ syncs'[count.refreshes] = "succeeded"
         /\ syncs' \in [Refreshes -> SyncStates] /\ snaps' \in [Refreshes -> SnapStates]
         /\ artRow' = artRow
<1>1. /\ TypeOK /\ History /\ CatalogHasFiles /\ Sync = count.refreshes /\ Sync \in Refreshes
      /\ syncs[Sync] = "running" /\ snaps[Sync] = "staged" /\ item[Sync] = "running"
  BY SyncIsLast DEF RefreshInv, Running
<1>2. /\ artRow' = artRow
      /\ syncs'[Sync] = "succeeded" /\ \A r \in Refreshes \ {Sync} : syncs'[r] = syncs[r]
      /\ syncs' \in [Refreshes -> SyncStates]
  BY <1>1 DEF TypeOK, Activated, SyncStates
<1>3. /\ snaps'[Sync] = "active"
      /\ \A r \in Refreshes \ {Sync} :
            snaps'[r] = IF snaps[r] = "active" THEN "superseded" ELSE snaps[r]
      /\ snaps' \in [Refreshes -> SnapStates]
  BY <1>1 DEF TypeOK, Activated, SnapStates
<1>4. ~ (Sync > count.refreshes)
  BY <1>1, CountsTyped
<1>5. CatalogHasFiles'
  BY <1>1, <1>2, <1>3 DEF CatalogHasFiles
<1>6. \A r, q \in Refreshes : snaps'[r] = "active" /\ syncs'[q] = "succeeded" => q <= r
  <2> SUFFICES ASSUME NEW r \in Refreshes, NEW q \in Refreshes,
                      snaps'[r] = "active", syncs'[q] = "succeeded"
               PROVE  q <= r
    OBVIOUS
  <2>1. r = Sync
    BY <1>3
  <2>2. ~ (q > count.refreshes)
    BY <1>1, <1>2, <1>4 DEF History
  <2> QED BY <1>1, <2>1, <2>2, CountsTyped
<1>7. \A r \in Refreshes : snaps'[r] \in {"active", "superseded"} <=> syncs'[r] = "succeeded"
  BY <1>1, <1>2, <1>3 DEF History
<1>8. /\ \A r \in Refreshes : item'[r] \in {"succeeded", "cancelled", "failed"} => Tells(item'[r], syncs'[r])
      /\ \A r \in Refreshes : syncs'[r] = "running" => item'[r] \in {"running", "failed"}
      /\ \A r \in Refreshes : r > count'.refreshes =>
            syncs'[r] = "none" /\ snaps'[r] = "none" /\ item'[r] = "none"
      /\ \E q \in Refreshes : snaps'[q] = "active"
  BY <1>1, <1>2, <1>3, <1>4 DEF History, Tells
<1>9. History'
  BY <1>6, <1>7, <1>8 DEF History
<1> QED BY <1>1, <1>2, <1>3, <1>5, <1>9

(* The end of a refresh that failed or was cancelled.                      *)
LEMMA EndedRows ==
  ASSUME RefreshInv, R.pc = "fail", Ends(R.code), UNCHANGED <<item, mayBe>>,
         count'.refreshes = count.refreshes
  PROVE  /\ History' /\ CatalogHasFiles' /\ syncs'[count.refreshes] = R.code
         /\ syncs' \in [Refreshes -> SyncStates] /\ snaps' \in [Refreshes -> SnapStates]
         /\ artRow' = artRow
<1>1. /\ TypeOK /\ History /\ CatalogHasFiles /\ Sync = count.refreshes /\ Sync \in Refreshes
      /\ syncs[Sync] = "running" /\ item[Sync] = "running"
      /\ snaps[Sync] = IF R.staged THEN "staged" ELSE "none"
      /\ R.code \in {"failed", "cancelled"}
  BY SyncIsLast DEF RefreshInv, Running
<1>2. /\ artRow' = artRow
      /\ syncs'[Sync] = R.code /\ \A r \in Refreshes \ {Sync} : syncs'[r] = syncs[r]
      /\ syncs' \in [Refreshes -> SyncStates]
  BY <1>1 DEF TypeOK, Ends, SyncStates
<1>3. /\ snaps'[Sync] = IF R.staged THEN "rejected" ELSE snaps[Sync]
      /\ \A r \in Refreshes \ {Sync} : snaps'[r] = snaps[r]
      /\ snaps' \in [Refreshes -> SnapStates]
  BY <1>1 DEF TypeOK, Ends, SnapStates
<1>4. ~ (Sync > count.refreshes)
  BY <1>1, CountsTyped
<1>5. CatalogHasFiles'
  BY <1>1, <1>2, <1>3 DEF CatalogHasFiles
<1>6. \A r \in Refreshes : /\ snaps'[r] = "active" <=> snaps[r] = "active"
                           /\ syncs'[r] = "succeeded" <=> syncs[r] = "succeeded"
                           /\ snaps'[r] = "superseded" <=> snaps[r] = "superseded"
  BY <1>1, <1>2, <1>3
<1>7. /\ \A r \in Refreshes : item'[r] \in {"succeeded", "cancelled", "failed"} => Tells(item'[r], syncs'[r])
      /\ \A r \in Refreshes : syncs'[r] = "running" => item'[r] \in {"running", "failed"}
      /\ \A r \in Refreshes : r > count'.refreshes =>
            syncs'[r] = "none" /\ snaps'[r] = "none" /\ item'[r] = "none"
  BY <1>1, <1>2, <1>3, <1>4 DEF History, Tells
<1>8. History'
  BY <1>1, <1>6, <1>7 DEF History
<1> QED BY <1>1, <1>2, <1>3, <1>5, <1>8

(* The staged snapshot of a response that is durable.                      *)
LEMMA StagedRows ==
  ASSUME RefreshInv, R.pc = "commit", Staged, UNCHANGED <<item, mayBe>>,
         count'.refreshes = count.refreshes
  PROVE  /\ History' /\ CatalogHasFiles' /\ syncs' = syncs /\ snaps'[count.refreshes] = "staged"
         /\ snaps' \in [Refreshes -> SnapStates]
         /\ artRow' \in {"none", "missing"} \cup Images
<1>1. /\ TypeOK /\ History /\ CatalogHasFiles /\ Sync = count.refreshes /\ Sync \in Refreshes
      /\ syncs[Sync] = "running" /\ item[Sync] = "running" /\ snaps[Sync] = "none"
      /\ mayBe[<<"raw", Sync>>] = {TRUE}
  <2>1. "refresh" \in Actors /\ Publishing("refresh") /\ R.file = <<"raw", Sync>>
    BY Apart, SyncIsLast DEF RefreshInv
  <2> QED BY <2>1, SyncIsLast DEF RefreshInv, Running, Unstaged, Publishing, R
<1>2. /\ syncs' = syncs
      /\ snaps'[Sync] = "staged" /\ \A r \in Refreshes \ {Sync} : snaps'[r] = snaps[r]
      /\ snaps' \in [Refreshes -> SnapStates]
      /\ artRow' = IF artRow = "none" THEN "missing" ELSE artRow
  BY <1>1 DEF TypeOK, Staged, SnapStates
<1>3. ~ (Sync > count.refreshes)
  BY <1>1, CountsTyped
<1>4. CatalogHasFiles'
  BY <1>1, <1>2, MetadataAssumption DEF CatalogHasFiles
<1>5. \A r \in Refreshes : /\ snaps'[r] = "active" <=> snaps[r] = "active"
                           /\ snaps'[r] = "superseded" <=> snaps[r] = "superseded"
  BY <1>1, <1>2
<1>6. \A r \in Refreshes : r > count'.refreshes =>
            syncs'[r] = "none" /\ snaps'[r] = "none" /\ item'[r] = "none"
  BY <1>1, <1>2, <1>3 DEF History
<1>7. History'
  BY <1>1, <1>2, <1>5, <1>6 DEF History, Tells
<1> QED BY <1>1, <1>2, <1>4, <1>7 DEF TypeOK

LEMMA ActivateKeeps == ASSUME RefreshInv, Activate PROVE RefreshInv'
<1> DEFINE a == "refresh"
           k == Outcome(R, "succeeded")
<1>0. TypeOK /\ Running /\ a \in Actors /\ R \in Jobs /\ R = work[a]
  BY JobTyped, Apart DEF RefreshInv, R
<1>1. /\ app = "open" /\ R.pc = "activate" /\ Moves(a, k) /\ Activated
      /\ UNCHANGED <<item, there, mayBe, custody, fenced, app, count>>
  BY DEF Activate, At, R, disk
<1>2. k \in Jobs /\ k.pc \in {"spin", "report"} /\ k.file = R.file /\ k.code = "succeeded"
  BY <1>0, OutcomeTyped
<1> HIDE DEF k
<1>3. Steps(a) /\ work' \in [Actors -> Jobs] /\ R' = k
  BY <1>0, <1>1, <1>2, Taken DEF Early
<1>4. /\ History' /\ CatalogHasFiles' /\ syncs'[count.refreshes] = "succeeded"
      /\ syncs' \in [Refreshes -> SyncStates] /\ snaps' \in [Refreshes -> SnapStates]
      /\ artRow' = artRow
  BY <1>1, ActivatedRows
<1>5. TypeOK'
  BY <1>0, <1>1, <1>3, <1>4 DEF TypeOK, SyncStates, SnapStates
<1>6. Running'
  <2>1. Tells(R'.code, syncs'[count.refreshes])
    BY <1>2, <1>3, <1>4 DEF Tells
  <2> QED BY <1>0, <1>1, <1>2, <1>3, <2>1, ToReport
<1>7. R'.pc \notin Guarded \cup {"idle"}
  BY <1>2, <1>3 DEF Guarded
<1> QED BY <1>1, <1>3, <1>4, <1>5, <1>6, <1>7, RefreshWrites

LEMMA ActivateUnknownKeeps == ASSUME RefreshInv, ActivateUnknown PROVE RefreshInv'
<1>0. TypeOK /\ CatalogHasFiles /\ History
  BY DEF RefreshInv
<1>1. /\ app = "open" /\ R.pc = "activate" /\ Moves("refresh", Uncertain(R)) /\ Faulty /\ fenced' = TRUE
      /\ Activated \/ UNCHANGED <<syncs, snaps, artRow>>
      /\ UNCHANGED <<item, there, mayBe, custody, app>>
  BY DEF ActivateUnknown, UnknownActivation, At, R, db, disk
<1>2. count'.refreshes = count.refreshes
  BY <1>0, <1>1, Spent
<1>3. /\ History' /\ CatalogHasFiles'
      /\ syncs' \in [Refreshes -> SyncStates] /\ snaps' \in [Refreshes -> SnapStates]
      /\ artRow' \in {"none", "missing"} \cup Images
  <2>1. CASE Activated
    BY <1>0, <1>1, <1>2, <2>1, ActivatedRows DEF TypeOK
  <2>2. CASE UNCHANGED <<syncs, snaps, artRow>>
    BY <1>0, <1>1, <1>2, <2>2, HistoryKept, FilesKept DEF TypeOK, SyncStates, SnapStates
  <2> QED BY <1>1, <2>1, <2>2
<1> QED BY <1>1, <1>3, WriteUnknown DEF SyncStates, SnapStates

LEMMA FailKeeps == ASSUME RefreshInv, Fail PROVE RefreshInv'
<1> DEFINE a == "refresh"
           k == Outcome(R, R.code)
<1>0. TypeOK /\ Running /\ a \in Actors /\ R \in Jobs /\ R = work[a]
  BY JobTyped, Apart DEF RefreshInv, R
<1>1. /\ app = "open" /\ R.pc = "fail" /\ Moves(a, k) /\ Ends(R.code)
      /\ UNCHANGED <<item, there, mayBe, custody, fenced, app, count>>
  BY DEF Fail, At, R, disk
<1>2. /\ k \in Jobs /\ k.pc \in {"spin", "report"} /\ k.file = R.file /\ k.code = R.code
      /\ R.code \in {"failed", "cancelled"}
  <2>1. R.code \in {"failed", "cancelled"}
    BY <1>0, <1>1 DEF Running
  <2> QED BY <1>0, <2>1, OutcomeTyped
<1> HIDE DEF k
<1>3. Steps(a) /\ work' \in [Actors -> Jobs] /\ R' = k
  BY <1>0, <1>1, <1>2, Taken DEF Early
<1>4. /\ History' /\ CatalogHasFiles' /\ syncs'[count.refreshes] = R.code
      /\ syncs' \in [Refreshes -> SyncStates] /\ snaps' \in [Refreshes -> SnapStates]
      /\ artRow' = artRow
  BY <1>1, EndedRows
<1>5. TypeOK'
  BY <1>0, <1>1, <1>3, <1>4 DEF TypeOK, SyncStates, SnapStates
<1>6. Running'
  <2>1. Tells(R'.code, syncs'[count.refreshes])
    BY <1>2, <1>3, <1>4 DEF Tells
  <2> QED BY <1>0, <1>1, <1>2, <1>3, <2>1, ToReport
<1>7. R'.pc \notin Guarded \cup {"idle"}
  BY <1>2, <1>3 DEF Guarded
<1> QED BY <1>1, <1>3, <1>4, <1>5, <1>6, <1>7, RefreshWrites

LEMMA FailUnknownKeeps == ASSUME RefreshInv, FailUnknown PROVE RefreshInv'
<1>0. TypeOK /\ CatalogHasFiles /\ History
  BY DEF RefreshInv
<1>1. /\ app = "open" /\ R.pc = "fail" /\ Moves("refresh", Uncertain(R)) /\ Faulty /\ fenced' = TRUE
      /\ Ends(R.code) \/ UNCHANGED <<syncs, snaps, artRow>>
      /\ UNCHANGED <<item, there, mayBe, custody, app>>
  BY DEF FailUnknown, At, R, db, disk
<1>2. count'.refreshes = count.refreshes
  BY <1>0, <1>1, Spent
<1>3. /\ History' /\ CatalogHasFiles'
      /\ syncs' \in [Refreshes -> SyncStates] /\ snaps' \in [Refreshes -> SnapStates]
      /\ artRow' \in {"none", "missing"} \cup Images
  <2>1. CASE Ends(R.code)
    BY <1>0, <1>1, <1>2, <2>1, EndedRows DEF TypeOK
  <2>2. CASE UNCHANGED <<syncs, snaps, artRow>>
    BY <1>0, <1>1, <1>2, <2>2, HistoryKept, FilesKept DEF TypeOK, SyncStates, SnapStates
  <2> QED BY <1>1, <2>1, <2>2
<1> QED BY <1>1, <1>3, WriteUnknown DEF SyncStates, SnapStates

LEMMA StageRowsKeeps == ASSUME RefreshInv, StageRows PROVE RefreshInv'
<1> DEFINE a == "refresh"
           k == [R EXCEPT !.pc = "finish", !.staged = TRUE]
<1>0. TypeOK /\ Running /\ a \in Actors /\ R \in Jobs /\ R = work[a] /\ a # "artwork" /\ Publishing(a)
  BY JobTyped, Apart DEF RefreshInv, R
<1>1. /\ app = "open" /\ R.pc = "commit" /\ Moves(a, k) /\ Staged
      /\ UNCHANGED <<item, there, mayBe, custody, fenced, app, count>>
  BY DEF StageRows, At, R, disk
<1>2. k \in Jobs /\ k.pc = "finish" /\ k.file = R.file /\ k.staged
  BY <1>0 DEF Jobs, Points
<1> HIDE DEF k
<1>3. Steps(a) /\ work' \in [Actors -> Jobs] /\ R' = k /\ work'[a] = k
  BY <1>0, <1>1, <1>2, Taken DEF Early
<1>4. /\ History' /\ CatalogHasFiles' /\ syncs' = syncs /\ snaps'[count.refreshes] = "staged"
      /\ snaps' \in [Refreshes -> SnapStates]
      /\ artRow' \in {"none", "missing"} \cup Images
  BY <1>1, StagedRows
<1>5. TypeOK'
  BY <1>0, <1>1, <1>3, <1>4 DEF TypeOK, SnapStates
<1>6. Running'
  BY <1>0, <1>1, <1>2, <1>3, <1>4 DEF Running, Unstaged
<1>7. Publishing(a)'
  BY <1>0, <1>1, <1>2, <1>3 DEF Publishing, Guarded
<1>8. DiskAgrees' /\ Guards(a)
  <2>1. UNCHANGED disk BY <1>1 DEF disk
  <2> QED BY <1>0, <1>3, <2>1, DiskKept DEF Guards
<1> QED BY <1>0, <1>3, <1>4, <1>5, <1>6, <1>7, <1>8, Whole

(* The report is true when it is saved.                                    *)
LEMMA SaveReportKeeps == ASSUME RefreshInv, SaveReport PROVE RefreshInv'
<1> DEFINE a == "refresh"
<1>0. /\ TypeOK /\ Running /\ History /\ CatalogHasFiles /\ a \in Actors /\ R \in Jobs /\ R = work[a]
      /\ a # "artwork"
  BY JobTyped, Apart DEF RefreshInv, R
<1>1. /\ app = "open" /\ R.pc = "report" /\ Moves(a, Idle)
      /\ item' = [item EXCEPT ![Sync] = R.code]
      /\ UNCHANGED <<syncs, snaps, artRow, there, mayBe, custody, fenced, app, count>>
  BY DEF SaveReport, At, R, db, disk
<1>2. /\ Sync = count.refreshes /\ Sync \in Refreshes /\ Tells(R.code, syncs[Sync])
      /\ item[Sync] = "running"
  BY <1>0, <1>1, SyncIsLast DEF Running
<1>3. Steps(a) /\ work' \in [Actors -> Jobs] /\ R' = Idle /\ work'[a] = Idle
  BY <1>0, <1>1, IdleTyped, Taken DEF Early
<1>4. R.code \in {"succeeded", "failed", "cancelled"}
  BY <1>2 DEF Tells
<1>5. /\ item'[Sync] = R.code /\ \A r \in Refreshes \ {Sync} : item'[r] = item[r]
      /\ item' \in [Refreshes -> {"none", "running", "succeeded", "failed", "cancelled", "interrupted"}]
  BY <1>0, <1>1, <1>2, <1>4 DEF TypeOK
<1>6. TypeOK'
  BY <1>0, <1>1, <1>3, <1>5 DEF TypeOK
<1>7. Running'
  BY <1>3, IdleTyped DEF Running
<1>8. History'
  <2>1. ~ (Sync > count.refreshes)
    BY <1>0, <1>2, CountsTyped
  <2>2. syncs[Sync] = "running" => R.code = "failed"
    BY <1>2 DEF Tells
  <2>3. \A r \in Refreshes : syncs'[r] = "running" => item'[r] \in {"running", "failed"}
    BY <1>0, <1>1, <1>5, <2>2 DEF History
  <2>4. \A r \in Refreshes :
           item'[r] \in {"succeeded", "cancelled", "failed"} => Tells(item'[r], syncs'[r])
    BY <1>0, <1>1, <1>2, <1>5 DEF History
  <2>5. \A r \in Refreshes : r > count'.refreshes =>
           syncs'[r] = "none" /\ snaps'[r] = "none" /\ item'[r] = "none"
    BY <1>0, <1>1, <1>5, <2>1 DEF History
  <2> QED BY <1>0, <1>1, <2>3, <2>4, <2>5 DEF History
<1>9. Publishing(a)'
  BY <1>0, <1>3, IdleTyped DEF Publishing, Guarded
<1>10. DiskAgrees' /\ Guards(a) /\ CatalogHasFiles'
  <2>1. UNCHANGED disk BY <1>1 DEF disk
  <2> QED BY <1>0, <1>1, <1>3, <2>1, DiskKept, FilesKept DEF Guards
<1> QED BY <1>0, <1>3, <1>6, <1>7, <1>8, <1>9, <1>10, Whole

-----------------------------------------------------------------------------
(* The next item, the next request, and a cancellation.                    *)

LEMMA StartItemKeeps == ASSUME RefreshInv, StartItem PROVE RefreshInv'
<1> DEFINE a == "refresh"
           n == count.refreshes + 1
           k == [Idle EXCEPT !.pc = "start", !.file = <<"raw", n>>]
<1>0. /\ TypeOK /\ History /\ CatalogHasFiles /\ DiskAgrees /\ a \in Actors /\ a # "artwork"
      /\ Publishing("artwork") /\ "artwork" \in Actors \ {a} /\ Actors = {a, "artwork"}
  BY Apart DEF RefreshInv
<1>1. /\ app = "open" /\ R.pc = "idle" /\ Moves(a, k) /\ count.refreshes < MaxRefreshes
      /\ item' = [item EXCEPT ![n] = "running"]
      /\ count' = [count EXCEPT !.refreshes = @ + 1]
      /\ UNCHANGED <<syncs, snaps, artRow, there, mayBe, custody, fenced, app>>
  BY DEF StartItem, At, R, db, disk, Spend
<1>2. n \in Refreshes /\ n \in Nat /\ n # 0 /\ n > count.refreshes /\ <<"raw", n>> \in Paths
      /\ <<"raw", n>>[1] = "raw"
  <2>1. n \in Refreshes /\ n \in Nat /\ n # 0 /\ n > count.refreshes
    BY <1>0, <1>1, CountsTyped, MetadataAssumption DEF Refreshes
  <2> QED BY <2>1, Apart
<1>3. count' \in Counts /\ count'.refreshes = n
  BY <1>0, <1>1, MetadataAssumption DEF TypeOK, Counts
<1>4. k \in Jobs /\ k.pc = "start" /\ k.file = <<"raw", n>> /\ ~k.staged
  <2>1. "start" \in Points BY DEF Points
  <2> DEFINE f == <<"raw", n>>
  <2>2. k = [Idle EXCEPT !.pc = "start", !.file = f] /\ f \in Paths
    BY <1>2
  <2> HIDE DEF k, f
  <2>3. k \in Jobs /\ k.pc = "start" /\ k.file = f /\ ~k.staged
    BY <2>1, <2>2 DEF Idle, Jobs
  <2> QED BY <2>3 DEF f
<1> HIDE DEF k
<1>5. /\ work' \in [Actors -> Jobs] /\ work'[a] = k /\ work'["artwork"] = work["artwork"] /\ R' = k
  BY <1>0, <1>1, <1>4, Moved DEF R
<1>6. /\ item'[n] = "running" /\ \A r \in Refreshes \ {n} : item'[r] = item[r]
      /\ item' \in [Refreshes -> {"none", "running", "succeeded", "failed", "cancelled", "interrupted"}]
  BY <1>0, <1>1, <1>2 DEF TypeOK
<1> HIDE DEF n
<1>7. TypeOK'
  BY <1>0, <1>1, <1>3, <1>5, <1>6 DEF TypeOK
<1>8. \A r \in Refreshes : r > n => r > count.refreshes
  BY <1>0, <1>2, CountsTyped DEF n
<1>9. Running'
  BY <1>0, <1>1, <1>2, <1>3, <1>4, <1>5, <1>6 DEF Running, History, Unstaged
<1>10. History'
  <2>1. /\ syncs[n] = "none" /\ snaps[n] = "none"
    BY <1>0, <1>2 DEF History
  <2>2. \A r \in Refreshes : r > count'.refreshes =>
           syncs'[r] = "none" /\ snaps'[r] = "none" /\ item'[r] = "none"
    <3> SUFFICES ASSUME NEW r \in Refreshes, r > n
                 PROVE  syncs'[r] = "none" /\ snaps'[r] = "none" /\ item'[r] = "none"
      BY <1>3
    <3>1. r # n /\ r > count.refreshes
      BY <1>2, <1>8, CountsTyped
    <3> QED BY <1>0, <1>1, <1>6, <3>1 DEF History
  <2>3. \A r \in Refreshes :
           item'[r] \in {"succeeded", "cancelled", "failed"} => Tells(item'[r], syncs'[r])
    BY <1>0, <1>1, <1>6 DEF History
  <2>4. \A r \in Refreshes : syncs'[r] = "running" => item'[r] \in {"running", "failed"}
    BY <1>0, <1>1, <1>6 DEF History
  <2> QED BY <1>0, <1>1, <2>2, <2>3, <2>4 DEF History
<1>11. Publishing(a)'
  BY <1>0, <1>3, <1>4, <1>5 DEF Publishing, Guarded
<1>12. Publishing("artwork")'
  BY <1>0, <1>1, <1>5 DEF Publishing
<1>13. DiskAgrees'
  <2>1. \A r \in Refreshes : Unpublished(r)' => Unpublished(r)
    BY <1>2, <1>3, <1>8 DEF Unpublished
  <2> QED BY <1>0, <1>1, <2>1 DEF DiskAgrees
<1>14. CatalogHasFiles'
  BY <1>0, <1>1, FilesKept
<1>15. Quiet'
  BY <1>1 DEF Quiet
<1> QED BY <1>0, <1>7, <1>9, <1>10, <1>11, <1>12, <1>13, <1>14, <1>15 DEF RefreshInv

LEMMA FetchArtworkKeeps == ASSUME RefreshInv, FetchArtwork PROVE RefreshInv'
<1> DEFINE a == "artwork"
<1>0. /\ TypeOK /\ History /\ Running /\ CatalogHasFiles /\ DiskAgrees /\ a \in Actors
      /\ Publishing("refresh") /\ "refresh" \in Actors \ {a} /\ Actors = {a, "refresh"}
  BY Apart DEF RefreshInv
<1>1. PICK i \in Images :
      /\ app = "open" /\ Moves(a, [Idle EXCEPT !.pc = "custody", !.file = <<"art", i>>])
      /\ count.artworks < MaxArtworks /\ count' = [count EXCEPT !.artworks = @ + 1]
      /\ UNCHANGED <<syncs, snaps, artRow, item, there, mayBe, custody, fenced, app>>
  BY DEF FetchArtwork, At, db, disk, Spend
<1> DEFINE k == [Idle EXCEPT !.pc = "custody", !.file = <<"art", i>>]
<1>2. k \in Jobs /\ k.pc = "custody" /\ k.file = <<"art", i>> /\ <<"art", i>> \in {"art"} \X Images
  <2>1. "custody" \in Points /\ <<"art", i>> \in Paths BY Apart DEF Points
  <2>2. <<"art", i>> \in {"art"} \X Images OBVIOUS
  <2> DEFINE f == <<"art", i>>
  <2>3. k = [Idle EXCEPT !.pc = "custody", !.file = f] /\ f \in Paths
    BY <2>1
  <2> HIDE DEF k, f
  <2>4. k \in Jobs /\ k.pc = "custody" /\ k.file = f
    BY <2>1, <2>3 DEF Idle, Jobs
  <2> QED BY <2>2, <2>4 DEF f
<1> HIDE DEF k
<1>3. /\ work' \in [Actors -> Jobs] /\ work'[a] = k /\ work'["refresh"] = work["refresh"] /\ R' = R
  <2>1. Moves(a, k) BY <1>1 DEF k
  <2> QED BY <1>0, <1>2, <2>1, Moved DEF R
<1>4. count' \in Counts /\ count'.refreshes = count.refreshes
  BY <1>0, <1>1, MetadataAssumption DEF TypeOK, Counts
<1>5. TypeOK'
  BY <1>0, <1>1, <1>3, <1>4 DEF TypeOK
<1>6. Publishing(a)'
  BY <1>2, <1>3 DEF Publishing, Guarded
<1>7. Publishing("refresh")'
  BY <1>0, <1>1, <1>3, <1>4 DEF Publishing
<1>8. DiskAgrees'
  BY <1>0, <1>1, <1>3, <1>4 DEF DiskAgrees, Unpublished
<1>9. Running' /\ History' /\ CatalogHasFiles'
  BY <1>0, <1>1, <1>3, <1>4, HistoryKept, FilesKept DEF Running, Tells
<1>10. Quiet'
  BY <1>1 DEF Quiet
<1> QED BY <1>0, <1>5, <1>6, <1>7, <1>8, <1>9, <1>10 DEF RefreshInv

LEMMA CancelKeeps == ASSUME RefreshInv, NEW a \in Actors, Cancel(a) PROVE RefreshInv'
<1> DEFINE k == [work[a] EXCEPT !.cancelled = TRUE]
<1>0. TypeOK /\ Running /\ work[a] \in Jobs /\ Publishing(a)
  BY JobTyped DEF RefreshInv
<1>1. /\ app = "open" /\ work[a].pc # "idle" /\ Moves(a, k)
      /\ UNCHANGED <<syncs, snaps, artRow, item, there, mayBe, custody, fenced, app, count>>
  BY DEF Cancel, db, disk
<1>2. /\ k \in Jobs /\ k.pc = work[a].pc /\ k.file = work[a].file /\ k.code = work[a].code
      /\ k.staged <=> work[a].staged
  BY <1>0, CancelTyped
<1> HIDE DEF k
<1>3. Steps(a) /\ work' \in [Actors -> Jobs] /\ work'[a] = k /\ (a = "refresh" => R' = k)
  BY <1>0, <1>1, <1>2, Taken DEF Early
<1>4. TypeOK'
  BY <1>0, <1>1, <1>3, TypeKept DEF TypeOK
<1>5. Publishing(a)'
  BY <1>0, <1>1, <1>2, <1>3 DEF Publishing
<1>6. a = "refresh" => Running'
  BY <1>0, <1>1, <1>2, <1>3 DEF Running, R, Tells
<1> QED BY <1>1, <1>3, <1>4, <1>5, <1>6, Stays

-----------------------------------------------------------------------------
(* The publication.                                                        *)

(* Flushing a directory takes no durable file and adds none.               *)
LEMMA FlushedDisk ==
  ASSUME TypeOK, DiskAgrees, NEW p, mayBe' = Flushed(p), there' = there
  PROVE  /\ mayBe' \in [Paths -> SUBSET BOOLEAN]
         /\ \A q \in Paths : (q \in there') \in mayBe'[q]
         /\ \A q \in Paths : mayBe[q] = {TRUE} => mayBe'[q] = {TRUE}
         /\ \A q \in Paths : mayBe[q] = {FALSE} => mayBe'[q] = {FALSE}
         /\ \A q \in Paths : q[1] = p[1] => mayBe'[q] = {(q \in there)}
<1>1. \A q \in Paths : mayBe'[q] = IF q[1] = p[1] THEN {(q \in there)} ELSE mayBe[q]
  BY Zenon DEF Flushed
<1>2. mayBe' \in [Paths -> SUBSET BOOLEAN]
  BY DEF TypeOK, Flushed
<1>3. ASSUME NEW q \in Paths
      PROVE  /\ (q \in there') \in mayBe'[q]
             /\ mayBe[q] = {TRUE} => mayBe'[q] = {TRUE}
             /\ mayBe[q] = {FALSE} => mayBe'[q] = {FALSE}
             /\ q[1] = p[1] => mayBe'[q] = {(q \in there)}
  <2>0. (q \in there) \in mayBe[q]
    BY <1>3 DEF DiskAgrees
  <2>1. CASE q[1] = p[1]
    <3>1. mayBe'[q] = {(q \in there)}
      BY <1>1, <1>3, <2>1, Zenon
    <3> QED BY <2>0, <2>1, <3>1
  <2>2. CASE q[1] # p[1]
    <3>1. mayBe'[q] = mayBe[q]
      BY <1>1, <1>3, <2>2, Zenon
    <3> QED BY <2>0, <2>2, <3>1
  <2> QED BY <2>1, <2>2
<1> QED BY <1>2, <1>3

(* A rename that replaces nothing takes no durable file either.            *)
LEMMA WrittenDisk ==
  ASSUME TypeOK, DiskAgrees, NEW p \in Paths, p \notin there, there' = there \cup {p},
         mayBe' = [mayBe EXCEPT ![p] = BOOLEAN]
  PROVE  /\ mayBe' \in [Paths -> SUBSET BOOLEAN] /\ there' \subseteq Paths
         /\ \A q \in Paths : (q \in there') \in mayBe'[q]
         /\ \A q \in Paths : mayBe[q] = {TRUE} => mayBe'[q] = {TRUE}
         /\ \A q \in Paths \ {p} : mayBe'[q] = mayBe[q]
<1>1. mayBe'[p] = BOOLEAN /\ \A q \in Paths \ {p} : mayBe'[q] = mayBe[q]
  BY DEF TypeOK
<1>2. mayBe' \in [Paths -> SUBSET BOOLEAN] /\ there' \subseteq Paths
  BY DEF TypeOK
<1>3. \A q \in Paths \ {p} : (q \in there' <=> q \in there)
  OBVIOUS
<1>4. ASSUME NEW q \in Paths PROVE (q \in there') \in mayBe'[q]
  <2>1. CASE q = p
    BY <1>1, <2>1
  <2>2. CASE q # p
    <3>1. (q \in there) \in mayBe[q] /\ mayBe'[q] = mayBe[q] /\ (q \in there' <=> q \in there)
      BY <1>1, <1>3, <1>4, <2>2 DEF DiskAgrees
    <3> QED BY <3>1
  <2> QED BY <2>1, <2>2
<1>5. mayBe[p] # {TRUE}
  BY DEF DiskAgrees
<1> QED BY <1>1, <1>2, <1>4, <1>5

LEMMA FileTyped ==
  ASSUME RefreshInv, NEW a \in Actors, work[a].pc # "idle"
  PROVE  /\ work[a].file \in Paths
         /\ a = "artwork" => work[a].file[1] = "art" /\ work[a].file[2] \in Images
                             /\ work[a].file = <<"art", work[a].file[2]>>
         /\ a = "refresh" => work[a].file = <<"raw", count.refreshes>>
                             /\ count.refreshes \in Refreshes /\ work[a].file[1] = "raw"
<1>1. CASE a = "artwork"
  <2>1. work[a].file \in {"art"} \X Images
    BY <1>1 DEF RefreshInv, Publishing
  <2>2. work[a].file \in Paths /\ work[a].file[1] = "art" /\ work[a].file[2] \in Images
        /\ work[a].file = <<"art", work[a].file[2]>>
    BY <2>1 DEF Paths
  <2> QED BY <1>1, <2>2, Apart
<1>2. CASE a = "refresh"
  <2>1. a # "artwork" /\ R = work[a]
    BY <1>2, Apart DEF R
  <2>2. work[a].file = <<"raw", count.refreshes>> /\ count.refreshes \in Refreshes
    BY <1>2, <2>1 DEF RefreshInv, Publishing, Running
  <2> QED BY <2>1, <2>2, Apart
<1> QED BY <1>1, <1>2, Apart

(* The response that the refresh is about to rename is not there.          *)
LEMMA NothingToReuse ==
  ASSUME RefreshInv, R.pc = "stage"
  PROVE  R.file \notin there
<1>1. count.refreshes \in Refreshes /\ R.file = <<"raw", count.refreshes>> /\ R.file \in Paths
  BY Apart, FileTyped DEF R
<1>2. mayBe[R.file] = {FALSE}
  BY <1>1 DEF RefreshInv, DiskAgrees, Unpublished
<1> QED BY <1>1, <1>2 DEF RefreshInv, DiskAgrees

(* The answer that nothing was published.                                  *)
Retreat(a, k) ==
    /\ k \in Jobs
    /\ a = "artwork" => k.pc = "idle"
    /\ a = "refresh" => /\ k.pc = "fail" /\ k.file = R.file /\ k.code \in {"failed", "cancelled"}
                        /\ k.staged <=> R.staged

LEMMA Retreats ==
  ASSUME RefreshInv, NEW a \in Actors, NEW k, Retreat(a, k), Moves(a, k), app = "open",
         work[a].pc \in Unstaged, UNCHANGED custody \/ custody \in {a, NoOne},
         count'.refreshes = count.refreshes, UNCHANGED <<syncs, snaps, artRow, item, app>>
  PROVE  /\ Steps(a) /\ work' \in [Actors -> Jobs] /\ Publishing(a)' /\ Running'
         /\ ~ (work'[a].pc \in Early)
<1>0. TypeOK /\ Running /\ k \in Jobs /\ k.pc \in {"idle", "fail"} /\ Publishing(a)
      /\ (k.pc # "idle" => k.file = work[a].file)
  BY Apart DEF RefreshInv, Retreat, R
<1>1. Steps(a) /\ work' \in [Actors -> Jobs] /\ work'[a] = k /\ (a = "refresh" => R' = k)
  BY <1>0, Taken DEF Early, Unstaged
<1>2. Publishing(a)'
  BY <1>0, <1>1, Apart DEF Publishing, Guarded, Retreat, Unstaged
<1>3. Running'
  <2>1. CASE a = "artwork"
    BY <1>0, <1>1, <2>1, RunningKept
  <2>2. CASE a = "refresh"
    BY <1>0, <1>1, <2>2, ToFail DEF Retreat, R
  <2> QED BY <2>1, <2>2, Apart
<1> QED BY <1>0, <1>1, <1>2, <1>3 DEF Early

(* It is one for the record as it is, and for one that is held.            *)
LEMMA RetreatTyped ==
  ASSUME TypeOK, NEW a \in Actors
  PROVE  /\ Retreat(a, NotPublished(a, work[a]))
         /\ Retreat(a, NotPublished(a, [work[a] EXCEPT !.held = TRUE]))
<1>0. work[a] \in Jobs
  BY JobTyped
<1>1. Retreat(a, NotPublished(a, work[a]))
  BY <1>0, NotPublishedTyped DEF Retreat, R
<1>2. PICK j : j = [work[a] EXCEPT !.held = TRUE]
  OBVIOUS
<1>3. j \in Jobs /\ j.file = work[a].file /\ (j.staged <=> work[a].staged)
  BY <1>0, <1>2, HeldTyped
<1>4. Retreat(a, NotPublished(a, j))
  BY <1>3, NotPublishedTyped DEF Retreat, R
<1> QED BY <1>1, <1>2, <1>4

LEMMA NoCustodyKeeps == ASSUME RefreshInv, NEW a \in Actors, NoCustody(a) PROVE RefreshInv'
<1> DEFINE k == NotPublished(a, work[a])
<1>0. TypeOK /\ Retreat(a, k)
  BY RetreatTyped DEF RefreshInv
<1>1. /\ app = "open" /\ work[a].pc = "custody" /\ Moves(a, k)
      /\ UNCHANGED <<syncs, snaps, artRow, item, there, mayBe, custody, fenced, app, count>>
  BY DEF NoCustody, At, db, disk
<1> HIDE DEF k
<1>2. Steps(a) /\ work' \in [Actors -> Jobs] /\ Publishing(a)' /\ Running'
  BY <1>0, <1>1, Retreats DEF Unstaged
<1>3. TypeOK'
  BY <1>0, <1>1, <1>2, TypeKept DEF TypeOK
<1> QED BY <1>1, <1>2, <1>3, Stays

LEMMA GiveUpKeeps == ASSUME RefreshInv, NEW a \in Actors, GiveUp(a) PROVE RefreshInv'
<1> DEFINE k == NotPublished(a, work[a])
<1>0. TypeOK /\ Retreat(a, k) /\ Publishing(a)
  BY RetreatTyped DEF RefreshInv
<1>1. /\ app = "open" /\ work[a].pc = "stage" /\ Moves(a, k) /\ custody' = NoOne
      /\ UNCHANGED <<syncs, snaps, artRow, item, there, mayBe, fenced, app, count>>
  BY DEF GiveUp, At, db, disk
<1> HIDE DEF k
<1>2. custody = a
  BY <1>0, <1>1 DEF Publishing, Guarded
<1>3. Steps(a) /\ work' \in [Actors -> Jobs] /\ Publishing(a)' /\ Running'
  BY <1>0, <1>1, <1>2, Retreats DEF Unstaged
<1>4. TypeOK'
  BY <1>0, <1>1, <1>3, TypeKept DEF TypeOK
<1> QED BY <1>1, <1>3, <1>4, Stays

(* A step that retains what it cannot vouch for spends a fault or meets a  *)
(* fence.                                                                  *)
LEMMA MaySpend ==
  ASSUME TypeOK, IF fenced THEN UNCHANGED count ELSE Faulty
  PROVE  count' \in Counts /\ count'.refreshes = count.refreshes
  BY Spent, CountKept

LEMMA FlushUnknownKeeps == ASSUME RefreshInv, NEW a \in Actors, FlushUnknown(a) PROVE RefreshInv'
<1> DEFINE k == NotPublished(a, [work[a] EXCEPT !.held = TRUE])
<1>0. TypeOK /\ Retreat(a, k)
  BY RetreatTyped DEF RefreshInv
<1>1. /\ app = "open" /\ work[a].pc \in {"flush", "verify"} /\ Moves(a, k) /\ fenced' = TRUE
      /\ UNCHANGED <<syncs, snaps, artRow, item, there, mayBe, custody, app>>
  BY DEF FlushUnknown, At, Retain, db, disk
<1> HIDE DEF k
<1>2. count' \in Counts /\ count'.refreshes = count.refreshes
  BY <1>0, MaySpend DEF FlushUnknown
<1>3. Steps(a) /\ work' \in [Actors -> Jobs] /\ Publishing(a)' /\ Running'
  BY <1>0, <1>1, <1>2, Retreats DEF Unstaged
<1>4. TypeOK'
  BY <1>0, <1>1, <1>2, <1>3, TypeKept DEF TypeOK
<1> QED BY <1>1, <1>3, <1>4, Stays

LEMMA RouteFailsKeeps == ASSUME RefreshInv, RouteFails PROVE RefreshInv'
<1> DEFINE a == "artwork"
           k == NotPublished(a, [work[a] EXCEPT !.held = TRUE])
<1>0. TypeOK /\ Retreat(a, k) /\ a \in Actors
  BY RetreatTyped, Apart DEF RefreshInv
<1>1. /\ app = "open" /\ work[a].pc = "custody" /\ Moves(a, k) /\ fenced' = TRUE /\ Faulty
      /\ custody = NoOne /\ custody' = a
      /\ UNCHANGED <<syncs, snaps, artRow, item, there, mayBe, app>>
  BY DEF RouteFails, At, Retain, db, disk
<1> HIDE DEF k
<1>2. count' \in Counts /\ count'.refreshes = count.refreshes
  BY <1>0, <1>1, Spent
<1>3. Steps(a) /\ work' \in [Actors -> Jobs] /\ Publishing(a)' /\ Running'
  BY <1>0, <1>1, <1>2, Retreats DEF Unstaged
<1>4. TypeOK'
  BY <1>0, <1>1, <1>2, <1>3, TypeKept DEF TypeOK
<1> QED BY <1>0, <1>1, <1>3, <1>4, Stays

(* An actor goes on with the publication.                                  *)
LEMMA Proceeds ==
  ASSUME RefreshInv, NEW a \in Actors, NEW pc \in Unstaged \cup {"finish"},
         Moves(a, [work[a] EXCEPT !.pc = pc]), app = "open", work[a].pc \in Unstaged,
         pc \in Early => work[a].pc \in Early, UNCHANGED custody \/ custody \in {a, NoOne},
         count'.refreshes = count.refreshes, UNCHANGED <<syncs, snaps, item, app>>
  PROVE  /\ Steps(a) /\ work' \in [Actors -> Jobs] /\ Running'
         /\ work'[a].pc = pc /\ work'[a].file = work[a].file
<1>0. TypeOK /\ Running /\ work[a] \in Jobs /\ pc \in Points /\ pc # "idle" /\ work[a].pc # "idle"
  BY JobTyped DEF RefreshInv, Unstaged, Points
<1>1. PICK k : k = [work[a] EXCEPT !.pc = pc]
  OBVIOUS
<1>2. k \in Jobs /\ k.pc = pc /\ k.file = work[a].file /\ (k.staged <=> work[a].staged)
  BY <1>0, <1>1, Going
<1>3. Steps(a) /\ work' \in [Actors -> Jobs] /\ work'[a] = k /\ (a = "refresh" => R' = k)
  <2>1. Moves(a, k) BY <1>1
  <2> QED BY <1>0, <1>2, <2>1, Taken
<1>4. Running'
  <2>1. CASE a = "artwork"
    BY <1>0, <1>3, <2>1, RunningKept
  <2>2. CASE a = "refresh"
    <3>1. R = work[a] /\ R' = k
      BY <1>3, <2>2 DEF R
    <3>2. CASE pc = "finish"
      BY <1>0, <1>2, <3>1, <3>2 DEF Running, Unstaged
    <3>3. CASE pc \in Unstaged
      BY <1>0, <1>2, <3>1, <3>3 DEF Running, Unstaged
    <3> QED BY <3>2, <3>3
  <2> QED BY <2>1, <2>2, Apart
<1> QED BY <1>2, <1>3, <1>4

(* The artwork looks at a directory that it flushed.                       *)
LEMMA TakeCustodyKeeps == ASSUME RefreshInv, NEW a \in Actors, TakeCustody(a) PROVE RefreshInv'
<1> DEFINE f == work[a].file
<1>0. TypeOK /\ DiskAgrees /\ CatalogHasFiles /\ History /\ Publishing(a)
  BY DEF RefreshInv
<1>1. /\ app = "open" /\ work[a].pc = "custody" /\ custody = NoOne /\ custody' = a
      /\ Moves(a, [work[a] EXCEPT !.pc = "stage"])
      /\ mayBe' = IF f[1] = "art" THEN Flushed(f) ELSE mayBe
      /\ UNCHANGED <<syncs, snaps, artRow, item, there, fenced, app, count>>
  BY DEF TakeCustody, At, Route, db
<1>2. /\ Steps(a) /\ work' \in [Actors -> Jobs] /\ Running'
      /\ work'[a].pc = "stage" /\ work'[a].file = work[a].file
  BY <1>1, Proceeds DEF Unstaged, Early
<1>3. /\ mayBe' \in [Paths -> SUBSET BOOLEAN]
      /\ \A q \in Paths : (q \in there') \in mayBe'[q]
      /\ \A q \in Paths : mayBe[q] = {TRUE} => mayBe'[q] = {TRUE}
      /\ \A q \in Paths : mayBe[q] = {FALSE} => mayBe'[q] = {FALSE}
      /\ f[1] = "art" => \A q \in Paths : q[1] = f[1] => mayBe'[q] = {(q \in there)}
  <2>1. CASE f[1] = "art"
    BY <1>0, <1>1, <2>1, FlushedDisk
  <2>2. CASE f[1] # "art"
    BY <1>0, <1>1, <2>2 DEF DiskAgrees, TypeOK
  <2> QED BY <2>1, <2>2
<1>4. TypeOK'
  BY <1>0, <1>1, <1>2, <1>3 DEF TypeOK
<1>5. DiskAgrees'
  <2>1. \A r \in Refreshes : Unpublished(r)' => Unpublished(r)
    BY <1>0, <1>2, FreshStays
  <2> QED BY <1>0, <1>3, <2>1, Apart DEF DiskAgrees
<1>6. CatalogHasFiles' /\ History'
  BY <1>0, <1>1, <1>3, FilesKept, HistoryKept
<1>7. Publishing(a)'
  <2>1. a = "artwork" => \A i \in Images : mayBe'[<<"art", i>>] = {(<<"art", i>> \in there')}
    BY <1>1, <1>3, FileTyped, Apart
  <2> QED BY <1>0, <1>1, <1>2, <2>1 DEF Publishing, Guarded
<1>8. Guards(a)
  BY <1>1 DEF Guards
<1> QED BY <1>2, <1>4, <1>5, <1>6, <1>7, <1>8, Whole

(* The file is put where there is none.                                    *)
LEMMA FileWritten ==
  ASSUME RefreshInv, NEW a \in Actors, Steps(a), work[a].pc = "stage", work[a].file \notin there,
         there' = there \cup {work[a].file}, mayBe' = [mayBe EXCEPT ![work[a].file] = BOOLEAN],
         ~ (work'[a].pc \in Early), UNCHANGED <<snaps, artRow>>
  PROVE  /\ DiskAgrees' /\ CatalogHasFiles' /\ Guards(a)
         /\ mayBe' \in [Paths -> SUBSET BOOLEAN] /\ there' \subseteq Paths
<1> DEFINE f == work[a].file
<1>0. TypeOK /\ DiskAgrees /\ CatalogHasFiles /\ Publishing(a)
  BY DEF RefreshInv
<1>1. f \in Paths /\ (a = "refresh" => f = <<"raw", count.refreshes>>) /\ (a = "artwork" => f[1] = "art")
  BY FileTyped
<1>2. /\ mayBe' \in [Paths -> SUBSET BOOLEAN] /\ there' \subseteq Paths
      /\ \A q \in Paths : (q \in there') \in mayBe'[q]
      /\ \A q \in Paths : mayBe[q] = {TRUE} => mayBe'[q] = {TRUE}
      /\ \A q \in Paths \ {f} : mayBe'[q] = mayBe[q]
  BY <1>0, <1>1, WrittenDisk
<1>3. ASSUME NEW r \in Refreshes, Unpublished(r)'
      PROVE  mayBe'[<<"raw", r>>] = {FALSE}
  <2>1. Unpublished(r) /\ <<"raw", r>> \in Paths /\ <<"raw", r>>[1] = "raw" /\ <<"raw", r>>[2] = r
    BY <1>0, <1>3, FreshStays, Apart
  <2>2. <<"raw", r>> # f
    <3>1. CASE a = "artwork"
      BY <1>1, <2>1, <3>1
    <3>2. CASE a = "refresh"
      <4>1. ~ (R'.pc \in Early) /\ count'.refreshes = count.refreshes
        BY <3>2 DEF R, Steps
      <4>2. r > count.refreshes
        BY <1>3, <4>1 DEF Unpublished, Early
      <4>3. r # count.refreshes
        BY <1>0, <4>2, CountsTyped
      <4> QED BY <1>1, <2>1, <3>2, <4>3
    <3> QED BY <3>1, <3>2, Apart
  <2> QED BY <1>0, <1>2, <2>1, <2>2 DEF DiskAgrees
<1>4. DiskAgrees'
  BY <1>2, <1>3 DEF DiskAgrees
<1>5. CatalogHasFiles'
  BY <1>0, <1>2, FilesKept
<1>6. Guards(a)
  BY <1>0 DEF Publishing, Guarded, Guards
<1> QED BY <1>2, <1>4, <1>5, <1>6

LEMMA StageUnknownKeeps == ASSUME RefreshInv, NEW a \in Actors, StageUnknown(a) PROVE RefreshInv'
<1> DEFINE f == work[a].file
           k == NotPublished(a, [work[a] EXCEPT !.held = TRUE])
<1>0. TypeOK /\ Retreat(a, k) /\ History
  BY RetreatTyped DEF RefreshInv
<1>1. /\ app = "open" /\ work[a].pc = "stage" /\ Moves(a, k) /\ fenced' = TRUE
      /\ there' = there \/ there' = there \cup {f}
      /\ mayBe' = IF there' = there THEN mayBe ELSE [mayBe EXCEPT ![f] = BOOLEAN]
      /\ UNCHANGED <<syncs, snaps, artRow, item, custody, app>>
  BY DEF StageUnknown, At, Retain, db
<1> HIDE DEF k
<1>2. count' \in Counts /\ count'.refreshes = count.refreshes
  BY <1>0, MaySpend DEF StageUnknown
<1>3. /\ Steps(a) /\ work' \in [Actors -> Jobs] /\ Publishing(a)' /\ Running'
      /\ ~ (work'[a].pc \in Early)
  BY <1>0, <1>1, <1>2, Retreats DEF Unstaged
<1>4. CASE there' = there
  <2>1. mayBe' = mayBe
    BY <1>1, <1>4
  <2>2. TypeOK'
    BY <1>0, <1>1, <1>2, <1>3, <1>4, <2>1, TypeKept DEF TypeOK
  <2> QED BY <1>1, <1>3, <1>4, <2>1, <2>2, Stays
<1>5. CASE there' # there
  <2>1. f \notin there /\ there' = there \cup {f} /\ mayBe' = [mayBe EXCEPT ![f] = BOOLEAN]
    BY <1>1, <1>5
  <2>2. /\ DiskAgrees' /\ CatalogHasFiles' /\ Guards(a)
        /\ mayBe' \in [Paths -> SUBSET BOOLEAN] /\ there' \subseteq Paths
    BY <1>1, <1>3, <2>1, FileWritten
  <2>3. TypeOK'
    BY <1>0, <1>1, <1>2, <1>3, <2>2 DEF TypeOK
  <2>4. History'
    BY <1>0, <1>1, <1>2, HistoryKept
  <2> QED BY <1>3, <2>2, <2>3, <2>4, Whole
<1> QED BY <1>4, <1>5

LEMMA RenameKeeps == ASSUME RefreshInv, NEW a \in Actors, Rename(a) PROVE RefreshInv'
<1> DEFINE f == work[a].file
<1>0. TypeOK /\ History /\ Publishing(a)
  BY DEF RefreshInv
<1>1. /\ app = "open" /\ work[a].pc = "stage"
      /\ UNCHANGED <<syncs, snaps, artRow, item, custody, fenced, app, count>>
  BY DEF Rename, At, db
<1>2. CASE f \in there
  <2>1. Moves(a, [work[a] EXCEPT !.pc = "verify"]) /\ UNCHANGED <<there, mayBe>>
    BY <1>2 DEF Rename, disk
  <2>2. a = "artwork"
    BY <1>1, <1>2, NothingToReuse, Apart DEF R
  <2>3. /\ Steps(a) /\ work' \in [Actors -> Jobs] /\ Running'
        /\ work'[a].pc = "verify" /\ work'[a].file = work[a].file
    BY <1>1, <2>1, Proceeds DEF Unstaged, Early
  <2>4. TypeOK'
    BY <1>0, <1>1, <2>1, <2>3, TypeKept DEF TypeOK
  <2>5. Publishing(a)'
    BY <1>0, <1>1, <1>2, <2>1, <2>2, <2>3 DEF Publishing, Guarded
  <2> QED BY <1>1, <2>1, <2>3, <2>4, <2>5, Stays
<1>3. CASE f \notin there
  <2>1. /\ Moves(a, [work[a] EXCEPT !.pc = "flush"]) /\ there' = there \cup {f}
        /\ mayBe' = [mayBe EXCEPT ![f] = BOOLEAN]
    BY <1>3 DEF Rename
  <2>2. /\ Steps(a) /\ work' \in [Actors -> Jobs] /\ Running'
        /\ work'[a].pc = "flush" /\ work'[a].file = work[a].file
    BY <1>1, <2>1, Proceeds DEF Unstaged, Early
  <2>3. /\ DiskAgrees' /\ CatalogHasFiles' /\ Guards(a)
        /\ mayBe' \in [Paths -> SUBSET BOOLEAN] /\ there' \subseteq Paths
    BY <1>1, <1>3, <2>1, <2>2, FileWritten DEF Early
  <2>4. TypeOK'
    BY <1>0, <1>1, <2>2, <2>3 DEF TypeOK
  <2>5. Publishing(a)'
    BY <1>0, <1>1, <2>1, <2>2 DEF Publishing, Guarded
  <2>6. History'
    BY <1>0, <1>1, HistoryKept
  <2> QED BY <2>2, <2>3, <2>4, <2>5, <2>6, Whole
<1> QED BY <1>2, <1>3

(* The flush makes the file durable before there is a receipt for it.      *)
LEMMA FlushKeeps == ASSUME RefreshInv, NEW a \in Actors, Flush(a) PROVE RefreshInv'
<1> DEFINE f == work[a].file
<1>0. TypeOK /\ DiskAgrees /\ CatalogHasFiles /\ History /\ Publishing(a)
  BY DEF RefreshInv
<1>1. /\ app = "open" /\ work[a].pc = "flush" /\ mayBe' = Flushed(f)
      /\ Moves(a, [work[a] EXCEPT !.pc = "commit"])
      /\ UNCHANGED <<syncs, snaps, artRow, item, there, custody, fenced, app, count>>
  BY DEF Flush, At, db
<1>2. /\ Steps(a) /\ work' \in [Actors -> Jobs] /\ Running'
      /\ work'[a].pc = "commit" /\ work'[a].file = work[a].file
  BY <1>1, Proceeds DEF Unstaged, Early
<1>3. /\ mayBe' \in [Paths -> SUBSET BOOLEAN]
      /\ \A q \in Paths : (q \in there') \in mayBe'[q]
      /\ \A q \in Paths : mayBe[q] = {TRUE} => mayBe'[q] = {TRUE}
      /\ \A q \in Paths : mayBe[q] = {FALSE} => mayBe'[q] = {FALSE}
      /\ \A q \in Paths : q[1] = f[1] => mayBe'[q] = {(q \in there)}
  BY <1>0, <1>1, FlushedDisk
<1>4. TypeOK'
  BY <1>0, <1>1, <1>2, <1>3 DEF TypeOK
<1>5. DiskAgrees'
  <2>1. \A r \in Refreshes : Unpublished(r)' => Unpublished(r)
    BY <1>0, <1>2, FreshStays
  <2> QED BY <1>0, <1>3, <2>1, Apart DEF DiskAgrees
<1>6. CatalogHasFiles' /\ History'
  BY <1>0, <1>1, <1>3, FilesKept, HistoryKept
<1>7. mayBe'[f] = {TRUE} /\ custody = a
  <2>1. f \in Paths
    BY <1>1, FileTyped
  <2>2. f \in there /\ custody = a
    BY <1>0, <1>1 DEF Publishing, Guarded
  <2>3. mayBe'[f] = {(f \in there)}
    BY <1>3, <2>1, Zenon
  <2> QED BY <2>2, <2>3
<1>8. Publishing(a)'
  BY <1>0, <1>1, <1>2, <1>7 DEF Publishing, Guarded
<1>9. Guards(a)
  BY <1>7 DEF Guards
<1> QED BY <1>2, <1>4, <1>5, <1>6, <1>8, <1>9, Whole

(* A file that is used as it is was made durable by the flushed route.     *)
LEMMA VerifyKeeps == ASSUME RefreshInv, NEW a \in Actors, Verify(a) PROVE RefreshInv'
<1> DEFINE f == work[a].file
<1>0. TypeOK /\ Publishing(a)
  BY DEF RefreshInv
<1>1. /\ app = "open" /\ work[a].pc = "verify" /\ Moves(a, [work[a] EXCEPT !.pc = "commit"])
      /\ UNCHANGED <<syncs, snaps, artRow, item, there, mayBe, custody, fenced, app, count>>
  BY DEF Verify, At, db, disk
<1>2. /\ Steps(a) /\ work' \in [Actors -> Jobs] /\ Running'
      /\ work'[a].pc = "commit" /\ work'[a].file = work[a].file
  BY <1>1, Proceeds DEF Unstaged, Early
<1>3. mayBe[f] = {TRUE}
  <2>1. a = "artwork" /\ f \in there
    BY <1>0, <1>1 DEF Publishing
  <2>2. f[2] \in Images /\ f = <<"art", f[2]>>
    BY <1>1, <2>1, FileTyped
  <2>3. mayBe[<<"art", f[2]>>] = {(<<"art", f[2]>> \in there)}
    BY <1>0, <1>1, <2>1, <2>2, Zenon DEF Publishing
  <2>4. (<<"art", f[2]>> \in there) = TRUE
    BY <2>1, <2>2
  <2> QED BY <2>2, <2>3, <2>4
<1>4. TypeOK'
  BY <1>0, <1>1, <1>2, TypeKept DEF TypeOK
<1>5. Publishing(a)'
  BY <1>0, <1>1, <1>2, <1>3 DEF Publishing, Guarded
<1> QED BY <1>1, <1>2, <1>4, <1>5, Stays

LEMMA RowsRefusedKeeps == ASSUME RefreshInv, NEW a \in Actors, RowsRefused(a) PROVE RefreshInv'
<1>0. TypeOK /\ Publishing(a)
  BY DEF RefreshInv
<1>1. /\ app = "open" /\ work[a].pc = "commit" /\ Moves(a, [work[a] EXCEPT !.pc = "finish"])
      /\ UNCHANGED <<syncs, snaps, artRow, item, there, mayBe, custody, fenced, app, count>>
  BY DEF RowsRefused, At, db, disk
<1>2. /\ Steps(a) /\ work' \in [Actors -> Jobs] /\ Running'
      /\ work'[a].pc = "finish" /\ work'[a].file = work[a].file
  BY <1>1, Proceeds DEF Unstaged, Early
<1>3. TypeOK'
  BY <1>0, <1>1, <1>2, TypeKept DEF TypeOK
<1>4. Publishing(a)'
  BY <1>0, <1>1, <1>2 DEF Publishing, Guarded
<1> QED BY <1>1, <1>2, <1>3, <1>4, Stays

(* The row of the artwork names the file of the receipt.                   *)
LEMMA CachedRow ==
  ASSUME RefreshInv, work["artwork"].pc = "commit", artRow' \in {artRow, work["artwork"].file[2]},
         UNCHANGED <<snaps, mayBe>>
  PROVE  CatalogHasFiles' /\ artRow' \in {"none", "missing"} \cup Images
<1> DEFINE f == work["artwork"].file
<1>0. TypeOK /\ CatalogHasFiles /\ "artwork" \in Actors /\ Publishing("artwork")
  BY Apart DEF RefreshInv
<1>1. f[2] \in Images /\ f = <<"art", f[2]>> /\ mayBe[f] = {TRUE}
  BY <1>0, FileTyped DEF Publishing
<1> HIDE DEF f
<1>2. artRow' = artRow \/ artRow' = f[2]
  BY DEF f
<1> QED BY <1>0, <1>1, <1>2 DEF CatalogHasFiles, TypeOK

LEMMA CacheRowKeeps == ASSUME RefreshInv, CacheRow PROVE RefreshInv'
<1> DEFINE a == "artwork"
<1>0. TypeOK /\ Publishing(a) /\ a \in Actors /\ History
  BY Apart DEF RefreshInv
<1>1. /\ app = "open" /\ work[a].pc = "commit" /\ Moves(a, [work[a] EXCEPT !.pc = "finish"])
      /\ artRow' = work[a].file[2]
      /\ UNCHANGED <<syncs, snaps, item, there, mayBe, custody, fenced, app, count>>
  BY DEF CacheRow, At, disk
<1>2. /\ Steps(a) /\ work' \in [Actors -> Jobs] /\ Running'
      /\ work'[a].pc = "finish" /\ work'[a].file = work[a].file
  BY <1>0, <1>1, Proceeds DEF Unstaged, Early
<1>3. CatalogHasFiles' /\ artRow' \in {"none", "missing"} \cup Images
  BY <1>1, CachedRow
<1>4. TypeOK'
  BY <1>0, <1>1, <1>2, <1>3 DEF TypeOK
<1>5. Publishing(a)'
  BY <1>0, <1>1, <1>2 DEF Publishing, Guarded
<1>6. DiskAgrees' /\ Guards(a) /\ History'
  <2>1. UNCHANGED disk BY <1>1 DEF disk
  <2> QED BY <1>0, <1>1, <1>2, <2>1, DiskKept, HistoryKept DEF Guards
<1> QED BY <1>0, <1>2, <1>3, <1>4, <1>5, <1>6, Whole

LEMMA RowsUnknownKeeps == ASSUME RefreshInv, NEW a \in Actors, RowsUnknown(a) PROVE RefreshInv'
<1>0. TypeOK /\ CatalogHasFiles /\ History /\ Running
  BY DEF RefreshInv
<1>1. /\ app = "open" /\ work[a].pc = "commit" /\ Faulty /\ fenced' = TRUE
      /\ UNCHANGED <<item, there, mayBe, custody, app>>
  BY DEF RowsUnknown, At, Retain, disk
<1>2. count' \in Counts /\ count'.refreshes = count.refreshes
  BY <1>0, <1>1, Spent
<1>3. CASE a = "refresh"
  <2>1. /\ R.pc = "commit" /\ Moves("refresh", Uncertain(R))
        /\ Staged \/ UNCHANGED <<syncs, snaps, artRow>>
    BY <1>1, <1>3 DEF RowsUnknown, Retain, R, db
  <2>2. /\ History' /\ CatalogHasFiles'
        /\ syncs' \in [Refreshes -> SyncStates] /\ snaps' \in [Refreshes -> SnapStates]
        /\ artRow' \in {"none", "missing"} \cup Images
    <3>1. CASE Staged
      BY <1>0, <1>1, <1>2, <2>1, <3>1, StagedRows DEF TypeOK, SyncStates
    <3>2. CASE UNCHANGED <<syncs, snaps, artRow>>
      BY <1>0, <1>1, <1>2, <3>2, HistoryKept, FilesKept DEF TypeOK, SyncStates, SnapStates
    <3> QED BY <2>1, <3>1, <3>2
  <2> QED BY <1>1, <2>1, <2>2, WriteUnknown DEF SyncStates, SnapStates
<1>4. CASE a = "artwork"
  <2> DEFINE k == [Idle EXCEPT !.held = TRUE]
  <2>1. /\ Moves(a, k) /\ artRow' \in {artRow, work[a].file[2]} /\ UNCHANGED <<syncs, snaps>>
    BY <1>4, Apart DEF RowsUnknown, Retain
  <2>2. k \in Jobs /\ k.pc = "idle"
    BY LeavesTyped
  <2> HIDE DEF k
  <2>3. Steps(a) /\ work' \in [Actors -> Jobs] /\ work'[a] = k
    BY <1>0, <1>1, <1>2, <2>1, <2>2, Taken DEF Early
  <2>4. CatalogHasFiles' /\ artRow' \in {"none", "missing"} \cup Images
    BY <1>1, <1>4, <2>1, CachedRow
  <2>5. TypeOK'
    BY <1>0, <1>1, <1>2, <2>1, <2>3, <2>4 DEF TypeOK
  <2>6. Publishing(a)'
    BY <2>2, <2>3 DEF Publishing, Guarded
  <2>7. DiskAgrees' /\ Guards(a) /\ History'
    <3>1. UNCHANGED disk BY <1>1 DEF disk
    <3> QED BY <1>0, <1>1, <1>2, <2>1, <2>3, <3>1, DiskKept, HistoryKept DEF Guards
  <2>8. Running'
    BY <1>0, <1>1, <1>4, <2>1, <2>3, RunningKept
  <2> QED BY <2>3, <2>4, <2>5, <2>6, <2>7, <2>8, Whole
<1> QED BY <1>3, <1>4, Apart

(* What follows the rows, whatever becomes of the custody.                 *)
LEMMA AfterRowsKeeps ==
  ASSUME RefreshInv, NEW a \in Actors, NEW j \in Jobs, j.file = work[a].file,
         j.staged <=> work[a].staged, Moves(a, AfterRows(a, j)), app = "open", UNCHANGED app,
         work[a].pc = "finish", custody' \in {custody, NoOne}, fenced' \in BOOLEAN,
         count' \in Counts, count'.refreshes = count.refreshes,
         UNCHANGED <<syncs, snaps, artRow, item, there, mayBe>>
  PROVE  RefreshInv'
<1>0. TypeOK /\ Running /\ Publishing(a) /\ custody = a
  BY DEF RefreshInv, Publishing, Guarded
<1>1. PICK k : k = AfterRows(a, j)
  OBVIOUS
<1>2. /\ k \in Jobs
      /\ a = "artwork" => k.pc = "idle"
      /\ a = "refresh" => /\ k.pc \in {"fail", "activate"} /\ k.file = j.file
                          /\ k.staged <=> j.staged
                          /\ k.pc = "fail" => k.code \in {"failed", "cancelled"}
                          /\ k.pc = "activate" => k.staged
  BY <1>1, AfterRowsTyped
<1>3. Moves(a, k)
  BY <1>1
<1>4. Steps(a) /\ work' \in [Actors -> Jobs] /\ work'[a] = k /\ (a = "refresh" => R' = k)
  BY <1>0, <1>2, <1>3, Taken, Apart DEF Early
<1>5. TypeOK'
  BY <1>0, <1>4, TypeKept DEF TypeOK
<1>6. CASE a = "artwork"
  BY <1>2, <1>4, <1>5, <1>6, ArtworkLeaves
<1>7. CASE a = "refresh"
  <2>1. R = work[a] /\ R' = k
    BY <1>4, <1>7 DEF R
  <2>2. Running'
    <3>1. CASE k.pc = "fail"
      BY <1>0, <1>2, <1>7, <2>1, <3>1, ToFail
    <3>2. CASE k.pc = "activate"
      BY <1>0, <1>2, <1>7, <2>1, <3>2 DEF Running, Unstaged
    <3> QED BY <1>2, <1>7, <3>1, <3>2
  <2>3. R'.pc \notin Guarded \cup {"idle"}
    BY <1>2, <1>7, <2>1 DEF Guarded
  <2> QED BY <1>4, <1>5, <1>7, <2>2, <2>3, RefreshStays
<1> QED BY <1>6, <1>7, Apart

LEMMA FinishStageKeeps == ASSUME RefreshInv, NEW a \in Actors, FinishStage(a) PROVE RefreshInv'
<1>0. TypeOK /\ work[a] \in Jobs
  BY JobTyped DEF RefreshInv
<1>1. /\ app = "open" /\ work[a].pc = "finish" /\ custody' = NoOne /\ Moves(a, AfterRows(a, work[a]))
      /\ UNCHANGED <<syncs, snaps, artRow, item, there, mayBe, fenced, app, count>>
  BY DEF FinishStage, At, db, disk
<1>2. fenced' \in BOOLEAN /\ count' \in Counts /\ count'.refreshes = count.refreshes
  BY <1>0, <1>1 DEF TypeOK
<1> QED BY <1>0, <1>1, <1>2, AfterRowsKeeps

LEMMA FinishFailsKeeps == ASSUME RefreshInv, NEW a \in Actors, FinishFails(a) PROVE RefreshInv'
<1>0. TypeOK /\ work[a] \in Jobs
  BY JobTyped DEF RefreshInv
<1>1. PICK j : j = [work[a] EXCEPT !.held = TRUE]
  OBVIOUS
<1>2. j \in Jobs /\ j.file = work[a].file /\ (j.staged <=> work[a].staged)
  BY <1>0, <1>1, HeldTyped
<1>3. /\ app = "open" /\ work[a].pc = "finish" /\ Moves(a, AfterRows(a, j)) /\ fenced' = TRUE
      /\ UNCHANGED <<syncs, snaps, artRow, item, there, mayBe, custody, app>>
  BY <1>1 DEF FinishFails, Retain, At, db, disk
<1>4. count' \in Counts /\ count'.refreshes = count.refreshes
  BY <1>0, MaySpend DEF FinishFails
<1> QED BY <1>2, <1>3, <1>4, AfterRowsKeeps

-----------------------------------------------------------------------------
(* The end of the process, the next start, and the assembly.               *)

(* Whatever becomes of the files, the rows that were committed stay and    *)
(* nobody works.                                                           *)
LEMMA GoneKeeps ==
  ASSUME RefreshInv, Gone, count' \in Counts, count'.refreshes = count.refreshes,
         UNCHANGED <<syncs, snaps, artRow, item>>,
         there' \subseteq Paths, mayBe' \in [Paths -> SUBSET BOOLEAN],
         \A p \in Paths : (p \in there') \in mayBe'[p],
         \A p \in Paths : mayBe[p] = {TRUE} => mayBe'[p] = {TRUE},
         \A p \in Paths : mayBe[p] = {FALSE} => mayBe'[p] = {FALSE}
  PROVE  RefreshInv'
<1>0. TypeOK /\ DiskAgrees /\ CatalogHasFiles /\ History
  BY DEF RefreshInv
<1>1. /\ app' = "starting" /\ custody' = NoOne /\ fenced' = FALSE
      /\ work' \in [Actors -> Jobs] /\ \A a \in Actors : work'[a].pc = "idle"
  BY IdleTyped DEF Gone
<1>2. R'.pc = "idle"
  BY <1>1, Apart DEF R
<1>3. TypeOK'
  BY <1>0, <1>1 DEF TypeOK
<1>4. DiskAgrees'
  <2>1. \A r \in Refreshes : Unpublished(r)' => Unpublished(r)
    BY <1>2 DEF Unpublished
  <2> QED BY <1>0, <2>1, Apart DEF DiskAgrees
<1>5. CatalogHasFiles' /\ History'
  BY <1>0, FilesKept, HistoryKept
<1>6. \A a \in Actors : Publishing(a)'
  BY <1>1 DEF Publishing, Guarded
<1>7. Running' /\ Quiet'
  BY <1>1, <1>2 DEF Running, Quiet
<1> QED BY <1>3, <1>4, <1>5, <1>6, <1>7 DEF RefreshInv

LEMMA DieKeeps == ASSUME RefreshInv, Die PROVE RefreshInv'
<1>0. TypeOK /\ DiskAgrees
  BY DEF RefreshInv
<1>1. /\ Gone /\ UNCHANGED <<syncs, snaps, artRow, item, there, mayBe>>
      /\ count.deaths < MaxDeaths /\ count' = [count EXCEPT !.deaths = @ + 1]
  BY DEF Die, Spend, db, disk
<1>2. count' \in Counts /\ count'.refreshes = count.refreshes
  BY <1>0, <1>1, MetadataAssumption DEF TypeOK, Counts
<1>3. there' \subseteq Paths /\ mayBe' \in [Paths -> SUBSET BOOLEAN]
  BY <1>0, <1>1 DEF TypeOK
<1>4. \A p \in Paths : (p \in there') \in mayBe'[p]
  BY <1>0, <1>1 DEF DiskAgrees
<1> QED BY <1>1, <1>2, <1>3, <1>4, GoneKeeps

(* A loss of power settles what was open, and nothing else.                *)
LEMMA LosePowerKeeps == ASSUME RefreshInv, LosePower PROVE RefreshInv'
<1>0. TypeOK
  BY DEF RefreshInv
<1>1. /\ Gone /\ UNCHANGED <<syncs, snaps, artRow, item>>
      /\ count.outages < MaxOutages /\ count' = [count EXCEPT !.outages = @ + 1]
      /\ there' \subseteq Paths /\ \A p \in Paths : (p \in there') \in mayBe[p]
      /\ mayBe' = [p \in Paths |-> {(p \in there')}]
  BY DEF LosePower, Spend, db
<1>2. count' \in Counts /\ count'.refreshes = count.refreshes
  BY <1>0, <1>1, MetadataAssumption DEF TypeOK, Counts
<1>3. mayBe' \in [Paths -> SUBSET BOOLEAN]
  BY <1>1
<1>4. \A p \in Paths : mayBe'[p] = {(p \in there')}
  BY <1>1, Zenon
<1>5. ASSUME NEW p \in Paths
      PROVE  /\ (p \in there') \in mayBe'[p]
             /\ mayBe[p] = {TRUE} => mayBe'[p] = {TRUE}
             /\ mayBe[p] = {FALSE} => mayBe'[p] = {FALSE}
  <2>1. mayBe'[p] = {(p \in there')} /\ (p \in there') \in mayBe[p]
    BY <1>1, <1>4, <1>5, Zenon
  <2> QED BY <2>1
<1> QED BY <1>1, <1>2, <1>3, <1>5, GoneKeeps

(* The recovery rejects what is staged and fails what is running.          *)
LEMMA OpenKeeps == ASSUME RefreshInv, Open PROVE RefreshInv'
<1>0. /\ TypeOK /\ DiskAgrees /\ CatalogHasFiles /\ History /\ Quiet
      /\ \A a \in Actors : Publishing(a)
  BY DEF RefreshInv
<1>1. /\ app = "starting" /\ app' = "open"
      /\ UNCHANGED <<artRow, there, mayBe, custody, fenced, work, count>>
  BY DEF Open, disk
<1>2. /\ \A a \in Actors : work'[a] = work[a] /\ work'[a].pc = "idle"
      /\ R' = R /\ R.pc = "idle"
  BY <1>0, <1>1, Apart DEF Quiet, R
<1>3. \A r \in Refreshes :
         /\ syncs'[r] = IF syncs[r] = "running" THEN "failed" ELSE syncs[r]
         /\ item'[r] = IF item[r] = "running" THEN "interrupted" ELSE item[r]
         /\ snaps'[r] = IF snaps[r] = "staged" /\ syncs[r] = "running" THEN "rejected"
                        ELSE snaps[r]
  BY DEF Open
<1>4. TypeOK'
  <2>1. /\ syncs' \in [Refreshes -> SyncStates] /\ snaps' \in [Refreshes -> SnapStates]
        /\ item' \in [Refreshes -> {"none", "running", "succeeded", "failed", "cancelled",
                                    "interrupted"}]
    BY <1>0 DEF Open, TypeOK, SyncStates, SnapStates
  <2> QED BY <1>0, <1>1, <2>1 DEF TypeOK, SyncStates, SnapStates
<1>5. DiskAgrees' /\ CatalogHasFiles'
  <2>1. DiskAgrees'
    BY <1>0, <1>1, <1>2 DEF DiskAgrees, Unpublished
  <2>2. \A r \in Refreshes : snaps'[r] # "none" => snaps[r] # "none"
    BY <1>3
  <2>3. CatalogHasFiles'
    BY <1>0, <1>1, <2>2 DEF CatalogHasFiles
  <2> QED BY <2>1, <2>3
<1>6. History'
  <2>1. \A r \in Refreshes : /\ snaps'[r] = "active" <=> snaps[r] = "active"
                             /\ snaps'[r] = "superseded" <=> snaps[r] = "superseded"
                             /\ syncs'[r] = "succeeded" <=> syncs[r] = "succeeded"
                             /\ syncs'[r] # "running"
    BY <1>3
  <2>2. \A r \in Refreshes :
           item'[r] \in {"succeeded", "cancelled", "failed"} => Tells(item'[r], syncs'[r])
    BY <1>0, <1>3 DEF History, Tells
  <2>3. \A r \in Refreshes : r > count'.refreshes =>
           syncs'[r] = "none" /\ snaps'[r] = "none" /\ item'[r] = "none"
    BY <1>0, <1>1, <1>3 DEF History
  <2> QED BY <1>0, <2>1, <2>2, <2>3 DEF History
<1>7. Running' /\ Quiet' /\ \A a \in Actors : Publishing(a)'
  BY <1>0, <1>1, <1>2 DEF Running, Quiet, Publishing, Guarded
<1> QED BY <1>4, <1>5, <1>6, <1>7 DEF RefreshInv

LEMMA FalseIs == ASSUME NEW b \in BOOLEAN, ~b PROVE b \in {FALSE}
  OBVIOUS

LEMMA RefreshInitially == ASSUME Init PROVE RefreshInv
<1>1. TypeOK
  <2>1. count \in Counts
    BY MetadataAssumption DEF Init, Counts
  <2>2. work \in [Actors -> Jobs] /\ mayBe \in [Paths -> SUBSET BOOLEAN]
    BY IdleTyped DEF Init
  <2> QED BY <2>1, <2>2 DEF Init, TypeOK
<1>2. \A a \in Actors : work[a].pc = "idle"
  BY IdleTyped DEF Init
<1>3. R.pc = "idle"
  BY <1>2, Apart DEF R
<1>4. \A p \in Paths : mayBe[p] = {FALSE} /\ p \notin there
  BY DEF Init
<1>5. DiskAgrees
  <2>1. ASSUME NEW p \in Paths PROVE (p \in there) \in mayBe[p]
    <3>1. p \notin there /\ mayBe[p] = {FALSE}
      BY <1>4, <2>1
    <3>2. (p \in there) \in BOOLEAN /\ ~ (p \in there)
      BY <3>1
    <3>3. (p \in there) \in {FALSE}
      BY <3>2, FalseIs
    <3> QED BY <3>1, <3>3, Zenon
  <2>2. \A r \in Refreshes : mayBe[<<"raw", r>>] = {FALSE}
    BY <1>4, Apart
  <2> QED BY <2>1, <2>2 DEF DiskAgrees
<1>6. CatalogHasFiles
  BY MetadataAssumption DEF CatalogHasFiles, Init
<1>7. \A a \in Actors : Publishing(a)
  BY <1>2 DEF Publishing, Guarded
<1>8. Running /\ History /\ Quiet
  BY <1>2, <1>3 DEF Running, History, Quiet, Init, Tells
<1> QED BY <1>1, <1>5, <1>6, <1>7, <1>8 DEF RefreshInv

LEMMA PublishKeeps == ASSUME RefreshInv, NEW a \in Actors, Publish(a) PROVE RefreshInv'
  BY TakeCustodyKeeps, NoCustodyKeeps, GiveUpKeeps, StageUnknownKeeps, RenameKeeps, FlushKeeps,
     VerifyKeeps, FlushUnknownKeeps, RowsRefusedKeeps, RowsUnknownKeeps, FinishStageKeeps,
     FinishFailsKeeps DEF Publish

LEMMA RefreshKeeps == ASSUME RefreshInv, Refresh PROVE RefreshInv'
  BY ExecuteKeeps, BeginSyncKeeps, BeginRefusedKeeps, BeginUnknownKeeps, FetchedKeeps,
     FetchFailsKeeps, PublishKeeps, StageRowsKeeps, ActivateKeeps, ActivateRefusedKeeps,
     ActivateUnknownKeeps, FailKeeps, FailRefusedKeeps, FailUnknownKeeps, SaveReportKeeps, Apart
     DEF Refresh

LEMMA ArtworkKeeps == ASSUME RefreshInv, Artwork PROVE RefreshInv'
  BY RouteFailsKeeps, PublishKeeps, CacheRowKeeps, Apart DEF Artwork

LEMMA RefreshNextKeeps == ASSUME RefreshInv, [Next]_vars PROVE RefreshInv'
<1>1. CASE UNCHANGED vars
  <2>1. UNCHANGED <<syncs, snaps, artRow, item, there, mayBe, custody, fenced, work, app, count>>
    BY <1>1 DEF vars, db, disk
  <2>2. R' = R
    BY <2>1 DEF R
  <2>3. TypeOK' /\ CatalogHasFiles'
    BY <2>1 DEF RefreshInv, TypeOK, CatalogHasFiles
  <2>4. DiskAgrees' /\ \A a \in Actors : Publishing(a)'
    BY <2>1, <2>2 DEF RefreshInv, DiskAgrees, Unpublished, Publishing
  <2>5. Running' /\ History' /\ Quiet'
    BY <2>1, <2>2 DEF RefreshInv, Running, History, Quiet, Tells
  <2> QED BY <2>3, <2>4, <2>5 DEF RefreshInv
<1>2. CASE Next
  BY <1>2, StartItemKeeps, FetchArtworkKeeps, RefreshKeeps, ArtworkKeeps, CancelKeeps, DieKeeps,
     LosePowerKeeps, OpenKeeps DEF Next
<1> QED BY <1>1, <1>2

-----------------------------------------------------------------------------
(* The inductive invariant of the refresh and of the artwork thread.       *)
THEOREM RefreshInductive == Spec => []RefreshInv
  BY RefreshInitially, RefreshNextKeeps, PTL DEF Spec

(* Every variable keeps its type: the rows, the files, both actors and the *)
(* counters.                                                               *)
THEOREM RefreshTypeCorrect == Spec => []TypeOK
<1>1. RefreshInv => TypeOK
  BY DEF RefreshInv
<1> QED BY <1>1, RefreshInductive, PTL

(* What catalog_snapshots and catalog_artworks name is on disk and survives*)
(* a loss of power, whatever the refresh and the artwork thread did to each*)
(* other, and whatever a process left behind that died.                    *)
THEOREM CatalogIsBacked == Spec => []CatalogHasFiles
<1>1. RefreshInv => CatalogHasFiles
  BY DEF RefreshInv
<1> QED BY <1>1, RefreshInductive, PTL

(* The active snapshot is the greatest of those that succeeded.            *)
LEMMA ActiveIsGreatest ==
  ASSUME RefreshInv, NEW r \in Refreshes, snaps[r] = "active"
  PROVE  r = Max(Succeeded)
<1>1. History /\ \A q \in Refreshes : q \in Nat
  BY CountsTyped DEF RefreshInv
<1>2. r \in Succeeded /\ \A q \in Succeeded : q \in Nat /\ r >= q
  BY <1>1 DEF History, Succeeded
<1>3. \A x \in Succeeded : (\A y \in Succeeded : x >= y) => x = r
  BY <1>2
<1>4. PICK m : m = Max(Succeeded)
  OBVIOUS
<1>5. m \in Succeeded /\ \A y \in Succeeded : m >= y
  BY <1>2, <1>4, Zenon DEF Max
<1> QED BY <1>3, <1>4, <1>5

(* The saved item, the row of the refresh and the catalogue in use say the *)
(* same, in every state and after every recovery: a success is saved only  *)
(* of an activated snapshot, and the one in use is that of the last        *)
(* success.                                                                *)
THEOREM RefreshesReportTruly == Spec => []RefreshReportIsTrue
<1>1. ASSUME RefreshInv PROVE RefreshReportIsTrue
  <2>1. History
    BY <1>1 DEF RefreshInv
  <2>2. \A r \in Refreshes : snaps[r] = "active" => r = Max(Succeeded)
    BY <1>1, ActiveIsGreatest
  <2>3. Succeeded # {} => \E r \in Refreshes : snaps[r] = "active"
    BY <2>1 DEF History, Succeeded
  <2> HIDE DEF Succeeded
  <2> QED BY <2>1, <2>2, <2>3 DEF RefreshReportIsTrue, History, Tells
<1> QED BY <1>1, RefreshInductive, PTL
============================================================================
