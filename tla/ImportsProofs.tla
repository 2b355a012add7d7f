--------------------------- MODULE ImportsProofs ---------------------------
(***************************************************************************)
(* The safety of imports, for any workers and picked archives and any      *)
(* number of imports, removals, faults and ends of the process.            *)
(*                                                                         *)
(* ImportsInv is the inductive invariant.  Its core is the custody: who    *)
(* published anything, or reached a decision, holds it until its item is   *)
(* settled, so that nobody else touches the files and the rows it speaks   *)
(* of.                                                                     *)
(***************************************************************************)
EXTENDS Imports, SequenceTheorems, TLAPS

Points == {"idle", "stage", "register", "lookup", "check", "publish", "flush", "catalog",
           "readback", "compensate", "restored", "report", "settle", "clean", "retire", "forget"}

Receipts == [kind: Kinds, new: BOOLEAN]

(* The archive is published first, its artwork after it.                   *)
Chains ==
    {c \in Seq(Receipts) : /\ Len(c) \in {0, 1, 2}
                           /\ Len(c) # 0 => c[1].kind = "archive"
                           /\ Len(c) = 2 => c[2].kind = "artwork"}

Picks == Sources \cup {Idle.src}

Jobs == [pc: Points, src: Picks, kind: Kinds, stages: SUBSET Kinds, publications: Chains,
         held: BOOLEAN, outcome: {"none", "imported", "duplicate", "conflict", "failed"},
         reported: BOOLEAN, made: SUBSET Paths]

ImportsTyped ==
    /\ rows \subseteq Sources
    /\ there \subseteq Paths /\ mayBe \in [Paths -> SUBSET BOOLEAN]
    /\ custody \in Workers \cup {NoOne} /\ fenced \in BOOLEAN
    /\ job \in [Workers -> Jobs]

(* The points where a file is put in place.                                *)
Taking == {"stage", "register", "publish", "flush"}

Undecided == Taking \cup {"lookup", "check", "catalog", "readback"}

Answers == {"imported", "duplicate", "conflict"}

(* What the record of a worker says of itself at each point.               *)
Shaped(j) ==
    /\ j.pc # "idle" => j.src \in Sources
    /\ j.pc = "idle" =>
          j.made = {} /\ j.publications = <<>> /\ j.outcome = "none" /\ ~j.reported
    /\ j.pc \in Taking =>
          /\ Len(j.publications) = IF j.kind = "archive" THEN 0 ELSE 1
          /\ j.kind = "artwork" => j.src.art # NoArt
    /\ j.pc \in {"lookup", "check"} => j.kind = "archive" /\ Len(j.publications) = 0
    /\ j.pc \in {"stage", "register", "lookup", "check"} /\ Len(j.publications) = 0 => j.made = {}
    /\ Len(j.publications) = 2 => j.src.art # NoArt
    /\ j.pc \in Undecided => j.outcome = "none" /\ ~j.reported
    /\ j.pc \in {"compensate", "restored"} => j.outcome = "failed" /\ ~j.reported
    /\ j.pc \in {"retire", "forget"} => j.reported \/ j.outcome = "failed"
    /\ j.pc = "report" => ~j.reported
    /\ j.pc \in {"report", "settle", "clean", "retire", "forget"} => j.outcome # "none"
    /\ j.pc \in {"settle", "clean"} => j.reported
    /\ j.outcome = "failed" /\ (j.pc = "report" \/ j.reported) => Len(j.publications) = 0

(* What only the holder of the custody does, or has done.                  *)
Owning(j) ==
    \/ j.pc \in {"register", "publish", "flush", "catalog", "readback", "compensate", "restored",
                 "retire", "forget", "clean"}
    \/ j.made # {} \/ Len(j.publications) # 0 \/ j.outcome \in Answers

(* The file p was put in place by a publication that is not undone.        *)
Accounted(j, p) ==
    \/ j.pc = "flush" /\ p = File(j.src, j.kind)
    \/ \E i \in 1..Len(j.publications) :
          j.publications[i].new /\ p = File(j.src, j.publications[i].kind)

(* What worker w put in place: a receipt says so, the file is there until  *)
(* it was flushed, and no other file of a failed import is left.           *)
Traced(w) ==
    LET j == job[w] IN
    /\ \A i \in 1..Len(j.publications) :
          j.publications[i].new => File(j.src, j.publications[i].kind) \in j.made
    /\ j.pc = "flush" => File(j.src, j.kind) \in j.made /\ File(j.src, j.kind) \in there
    /\ ~fenced /\ j.outcome \in {"none", "failed"} =>
          \A p \in j.made \cap there : Accounted(j, p)

Truthful(w) ==
    LET j == job[w] IN
    /\ j.outcome \in {"imported", "duplicate"} => ByHash(j.src)
    /\ j.outcome = "conflict" => \E r \in rows : r.uuid = j.src.uuid /\ r.hash # j.src.hash

(* The file is on disk and a loss of power leaves it there.                *)
Durable(p) == p \in there /\ mayBe[p] = {TRUE}

(* The files of the import that worker w has published, and the artwork    *)
(* that it may find: its route was flushed before its container existed.   *)
Backed(w) ==
    LET j == job[w] IN
    /\ j.pc \in Taking /\ j.kind = "artwork" => Durable(File(j.src, "archive"))
    /\ j.pc \in {"register", "publish"} /\ j.kind = "artwork" =>
          (File(j.src, "artwork") \in there => Durable(File(j.src, "artwork")))
    /\ j.pc = "catalog" => \A p \in Files(j.src) : Durable(p)

Importing(w) ==
    /\ Shaped(job[w])
    /\ Owning(job[w]) => custody = w
    /\ Traced(w)
    /\ Truthful(w)
    /\ Backed(w)

(* stories has one row for a checksum.                                     *)
OneRow == \A r, q \in rows : r.hash = q.hash => r = q

ImportsInv ==
    /\ ImportsTyped
    /\ RowHasFiles
    /\ OneRow
    /\ \A w \in Workers : Importing(w)

-----------------------------------------------------------------------------
(* Files.                                                                  *)

LEMMA FilesAre ==
  ASSUME NEW s \in Sources
  PROVE  /\ File(s, "archive") \in Files(s)
         /\ s.art # NoArt => File(s, "artwork") \in Files(s)
         /\ \A p \in Files(s) : \/ p = File(s, "archive")
                                \/ p = File(s, "artwork") /\ s.art # NoArt
         /\ Files(s) \subseteq Paths
<1>1. Files(s) \subseteq Paths
  BY DEF Paths
<1> QED BY <1>1 DEF Files

LEMMA FilesApart ==
  /\ \A r, s : File(r, "archive") # File(s, "artwork")
  /\ \A r, s : File(r, "archive") = File(s, "archive") => r.hash = s.hash
  /\ \A s : Directory(File(s, "archive")) # Directory(File(s, "artwork"))
<1>1. \A s : File(s, "archive") = <<"archive", s.hash, s.name>>
  BY DEF File
<1>2. \A s : File(s, "artwork") = <<"artwork", s.uuid, s.art>>
  BY DEF File
<1>3. \A r, s : File(r, "archive") # File(s, "artwork")
  BY <1>1, <1>2
<1>4. ASSUME NEW r, NEW s, File(r, "archive") = File(s, "archive") PROVE r.hash = s.hash
  BY <1>1, <1>4
<1>5. ASSUME NEW s PROVE Directory(File(s, "archive")) # Directory(File(s, "artwork"))
  BY <1>1, <1>2 DEF Directory
<1> QED BY <1>3, <1>4, <1>5

LEMMA KindsAre == Kinds = {"archive", "artwork"}
  BY DEF Kinds

(* Flushing a directory takes no durable file, and keeps what is in it.    *)
LEMMA FlushedDisk ==
  ASSUME ImportsTyped, NEW d, mayBe' = Flushed(d), there' = there
  PROVE  /\ mayBe' \in [Paths -> SUBSET BOOLEAN]
         /\ \A p \in Paths : Durable(p) => Durable(p)'
         /\ \A p \in Paths : Directory(p) = d /\ p \in there => Durable(p)'
<1>1. \A p \in Paths : mayBe'[p] = IF Directory(p) = d THEN {(p \in there)} ELSE mayBe[p]
  BY Zenon DEF Flushed
<1>2. mayBe' \in [Paths -> SUBSET BOOLEAN]
  BY DEF ImportsTyped, Flushed
<1>3. ASSUME NEW p \in Paths, p \in there
      PROVE  /\ Durable(p) => Durable(p)'
             /\ Directory(p) = d => Durable(p)'
  <2>1. CASE Directory(p) = d
    <3>1. mayBe'[p] = {(p \in there)}
      BY <1>1, <1>3, <2>1, Zenon
    <3>2. mayBe'[p] = {TRUE}
      BY <1>3, <3>1
    <3> QED BY <1>3, <3>2 DEF Durable
  <2>2. CASE Directory(p) # d
    <3>1. mayBe'[p] = mayBe[p]
      BY <1>1, <1>3, <2>2, Zenon
    <3> QED BY <1>3, <2>2, <3>1 DEF Durable
  <2> QED BY <2>1, <2>2
<1> QED BY <1>2, <1>3 DEF Durable

(* A file that is not there is durable neither before nor after.           *)
LEMMA ChangedDisk ==
  ASSUME NEW m \in [Paths -> SUBSET BOOLEAN], NEW p,
         mayBe' = [m EXCEPT ![p] = BOOLEAN]
  PROVE  /\ mayBe' \in [Paths -> SUBSET BOOLEAN]
         /\ \A q \in Paths : q # p => mayBe'[q] = m[q]
  OBVIOUS

LEMMA StillBacked ==
  ASSUME ImportsInv, UNCHANGED rows, \A p \in Paths : Durable(p) => Durable(p)'
  PROVE  RowHasFiles' /\ OneRow'
<1>1. /\ rows \subseteq Sources /\ OneRow
      /\ \A r \in rows : \A p \in Files(r) : Durable(p)
  BY DEF ImportsInv, ImportsTyped, RowHasFiles, Durable
<1>2. \A r \in rows : \A p \in Files(r) : Durable(p)'
  BY <1>1, FilesAre
<1> QED BY <1>1, <1>2 DEF RowHasFiles, OneRow, Durable

-----------------------------------------------------------------------------
(* What a step of one worker leaves alone: the custody of another worker   *)
(* keeps the files and the rows as they are.                               *)

(* Who owns nothing depends on nothing.                                    *)
LEMMA Unowning ==
  ASSUME ImportsInv, NEW v \in Workers, ~ Owning(job[v]), job'[v] = job[v]
  PROVE  Importing(v)'
<1> DEFINE j == job[v]
<1>0. Importing(v) /\ j \in Jobs
  BY DEF ImportsInv, ImportsTyped
<1>1. Shaped(j) /\ Shaped(job[v])'
  BY <1>0 DEF Importing, Shaped
<1>2. /\ j.made = {} /\ Len(j.publications) = 0 /\ j.outcome \notin Answers
      /\ j.pc \notin {"register", "publish", "flush", "catalog"}
  BY DEF Owning
<1>3. Traced(v)'
  <2>1. 1..Len(j.publications) = {}
    BY <1>2
  <2> QED BY <1>2, <2>1 DEF Traced
<1>4. Truthful(v)'
  BY <1>2 DEF Truthful, Answers
<1>5. Backed(v)'
  <2>1. j.pc \in Taking => j.kind = "archive"
    BY <1>0, <1>1, <1>2 DEF Shaped, Jobs, Kinds
  <2> QED BY <1>2, <2>1 DEF Backed
<1>6. ~ Owning(job[v])'
  BY DEF Owning
<1> QED BY <1>1, <1>3, <1>4, <1>5, <1>6 DEF Importing

LEMMA OthersImport ==
  ASSUME ImportsInv, NEW w \in Workers, NEW v \in Workers, v # w, job'[v] = job[v],
         custody = v => custody' = v, fenced => fenced',
         UNCHANGED <<rows, there, mayBe>> \/ custody = w
  PROVE  Importing(v)'
<1> DEFINE j == job[v]
<1>0. Importing(v) /\ j \in Jobs
  BY DEF ImportsInv, ImportsTyped
<1>1. Shaped(j) /\ Shaped(job[v])'
  BY <1>0 DEF Importing, Shaped
<1>2. CASE custody = v
  <2>1. UNCHANGED <<rows, there, mayBe>> /\ custody' = v
    BY <1>2
  <2>2. Traced(v)'
    BY <1>0, <2>1 DEF Importing, Traced, Accounted
  <2>3. Truthful(v)'
    BY <1>0, <2>1 DEF Importing, Truthful, ByHash
  <2>4. Backed(v)'
    BY <1>0, <2>1 DEF Importing, Backed, Durable
  <2> QED BY <1>1, <2>1, <2>2, <2>3, <2>4 DEF Importing
<1>3. CASE custody # v
  <2>1. ~ Owning(j)
    BY <1>0, <1>3 DEF Importing
  <2> QED BY <2>1, Unowning
<1> QED BY <1>2, <1>3

LEMMA Whole ==
  ASSUME ImportsInv, NEW w \in Workers,
         job' \in [Workers -> Jobs], \A v \in Workers \ {w} : job'[v] = job[v],
         custody' \in Workers \cup {NoOne}, custody' = custody \/ custody \in {w, NoOne},
         fenced' \in BOOLEAN, fenced => fenced',
         rows' \subseteq Sources, there' \subseteq Paths, mayBe' \in [Paths -> SUBSET BOOLEAN],
         UNCHANGED <<rows, there, mayBe>> \/ custody = w,
         RowHasFiles', OneRow', Importing(w)'
  PROVE  ImportsInv'
<1>1. ImportsTyped'
  BY DEF ImportsTyped
<1>2. \A v \in Workers \ {w} : custody = v => custody' = v
  BY ImportsAssumption
<1>3. \A v \in Workers : Importing(v)'
  BY <1>2, OthersImport
<1> QED BY <1>1, <1>3 DEF ImportsInv

(* The step changes neither rows nor files.                                *)
LEMMA StaysStill ==
  ASSUME ImportsInv, NEW w \in Workers,
         job' \in [Workers -> Jobs], \A v \in Workers \ {w} : job'[v] = job[v],
         custody' \in Workers \cup {NoOne}, custody' = custody \/ custody \in {w, NoOne},
         fenced' \in BOOLEAN, fenced => fenced',
         UNCHANGED <<rows, there, mayBe>>, Importing(w)'
  PROVE  ImportsInv'
<1>1. \A p \in Paths : Durable(p) => Durable(p)'
  BY DEF Durable
<1>2. RowHasFiles' /\ OneRow'
  BY <1>1, StillBacked
<1>3. rows' \subseteq Sources /\ there' \subseteq Paths /\ mayBe' \in [Paths -> SUBSET BOOLEAN]
  BY DEF ImportsInv, ImportsTyped
<1> QED BY <1>2, <1>3, Whole

(* The step changes files, under custody.                                  *)
LEMMA ChangesFiles ==
  ASSUME ImportsInv, NEW w \in Workers,
         job' \in [Workers -> Jobs], \A v \in Workers \ {w} : job'[v] = job[v],
         custody = w, custody' = w,
         fenced' \in BOOLEAN, fenced => fenced', UNCHANGED rows,
         there' \subseteq Paths, mayBe' \in [Paths -> SUBSET BOOLEAN],
         RowHasFiles' /\ OneRow', Importing(w)'
  PROVE  ImportsInv'
<1>1. rows' \subseteq Sources
  BY DEF ImportsInv, ImportsTyped
<1> QED BY <1>1, Whole

-----------------------------------------------------------------------------
(* The record of the worker that steps.                                    *)

LEMMA Moved ==
  ASSUME ImportsTyped, NEW w \in Workers, NEW j \in Jobs, Moves(w, j)
  PROVE  /\ job' \in [Workers -> Jobs] /\ job'[w] = j
         /\ \A v \in Workers \ {w} : job'[v] = job[v]
  BY DEF ImportsTyped, Moves

LEMMA Empty ==
  ASSUME NEW c \in Chains
  PROVE  /\ c \in Seq(Receipts) /\ Len(c) \in {0, 1, 2}
         /\ c = <<>> <=> Len(c) = 0
<1>1. c \in Seq(Receipts) /\ Len(c) \in {0, 1, 2}
  BY DEF Chains
<1>2. c = <<>> => Len(c) = 0
  BY <1>1, EmptySeq
<1>3. Len(c) = 0 => c = <<>>
  BY <1>1, EmptySeq
<1> QED BY <1>1, <1>2, <1>3

LEMMA TracedStays ==
  ASSUME NEW w \in Workers, Traced(w), there' = there \/ fenced',
         NEW k, job'[w] = k, k.src = job[w].src, k.publications = job[w].publications,
         job[w].made \subseteq k.made, k.made = job[w].made \/ fenced',
         k.pc # "flush", job[w].pc # "flush" \/ fenced', fenced => fenced',
         k.outcome \in {"none", "failed"} => job[w].outcome \in {"none", "failed"}
  PROVE  Traced(w)'
<1> DEFINE j == job[w]
<1>1. \A i \in 1..Len(k.publications) :
          k.publications[i].new => File(k.src, k.publications[i].kind) \in k.made
  BY DEF Traced
<1>2. CASE fenced'
  BY <1>1, <1>2 DEF Traced
<1>3. CASE ~fenced'
  <2>1. there' = there /\ k.made = j.made /\ j.pc # "flush" /\ ~fenced
    BY <1>3
  <2>2. k.outcome \in {"none", "failed"} => \A p \in k.made \cap there' : Accounted(k, p)
    BY <2>1 DEF Traced, Accounted
  <2> QED BY <1>1, <2>2 DEF Traced
<1> QED BY <1>2, <1>3

LEMMA TruthStays ==
  ASSUME NEW w \in Workers, Truthful(w), rows' = rows, NEW k, job'[w] = k, k.src = job[w].src,
         k.outcome \in {"none", "failed", job[w].outcome}
  PROVE  Truthful(w)'
  BY DEF Truthful, ByHash

LEMMA FailedTyped ==
  ASSUME NEW j \in Jobs, NEW k, k = Failed(j)
  PROVE  /\ k \in Jobs /\ k.src = j.src /\ k.kind = j.kind /\ k.publications = j.publications
         /\ k.made = j.made /\ k.outcome = "failed" /\ (k.reported <=> j.reported)
         /\ k.pc = IF Len(j.publications) = 0 THEN "report" ELSE "compensate"
<1>1. j.publications \in Chains
  BY DEF Jobs
<1>2. j.publications = <<>> <=> Len(j.publications) = 0
  BY <1>1, Empty
<1>3. "report" \in Points /\ "compensate" \in Points
  BY DEF Points
<1> QED BY <1>2, <1>3 DEF Failed, Jobs

(* An import that fails.                                                   *)
LEMMA Fails ==
  ASSUME ImportsInv, NEW w \in Workers, NEW j \in Jobs, Moves(w, Failed(j)),
         job[w].pc \in Undecided, j.src = job[w].src, j.publications = job[w].publications,
         j.reported <=> job[w].reported,
         job[w].made \subseteq j.made, j.made = job[w].made \/ fenced',
         job[w].pc # "flush" \/ fenced', fenced => fenced', there' = there \/ fenced',
         rows' = rows, j.made # {} \/ Len(j.publications) # 0 => custody' = w
  PROVE  /\ job' \in [Workers -> Jobs] /\ \A v \in Workers \ {w} : job'[v] = job[v]
         /\ Importing(w)'
<1>0. ImportsTyped /\ Importing(w) /\ job[w] \in Jobs
  BY DEF ImportsInv, ImportsTyped
<1>1. PICK k : k = Failed(j)
  OBVIOUS
<1>2. /\ k \in Jobs /\ k.src = j.src /\ k.kind = j.kind /\ k.publications = j.publications
      /\ k.made = j.made /\ k.outcome = "failed" /\ (k.reported <=> j.reported)
      /\ k.pc = IF Len(j.publications) = 0 THEN "report" ELSE "compensate"
  BY <1>1, FailedTyped
<1>3. /\ job' \in [Workers -> Jobs] /\ job'[w] = k /\ \A v \in Workers \ {w} : job'[v] = job[v]
  <2>1. Moves(w, k) BY <1>1
  <2> QED BY <1>0, <1>2, <2>1, Moved
<1>4. /\ job[w].pc # "idle" /\ job[w].outcome = "none" /\ ~ job[w].reported
      /\ job[w].src \in Sources
      /\ Len(job[w].publications) = 2 => job[w].src.art # NoArt
  BY <1>0 DEF Importing, Shaped, Undecided, Taking
<1>5. Shaped(k)
  BY <1>2, <1>4 DEF Shaped, Undecided, Taking
<1>6. Owning(k) => custody' = w
  BY <1>2 DEF Owning, Answers
<1>7. Traced(w)'
  BY <1>0, <1>2, <1>3, <1>4, TracedStays DEF Importing
<1>8. Truthful(w)'
  BY <1>0, <1>2, <1>3, TruthStays DEF Importing
<1>9. Backed(w)'
  BY <1>2, <1>3 DEF Backed, Taking
<1> QED BY <1>3, <1>5, <1>6, <1>7, <1>8, <1>9 DEF Importing

LEMMA Here ==
  ASSUME ImportsInv, NEW w \in Workers
  PROVE  /\ ImportsTyped /\ Importing(w) /\ job[w] \in Jobs /\ Shaped(job[w])
         /\ job[w].kind \in Kinds /\ job[w].publications \in Chains
         /\ Owning(job[w]) => custody = w
         /\ custody \in Workers \cup {NoOne} /\ fenced \in BOOLEAN
         /\ there \subseteq Paths /\ mayBe \in [Paths -> SUBSET BOOLEAN]
  BY DEF ImportsInv, ImportsTyped, Importing, Jobs

-----------------------------------------------------------------------------
(* From the item to the archive in its container.                          *)

LEMMA BeginKeeps == ASSUME ImportsInv, NEW w \in Workers, Begin(w) PROVE ImportsInv'
<1>0. ImportsTyped /\ Importing(w)
  BY Here
<1>1. PICK s \in Sources : Moves(w, [Idle EXCEPT !.pc = "stage", !.src = s])
  BY DEF Begin
<1>2. UNCHANGED <<rows, there, mayBe, custody, fenced>>
  BY DEF Begin, disk
<1>3. PICK k : k = [Idle EXCEPT !.pc = "stage", !.src = s]
  OBVIOUS
<1>4. /\ k \in Jobs /\ k.pc = "stage" /\ k.src = s /\ k.kind = "archive" /\ k.publications = <<>>
      /\ k.made = {} /\ k.outcome = "none" /\ ~k.reported
  <2>1. <<>> \in Chains
    BY EmptySeq DEF Chains
  <2>2. "stage" \in Points /\ "archive" \in Kinds /\ s \in Picks
    BY DEF Points, Kinds, Picks
  <2> QED BY <1>3, <2>1, <2>2 DEF Idle, Jobs
<1>5. job' \in [Workers -> Jobs] /\ job'[w] = k /\ \A v \in Workers \ {w} : job'[v] = job[v]
  <2>1. Moves(w, k) BY <1>1, <1>3
  <2> QED BY <1>0, <1>4, <2>1, Moved
<1>6. Len(k.publications) = 0 /\ 1..Len(k.publications) = {}
  BY <1>4
<1>7. Shaped(k) /\ ~ Owning(k)
  BY <1>4, <1>6 DEF Shaped, Owning, Taking, Undecided, Answers
<1>8. Traced(w)' /\ Truthful(w)' /\ Backed(w)'
  BY <1>4, <1>5, <1>6 DEF Traced, Truthful, Backed
<1>9. Importing(w)'
  BY <1>5, <1>7, <1>8 DEF Importing
<1>10. fenced' \in BOOLEAN /\ custody' \in Workers \cup {NoOne}
  BY <1>0, <1>2 DEF ImportsTyped
<1> QED BY <1>2, <1>5, <1>9, <1>10, StaysStill

LEMMA GiveUpKeeps == ASSUME ImportsInv, NEW w \in Workers, GiveUp(w) PROVE ImportsInv'
<1>0. /\ ImportsTyped /\ job[w] \in Jobs /\ Shaped(job[w]) /\ job[w].kind \in Kinds
      /\ Owning(job[w]) => custody = w
      /\ custody \in Workers \cup {NoOne} /\ fenced \in BOOLEAN
  BY Here
<1>1. /\ job[w].pc \in Undecided /\ job[w].pc # "flush" /\ Moves(w, Failed(job[w]))
      /\ custody' = IF job[w].pc = "register" /\ job[w].kind = "archive" THEN NoOne ELSE custody
      /\ UNCHANGED <<rows, there, mayBe, fenced>>
  BY DEF GiveUp, AfterStage, disk, Undecided, Taking
<1>2. job[w].made # {} \/ Len(job[w].publications) # 0 => custody' = w
  <2>1. CASE job[w].pc = "register" /\ job[w].kind = "archive"
    BY <1>0, <2>1 DEF Shaped, Taking
  <2>2. CASE ~ (job[w].pc = "register" /\ job[w].kind = "archive")
    BY <1>0, <1>1, <2>2 DEF Owning
  <2> QED BY <2>1, <2>2
<1>3. custody' \in Workers \cup {NoOne} /\ (custody' = custody \/ custody = w)
  BY <1>0, <1>1 DEF Owning
<1>4. /\ job' \in [Workers -> Jobs] /\ \A v \in Workers \ {w} : job'[v] = job[v]
      /\ Importing(w)'
  BY <1>0, <1>1, <1>2, Fails
<1> QED BY <1>0, <1>1, <1>3, <1>4, StaysStill

(* The route of the artwork is flushed; nothing else is.                   *)
LEMMA Routed ==
  ASSUME ImportsInv, NEW w \in Workers, job[w].pc = "stage", mayBe' = Route(job[w]), there' = there
  PROVE  /\ mayBe' \in [Paths -> SUBSET BOOLEAN]
         /\ \A p \in Paths : Durable(p) => Durable(p)'
         /\ job[w].kind = "archive" => mayBe' = mayBe
         /\ job[w].kind = "artwork" => custody = w
         /\ job[w].kind = "artwork" =>
               \A p \in Paths : p = File(job[w].src, "artwork") /\ p \in there => Durable(p)'
<1>0. /\ ImportsTyped /\ Shaped(job[w]) /\ job[w].kind \in Kinds
      /\ Owning(job[w]) => custody = w
      /\ mayBe \in [Paths -> SUBSET BOOLEAN] /\ there \subseteq Paths
  BY Here
<1>1. CASE job[w].kind = "archive"
  <2>1. mayBe' = mayBe
    BY <1>1 DEF Route
  <2> QED BY <1>0, <1>1, <2>1 DEF Durable
<1>2. CASE job[w].kind = "artwork"
  <2>1. mayBe' = Flushed(Directory(File(job[w].src, "artwork")))
    BY <1>2 DEF Route
  <2>2. custody = w
    BY <1>0, <1>2 DEF Shaped, Owning, Taking
  <2> QED BY <1>0, <1>2, <2>1, <2>2, FlushedDisk
<1> QED BY <1>0, <1>1, <1>2, KindsAre

(* Both may be so before a container exists.                               *)
LEMMA MayTake ==
  ASSUME ImportsInv, NEW w \in Workers, MayCreate(w)
  PROVE  job[w].pc = "stage" /\ ~fenced /\ custody \in {w, NoOne}
<1>0. Shaped(job[w]) /\ job[w].kind \in Kinds /\ (Owning(job[w]) => custody = w)
  BY Here
<1>1. job[w].pc = "stage" /\ ~fenced
  BY DEF MayCreate, TryCustody
<1>2. CASE job[w].kind = "archive"
  BY <1>1, <1>2 DEF MayCreate, TryCustody
<1>3. CASE job[w].kind = "artwork"
  BY <1>0, <1>1, <1>3 DEF Shaped, Owning, Taking
<1> QED BY <1>0, <1>1, <1>2, <1>3, KindsAre

LEMMA CreateStageKeeps == ASSUME ImportsInv, NEW w \in Workers, CreateStage(w) PROVE ImportsInv'
<1> DEFINE j == job[w]
           s == j.src
<1>0. /\ ImportsTyped /\ Importing(w) /\ j \in Jobs /\ Shaped(j) /\ j.kind \in Kinds
      /\ custody \in Workers \cup {NoOne} /\ fenced \in BOOLEAN
      /\ there \subseteq Paths /\ mayBe \in [Paths -> SUBSET BOOLEAN]
  BY Here
<1>1. /\ j.pc = "stage" /\ ~fenced /\ custody \in {w, NoOne} /\ custody' = w
      /\ mayBe' = Route(j) /\ UNCHANGED <<rows, there, fenced>>
      /\ Moves(w, [j EXCEPT !.pc = "register", !.stages = @ \cup {j.kind}])
  BY MayTake DEF CreateStage
<1>2. PICK k : k = [j EXCEPT !.pc = "register", !.stages = @ \cup {j.kind}]
  OBVIOUS
<1>3. /\ k \in Jobs /\ k.pc = "register" /\ k.src = s /\ k.kind = j.kind /\ k.made = j.made
      /\ k.publications = j.publications /\ k.outcome = j.outcome /\ (k.reported <=> j.reported)
  <2>1. "register" \in Points BY DEF Points
  <2> QED BY <1>0, <1>2, <2>1 DEF Jobs
<1>4. job' \in [Workers -> Jobs] /\ job'[w] = k /\ \A v \in Workers \ {w} : job'[v] = job[v]
  <2>1. Moves(w, k) BY <1>1, <1>2
  <2> QED BY <1>0, <1>3, <2>1, Moved
<1>5. /\ mayBe' \in [Paths -> SUBSET BOOLEAN]
      /\ \A p \in Paths : Durable(p) => Durable(p)'
      /\ j.kind = "archive" => mayBe' = mayBe
      /\ j.kind = "artwork" => custody = w
      /\ j.kind = "artwork" =>
            \A p \in Paths : p = File(s, "artwork") /\ p \in there => Durable(p)'
  BY <1>1, Routed
<1>6. Shaped(k)
  BY <1>0, <1>1, <1>3 DEF Shaped, Taking, Undecided
<1>7. Traced(w)' /\ Truthful(w)'
  BY <1>0, <1>1, <1>3, <1>4, TracedStays, TruthStays DEF Importing
<1>8. Backed(w)'
  <2>1. PICK a, b : a = File(s, "archive") /\ b = File(s, "artwork")
    OBVIOUS
  <2>2. j.kind = "artwork" => Durable(a)' /\ (b \in there => Durable(b)')
    <3>1. a \in Paths /\ (j.kind = "artwork" => b \in Paths)
      BY <1>0, <1>1, <2>1, FilesAre DEF Shaped, Taking
    <3>2. j.kind = "artwork" => Durable(a)
      BY <1>0, <1>1, <2>1 DEF Importing, Backed, Taking
    <3> QED BY <1>5, <2>1, <3>1, <3>2
  <2>3. k.pc = "register" /\ k.kind = j.kind /\ a = File(k.src, "archive") /\ b = File(k.src, "artwork")
    BY <1>3, <2>1
  <2> QED BY <1>1, <1>4, <2>2, <2>3 DEF Backed, Durable
<1>9. Importing(w)'
  BY <1>1, <1>4, <1>6, <1>7, <1>8 DEF Importing
<1>10. RowHasFiles' /\ OneRow' /\ rows' \subseteq Sources
  BY <1>0, <1>1, <1>5, StillBacked DEF ImportsTyped
<1>11. UNCHANGED <<rows, there, mayBe>> \/ custody = w
  BY <1>0, <1>1, <1>5, KindsAre
<1> QED BY <1>0, <1>1, <1>4, <1>5, <1>9, <1>10, <1>11, Whole

LEMMA PartialStageKeeps == ASSUME ImportsInv, NEW w \in Workers, PartialStage(w) PROVE ImportsInv'
<1> DEFINE j == job[w]
<1>0. /\ ImportsTyped /\ Importing(w) /\ j \in Jobs /\ j.kind \in Kinds
      /\ Owning(j) => custody = w
      /\ custody \in Workers \cup {NoOne} /\ there \subseteq Paths
  BY Here
<1>1. /\ j.pc = "stage" /\ mayBe' = Route(j) /\ fenced' = TRUE
      /\ UNCHANGED <<rows, there, custody>>
      /\ Moves(w, Failed([j EXCEPT !.held = TRUE]))
  BY MayTake DEF PartialStage
<1>2. PICK k : k = [j EXCEPT !.held = TRUE]
  OBVIOUS
<1>3. /\ k \in Jobs /\ k.src = j.src /\ k.made = j.made /\ k.publications = j.publications
      /\ k.reported <=> j.reported
  BY <1>0, <1>2 DEF Jobs
<1>4. /\ mayBe' \in [Paths -> SUBSET BOOLEAN]
      /\ \A p \in Paths : Durable(p) => Durable(p)'
      /\ j.kind = "archive" => mayBe' = mayBe
      /\ j.kind = "artwork" => custody = w
  BY <1>1, Routed
<1>5. k.made # {} \/ Len(k.publications) # 0 => custody' = w
  BY <1>0, <1>1, <1>3 DEF Owning
<1>6. /\ job' \in [Workers -> Jobs] /\ \A v \in Workers \ {w} : job'[v] = job[v]
      /\ Importing(w)'
  <2>1. Moves(w, Failed(k)) /\ j.pc \in Undecided
    BY <1>1, <1>2 DEF Undecided, Taking
  <2> QED BY <1>1, <1>3, <1>5, <2>1, Fails
<1>7. RowHasFiles' /\ OneRow' /\ rows' \subseteq Sources
  BY <1>0, <1>1, <1>4, StillBacked DEF ImportsTyped
<1>8. UNCHANGED <<rows, there, mayBe>> \/ custody = w
  BY <1>0, <1>1, <1>4, KindsAre
<1> QED BY <1>0, <1>1, <1>4, <1>6, <1>7, <1>8, Whole

LEMMA NoRouteKeeps == ASSUME ImportsInv, NEW w \in Workers, NoRoute(w) PROVE ImportsInv'
<1> DEFINE j == job[w]
<1>0. /\ ImportsTyped /\ j \in Jobs /\ (Owning(j) => custody = w)
      /\ custody \in Workers \cup {NoOne}
  BY Here
<1>1. /\ j.pc \in Undecided /\ fenced' = TRUE /\ Moves(w, Failed(j))
      /\ UNCHANGED <<rows, there, mayBe, custody>>
  BY MayTake DEF NoRoute, disk, Undecided, Taking
<1>2. j.made # {} \/ Len(j.publications) # 0 => custody' = w
  BY <1>0, <1>1 DEF Owning
<1>3. /\ job' \in [Workers -> Jobs] /\ \A v \in Workers \ {w} : job'[v] = job[v]
      /\ Importing(w)'
  BY <1>0, <1>1, <1>2, Fails
<1> QED BY <1>0, <1>1, <1>3, StaysStill

-----------------------------------------------------------------------------
(* A step that leaves the rows, the files and the receipts alone.          *)
LEMMA Carries ==
  ASSUME ImportsInv, NEW w \in Workers, NEW k \in Jobs, Moves(w, k),
         k.src = job[w].src, k.made = job[w].made, k.publications = job[w].publications,
         job[w].pc # "flush", k.pc # "flush", Shaped(k), Owning(k) => custody' = w,
         custody' \in Workers \cup {NoOne}, custody' = custody \/ custody \in {w, NoOne},
         fenced' \in BOOLEAN, fenced => fenced', UNCHANGED <<rows, there, mayBe>>,
         k.outcome \in {"none", "failed"} => job[w].outcome \in {"none", "failed"},
         \/ k.outcome \in {"none", "failed", job[w].outcome}
         \/ k.outcome \in {"imported", "duplicate"} /\ ByHash(k.src)
         \/ k.outcome = "conflict" /\ \E r \in rows : r.uuid = k.src.uuid /\ r.hash # k.src.hash,
         \/ k.pc \notin Taking \cup {"catalog"}
         \/ k.pc = "publish" /\ k.kind = "archive"
         \/ k.pc = "publish" /\ k.kind = "artwork" /\ job[w].kind = "artwork" /\ job[w].pc = "register"
  PROVE  ImportsInv'
<1>0. ImportsTyped /\ Traced(w) /\ Truthful(w) /\ Backed(w)
  BY Here DEF Importing
<1>1. job' \in [Workers -> Jobs] /\ job'[w] = k /\ \A v \in Workers \ {w} : job'[v] = job[v]
  BY <1>0, Moved
<1>2. Traced(w)'
  BY <1>0, <1>1, TracedStays
<1>3. Truthful(w)'
  <2>1. CASE k.outcome \in {"none", "failed", job[w].outcome}
    BY <1>0, <1>1, <2>1, TruthStays
  <2>2. CASE k.outcome \in {"imported", "duplicate"} /\ ByHash(k.src)
    BY <1>1, <2>2 DEF Truthful, ByHash
  <2>3. CASE k.outcome = "conflict" /\ \E r \in rows : r.uuid = k.src.uuid /\ r.hash # k.src.hash
    BY <1>1, <2>3 DEF Truthful
  <2> QED BY <2>1, <2>2, <2>3
<1>4. Backed(w)'
  BY <1>0, <1>1 DEF Backed, Taking, Durable
<1>5. Importing(w)'
  BY <1>1, <1>2, <1>3, <1>4 DEF Importing
<1> QED BY <1>1, <1>5, StaysStill

LEMMA RegisterKeeps == ASSUME ImportsInv, NEW w \in Workers, Register(w) PROVE ImportsInv'
<1> DEFINE j == job[w]
           k == [j EXCEPT !.pc = IF j.kind = "archive" THEN "lookup" ELSE "publish"]
<1>0. /\ j \in Jobs /\ Shaped(j) /\ j.kind \in Kinds /\ (Owning(j) => custody = w)
      /\ custody \in Workers \cup {NoOne} /\ fenced \in BOOLEAN
  BY Here
<1>1. /\ j.pc = "register" /\ Moves(w, k) /\ UNCHANGED <<rows, there, mayBe, fenced>>
      /\ custody' = IF j.kind = "archive" THEN NoOne ELSE custody
  BY DEF Register, AfterStage
<1>2. /\ k \in Jobs /\ k.src = j.src /\ k.kind = j.kind /\ k.made = j.made
      /\ k.publications = j.publications /\ k.outcome = j.outcome /\ (k.reported <=> j.reported)
      /\ k.pc = IF j.kind = "archive" THEN "lookup" ELSE "publish"
  <2>1. "lookup" \in Points /\ "publish" \in Points BY DEF Points
  <2> QED BY <1>0, <2>1 DEF Jobs
<1> HIDE DEF k
<1>3. custody = w
  BY <1>0, <1>1 DEF Owning
<1>4. j.outcome = "none" /\ ~ j.reported
  BY <1>0, <1>1 DEF Shaped, Taking, Undecided
<1>5. Shaped(k)
  BY <1>0, <1>1, <1>2 DEF Shaped, Taking, Undecided, Kinds
<1>6. Owning(k) => custody' = w
  <2>1. CASE j.kind = "archive"
    BY <1>0, <1>1, <1>2, <1>4, <2>1 DEF Owning, Shaped, Taking, Answers
  <2>2. CASE j.kind = "artwork"
    BY <1>1, <1>3, <2>2
  <2> QED BY <1>0, <2>1, <2>2, KindsAre
<1>7. k.pc = "lookup" \/ (k.pc = "publish" /\ k.kind = "artwork" /\ j.kind = "artwork")
  BY <1>0, <1>2, KindsAre
<1> QED BY <1>0, <1>1, <1>2, <1>3, <1>4, <1>5, <1>6, <1>7, Carries DEF Taking

LEMMA RegisterUncertainKeeps ==
  ASSUME ImportsInv, NEW w \in Workers, RegisterUncertain(w) PROVE ImportsInv'
<1> DEFINE j == job[w]
<1>0. /\ j \in Jobs /\ Shaped(j) /\ j.kind \in Kinds /\ (Owning(j) => custody = w)
      /\ custody \in Workers \cup {NoOne}
  BY Here
<1>1. /\ j.pc = "register" /\ Moves(w, Failed(j)) /\ fenced' = TRUE
      /\ custody' = IF j.kind = "archive" THEN NoOne ELSE custody
      /\ UNCHANGED <<rows, there, mayBe>>
  BY DEF RegisterUncertain, AfterStage
<1>2. custody = w
  BY <1>0, <1>1 DEF Owning
<1>3. j.made # {} \/ Len(j.publications) # 0 => custody' = w
  BY <1>0, <1>1, <1>2 DEF Shaped, Taking
<1>4. /\ job' \in [Workers -> Jobs] /\ \A v \in Workers \ {w} : job'[v] = job[v]
      /\ Importing(w)'
  BY <1>0, <1>1, <1>3, Fails DEF Undecided, Taking
<1> QED BY <1>0, <1>1, <1>2, <1>4, StaysStill

(* A duplicate keeps the custody under which it was found.                 *)
LEMMA LookupKeeps == ASSUME ImportsInv, NEW w \in Workers, Lookup(w) PROVE ImportsInv'
<1> DEFINE j == job[w]
<1>0. /\ j \in Jobs /\ Shaped(j) /\ fenced \in BOOLEAN /\ custody \in Workers \cup {NoOne}
  BY Here
<1>1. /\ j.pc = "lookup" /\ custody = NoOne /\ UNCHANGED <<rows, there, mayBe, fenced>>
  BY DEF Lookup, TryCustody, disk
<1>2. /\ j.src \in Sources /\ j.made = {} /\ Len(j.publications) = 0 /\ j.kind = "archive"
      /\ j.outcome = "none" /\ ~ j.reported
  BY <1>0, <1>1 DEF Shaped, Undecided
<1>3. CASE ByHash(j.src)
  <2> DEFINE k == [j EXCEPT !.pc = "report", !.outcome = "duplicate"]
  <2>1. Moves(w, k) /\ custody' = w
    BY <1>3 DEF Lookup
  <2>2. /\ k \in Jobs /\ k.src = j.src /\ k.made = j.made /\ k.publications = j.publications
        /\ k.outcome = "duplicate" /\ (k.reported <=> j.reported) /\ k.pc = "report"
    <3>1. "report" \in Points BY DEF Points
    <3> QED BY <1>0, <3>1 DEF Jobs
  <2> HIDE DEF k
  <2>3. Shaped(k) /\ ByHash(k.src)
    <3>1. k.src \in Sources /\ Len(k.publications) = 0 /\ ~k.reported /\ ByHash(k.src)
      BY <1>2, <1>3, <2>2
    <3> QED BY <2>2, <3>1 DEF Shaped, Taking, Undecided
  <2> QED BY <1>0, <1>1, <1>2, <2>1, <2>2, <2>3, Carries DEF Taking
<1>4. CASE ~ ByHash(j.src)
  <2> DEFINE k == [j EXCEPT !.pc = "check"]
  <2>1. Moves(w, k) /\ custody' = custody
    BY <1>4 DEF Lookup
  <2>2. /\ k \in Jobs /\ k.src = j.src /\ k.made = j.made /\ k.publications = j.publications
        /\ k.outcome = j.outcome /\ (k.reported <=> j.reported) /\ k.pc = "check" /\ k.kind = j.kind
    <3>1. "check" \in Points BY DEF Points
    <3> QED BY <1>0, <3>1 DEF Jobs
  <2> HIDE DEF k
  <2>3. Shaped(k) /\ ~ Owning(k)
    <3>1. /\ k.src \in Sources /\ Len(k.publications) = 0 /\ ~k.reported /\ k.made = {}
          /\ k.outcome = "none" /\ k.kind = "archive" /\ k.pc = "check"
      BY <1>2, <2>2
    <3> QED BY <3>1 DEF Shaped, Taking, Undecided, Owning, Answers
  <2> QED BY <1>0, <1>1, <1>2, <2>1, <2>2, <2>3, Carries DEF Taking
<1> QED BY <1>3, <1>4

(* What the rows say of an archive.                                        *)
LEMMA Decision ==
  ASSUME NEW s
  PROVE  /\ BeforePublish(s) \in {"duplicate", "conflict", "none"}
         /\ BeforePublish(s) = "duplicate" => ByHash(s)
         /\ BeforePublish(s) = "conflict" => \E r \in rows : r.uuid = s.uuid /\ r.hash # s.hash
         /\ BeforePublish(s) = "none" => ~ ByHash(s)
  BY DEF BeforePublish, ByHash

LEMMA CheckKeeps == ASSUME ImportsInv, NEW w \in Workers, Check(w) PROVE ImportsInv'
<1> DEFINE j == job[w]
           d == BeforePublish(j.src)
           k == [j EXCEPT !.pc = IF d = "none" THEN "publish" ELSE "report", !.outcome = d]
<1>0. /\ j \in Jobs /\ Shaped(j) /\ fenced \in BOOLEAN
  BY Here
<1>1. /\ j.pc = "check" /\ custody = NoOne /\ custody' = w /\ Moves(w, k)
      /\ UNCHANGED <<rows, there, mayBe, fenced>>
  BY DEF Check, TryCustody, disk
<1>2. /\ j.src \in Sources /\ j.made = {} /\ Len(j.publications) = 0 /\ j.kind = "archive"
      /\ j.outcome = "none" /\ ~ j.reported
  BY <1>0, <1>1 DEF Shaped, Undecided
<1>3. /\ d \in {"duplicate", "conflict", "none"}
      /\ d = "duplicate" => ByHash(j.src)
      /\ d = "conflict" => \E r \in rows : r.uuid = j.src.uuid /\ r.hash # j.src.hash
  BY Decision
<1> HIDE DEF d
<1>4. /\ k \in Jobs /\ k.src = j.src /\ k.made = j.made /\ k.publications = j.publications
      /\ k.outcome = d /\ (k.reported <=> j.reported) /\ k.kind = j.kind
      /\ k.pc = IF d = "none" THEN "publish" ELSE "report"
  <2>1. "report" \in Points /\ "publish" \in Points BY DEF Points
  <2> QED BY <1>0, <1>3, <2>1 DEF Jobs
<1> HIDE DEF k
<1>5. Shaped(k)
  BY <1>2, <1>3, <1>4 DEF Shaped, Taking, Undecided
<1>6. \/ k.outcome \in {"none", "failed", j.outcome}
      \/ k.outcome \in {"imported", "duplicate"} /\ ByHash(k.src)
      \/ k.outcome = "conflict" /\ \E r \in rows : r.uuid = k.src.uuid /\ r.hash # k.src.hash
  BY <1>3, <1>4
<1>7. k.pc \notin Taking \cup {"catalog"} \/ (k.pc = "publish" /\ k.kind = "archive")
  BY <1>2, <1>4 DEF Taking
<1>8. k.outcome \in {"none", "failed"} => j.outcome \in {"none", "failed"}
  BY <1>2
<1>9. k.pc # "flush" /\ j.pc # "flush"
  BY <1>1, <1>4
<1> QED BY <1>0, <1>1, <1>4, <1>5, <1>6, <1>7, <1>8, <1>9, Carries

LEMMA ReadbackKeeps == ASSUME ImportsInv, NEW w \in Workers, Readback(w) PROVE ImportsInv'
<1> DEFINE j == job[w]
<1>0. /\ j \in Jobs /\ Shaped(j) /\ fenced \in BOOLEAN /\ (Owning(j) => custody = w)
      /\ custody \in Workers \cup {NoOne}
  BY Here
<1>1. /\ j.pc = "readback" /\ UNCHANGED <<rows, there, mayBe, fenced, custody>>
  BY DEF Readback, disk
<1>2. custody = w /\ j.outcome = "none" /\ ~ j.reported
  BY <1>0, <1>1 DEF Owning, Shaped, Undecided
<1>3. CASE ByHash(j.src)
  <2> DEFINE k == [j EXCEPT !.pc = "report", !.outcome = "imported"]
  <2>1. Moves(w, k)
    BY <1>3 DEF Readback
  <2>2. /\ k \in Jobs /\ k.src = j.src /\ k.made = j.made /\ k.publications = j.publications
        /\ k.outcome = "imported" /\ (k.reported <=> j.reported) /\ k.pc = "report"
    <3>1. "report" \in Points BY DEF Points
    <3> QED BY <1>0, <3>1 DEF Jobs
  <2> HIDE DEF k
  <2>3. Shaped(k) /\ ByHash(k.src)
    BY <1>0, <1>1, <1>2, <1>3, <2>2 DEF Shaped, Taking, Undecided
  <2> QED BY <1>0, <1>1, <1>2, <2>1, <2>2, <2>3, Carries DEF Taking
<1>4. CASE ~ ByHash(j.src)
  <2>1. Moves(w, Failed(j)) /\ j.pc \in Undecided
    BY <1>1, <1>4 DEF Readback, Undecided
  <2>2. /\ job' \in [Workers -> Jobs] /\ \A v \in Workers \ {w} : job'[v] = job[v]
        /\ Importing(w)'
    BY <1>0, <1>1, <1>2, <2>1, Fails
  <2> QED BY <1>0, <1>1, <2>2, StaysStill
<1> QED BY <1>3, <1>4

-----------------------------------------------------------------------------
(* The publication.                                                        *)

(* The receipt e is the next one of the chain c, and f is c with it.       *)
Follows(c, e) ==
    \/ Len(c) = 0 /\ e.kind = "archive"
    \/ Len(c) = 1 /\ e.kind = "artwork"

Grown(c, e, f) ==
    /\ f \in Chains /\ Len(f) = Len(c) + 1
    /\ \A i \in 1..Len(c) : f[i] = c[i]
    /\ f[Len(c) + 1] = e

LEMMA ChainAppend ==
  ASSUME NEW c \in Chains, NEW e \in Receipts, Follows(c, e)
  PROVE  Grown(c, e, Append(c, e))
<1>0. PICK f : f = Append(c, e)
  OBVIOUS
<1>1. c \in Seq(Receipts) /\ Len(c) \in {0, 1, 2}
  BY Empty
<1>3. /\ f \in Seq(Receipts) /\ Len(f) = Len(c) + 1
      /\ \A i \in 1..Len(c) : f[i] = c[i]
      /\ f[Len(c) + 1] = e
  BY <1>0, <1>1, AppendProperties
<1>4. CASE Len(c) = 0
  <2>1. Len(f) = 1 /\ f[1].kind = "archive"
    BY <1>3, <1>4 DEF Follows
  <2>2. Len(f) \in {0, 1, 2} /\ Len(f) # 2
    BY <2>1
  <2>3. f \in Chains
    BY <1>3, <2>1, <2>2, Zenon DEF Chains
  <2> QED BY <1>0, <1>3, <2>3 DEF Grown
<1>5. CASE Len(c) = 1
  <2>0. Len(c) # 0
    BY <1>5
  <2>1. c[1].kind = "archive"
    BY <2>0, Zenon DEF Chains
  <2>2. Len(f) = 2 /\ f[1] = c[1] /\ f[2] = e
    BY <1>3, <1>5
  <2>3. f \in Chains
    BY <1>3, <1>5, <2>1, <2>2 DEF Chains, Follows
  <2> QED BY <1>0, <1>3, <2>3 DEF Grown
<1> QED BY <1>4, <1>5 DEF Follows

(* A record with other containers and receipts, at another point.          *)
Edit(j, st, c, kind, pc) ==
    [j EXCEPT !.stages = st, !.publications = c, !.kind = kind, !.pc = pc]

LEMMA Edited ==
  ASSUME NEW j \in Jobs, NEW st \in SUBSET Kinds, NEW c \in Chains, NEW kind \in Kinds,
         NEW pc \in Points, NEW k, k = Edit(j, st, c, kind, pc)
  PROVE  /\ k \in Jobs /\ k.src = j.src /\ k.made = j.made /\ k.outcome = j.outcome
         /\ k.stages = st /\ k.publications = c /\ (k.reported <=> j.reported)
         /\ k.kind = kind /\ k.pc = pc
  BY DEF Jobs, Edit

(* The next publication of the record j, or the catalogue.                 *)
LEMMA AdvanceTyped ==
  ASSUME NEW j \in Jobs, Shaped(j), j.pc \in {"publish", "flush"}, NEW new \in BOOLEAN,
         NEW k, k = Advance(j, new)
  PROVE  /\ k \in Jobs /\ k.src = j.src /\ k.made = j.made /\ Shaped(k)
         /\ k.outcome = "none" /\ Len(k.publications) = Len(j.publications) + 1
         /\ Len(j.publications) \in {0, 1}
         /\ \A i \in 1..Len(j.publications) : k.publications[i] = j.publications[i]
         /\ k.publications[Len(j.publications) + 1].kind = j.kind
         /\ k.publications[Len(j.publications) + 1].new <=> new
         /\ \/ k.pc = "stage" /\ k.kind = "artwork" /\ j.kind = "archive"
            \/ k.pc = "catalog" /\ (j.kind = "archive" => j.src.art = NoArt)
<1> DEFINE e == Receipt(j, new)
           c == j.publications
           f == Append(c, e)
           more == j.kind = "archive" /\ j.src.art # NoArt
<1>0. /\ j.src \in Sources /\ j.outcome = "none" /\ ~ j.reported /\ c \in Chains /\ j.kind \in Kinds
      /\ Len(c) = IF j.kind = "archive" THEN 0 ELSE 1
      /\ j.kind = "artwork" => j.src.art # NoArt
  BY DEF Shaped, Taking, Undecided, Jobs
<1>1. e \in Receipts /\ e.kind = j.kind /\ (e.new <=> new)
  BY <1>0 DEF Receipt, Receipts
<1> HIDE DEF e, c, f
<1>2. /\ f \in Chains /\ Len(f) = Len(c) + 1 /\ f[Len(c) + 1] = e
      /\ \A i \in 1..Len(c) : f[i] = c[i]
  <2>1. Follows(c, e)
    BY <1>0, <1>1, KindsAre DEF Follows
  <2>2. c \in Chains /\ e \in Receipts
    BY <1>0, <1>1
  <2>3. Grown(c, e, f)
    BY <2>1, <2>2, ChainAppend, Zenon DEF f
  <2> QED BY <2>3 DEF Grown
<1>3. k = [j EXCEPT !.stages = @ \ {j.kind}, !.publications = f,
                    !.kind = IF more THEN "artwork" ELSE @,
                    !.pc = IF more THEN "stage" ELSE "catalog"]
  BY DEF Advance, e, f, c
<1>4. /\ k \in Jobs /\ k.src = j.src /\ k.made = j.made /\ k.outcome = j.outcome
      /\ k.publications = f /\ (k.reported <=> j.reported)
      /\ k.kind = IF more THEN "artwork" ELSE j.kind
      /\ k.pc = IF more THEN "stage" ELSE "catalog"
  <2>1. "stage" \in Points /\ "catalog" \in Points /\ "artwork" \in Kinds
    BY DEF Points, Kinds
  <2>2. PICK kk, pp : /\ kk = IF more THEN "artwork" ELSE j.kind
                      /\ pp = IF more THEN "stage" ELSE "catalog"
    OBVIOUS
  <2> HIDE DEF more
  <2>3. kk \in Kinds /\ pp \in Points
    BY <1>0, <2>1, <2>2
  <2>4. k = [j EXCEPT !.stages = @ \ {j.kind}, !.publications = f, !.kind = kk, !.pc = pp]
    BY <1>3, <2>2
  <2>5. /\ k \in Jobs /\ k.src = j.src /\ k.made = j.made /\ k.outcome = j.outcome
        /\ k.publications = f /\ (k.reported <=> j.reported) /\ k.kind = kk /\ k.pc = pp
    <3>0. j.stages \in SUBSET Kinds
      BY Zenon DEF Jobs
    <3>1. PICK st : st = j.stages \ {j.kind} /\ st \in SUBSET Kinds
      BY <3>0
    <3>2. k = Edit(j, st, f, kk, pp)
      BY <2>4, <3>1 DEF Edit
    <3>3. f \in Chains
      BY <1>2
    <3> QED BY <2>3, <3>1, <3>2, <3>3, Edited
  <2> QED BY <2>2, <2>5
<1>5. Len(c) \in {0, 1}
  BY <1>0
<1>6. Shaped(k)
  <2>1. CASE more
    <3>1. /\ k.pc = "stage" /\ k.kind = "artwork" /\ Len(k.publications) = 1 /\ k.src \in Sources
          /\ k.src.art # NoArt /\ k.outcome = "none" /\ ~ k.reported
      BY <1>0, <1>2, <1>4, <2>1
    <3> QED BY <3>1 DEF Shaped, Taking, Undecided
  <2>2. CASE ~ more
    <3>0. Len(f) = 2 => j.kind = "artwork"
      BY <1>0, <1>2, KindsAre
    <3>1. /\ k.pc = "catalog" /\ k.src \in Sources /\ k.outcome = "none" /\ ~ k.reported
          /\ Len(k.publications) = 2 => k.src.art # NoArt
      BY <1>0, <1>4, <2>2, <3>0
    <3> QED BY <3>1 DEF Shaped, Taking, Undecided
  <2> QED BY <2>1, <2>2
<1>7. \/ k.pc = "stage" /\ k.kind = "artwork" /\ j.kind = "archive"
      \/ k.pc = "catalog" /\ (j.kind = "archive" => j.src.art = NoArt)
  BY <1>4
<1> QED BY <1>0, <1>1, <1>2, <1>4, <1>5, <1>6, <1>7 DEF c

(* A file is published: made and flushed, or found and durable.            *)
LEMMA Advances ==
  ASSUME ImportsInv, NEW w \in Workers, NEW new \in BOOLEAN, Moves(w, Advance(job[w], new)),
         \/ new /\ job[w].pc = "flush"
         \/ ~new /\ job[w].pc = "publish",
         NEW p, p = File(job[w].src, job[w].kind), Durable(p)',
         \A q \in Paths : Durable(q) => Durable(q)',
         mayBe' \in [Paths -> SUBSET BOOLEAN], UNCHANGED <<rows, there, custody, fenced>>
  PROVE  ImportsInv'
<1> DEFINE j == job[w]
           c == j.publications
           n == Len(c)
<1>0. /\ ImportsTyped /\ Importing(w) /\ j \in Jobs /\ Shaped(j) /\ j.kind \in Kinds
      /\ Owning(j) => custody = w
      /\ fenced \in BOOLEAN /\ there \subseteq Paths
  BY Here
<1>1. PICK k : k = Advance(j, new)
  OBVIOUS
<1>2. /\ k \in Jobs /\ k.src = j.src /\ k.made = j.made /\ Shaped(k)
      /\ k.outcome = "none" /\ Len(k.publications) = n + 1 /\ n \in {0, 1}
      /\ \A i \in 1..n : k.publications[i] = c[i]
      /\ k.publications[n + 1].kind = j.kind
      /\ k.publications[n + 1].new <=> new
      /\ \/ k.pc = "stage" /\ k.kind = "artwork" /\ j.kind = "archive"
         \/ k.pc = "catalog" /\ (j.kind = "archive" => j.src.art = NoArt)
  BY <1>0, <1>1, AdvanceTyped
<1>3. job' \in [Workers -> Jobs] /\ job'[w] = k /\ \A v \in Workers \ {w} : job'[v] = job[v]
  <2>1. Moves(w, k) BY <1>1
  <2> QED BY <1>0, <1>2, <2>1, Moved
<1>4. custody = w /\ j.pc \in Taking /\ j.src \in Sources /\ j.outcome = "none"
  BY <1>0 DEF Owning, Taking, Shaped, Undecided
<1>5. Traced(w)'
  <2>0. Traced(w)
    BY <1>0 DEF Importing
  <2>1. ASSUME NEW i \in 1..Len(k.publications), k.publications[i].new
        PROVE  File(k.src, k.publications[i].kind) \in k.made
    <3>1. CASE i \in 1..n
      <4>1. k.publications[i] = c[i]
        BY <1>2, <3>1
      <4>2. File(j.src, c[i].kind) \in j.made
        BY <2>0, <2>1, <3>1, <4>1 DEF Traced
      <4> QED BY <1>2, <4>1, <4>2
    <3>2. CASE i = n + 1
      BY <1>2, <2>0, <2>1, <3>2 DEF Traced
    <3> QED BY <1>2, <3>1, <3>2
  <2>2. ASSUME ~fenced, NEW q \in k.made \cap there PROVE Accounted(k, q)
    <3>1. Accounted(j, q)
      BY <1>2, <1>4, <2>0, <2>2 DEF Traced
    <3>2. CASE j.pc = "flush" /\ q = File(j.src, j.kind)
      <4>1. n + 1 \in 1..Len(k.publications) /\ k.publications[n + 1].new
        BY <1>2, <3>2
      <4> QED BY <1>2, <3>2, <4>1 DEF Accounted
    <3>3. CASE \E i \in 1..n : c[i].new /\ q = File(j.src, c[i].kind)
      <4>1. PICK i \in 1..n : c[i].new /\ q = File(j.src, c[i].kind)
        BY <3>3
      <4>2. i \in 1..Len(k.publications) /\ k.publications[i] = c[i]
        BY <1>2
      <4> QED BY <1>2, <4>1, <4>2 DEF Accounted
    <3> QED BY <3>1, <3>2, <3>3 DEF Accounted
  <2>3. k.pc # "flush"
    BY <1>2
  <2> QED BY <1>3, <2>1, <2>2, <2>3 DEF Traced
<1>6. Truthful(w)'
  BY <1>2, <1>3 DEF Truthful
<1>7. Backed(w)'
  <2>1. CASE k.pc = "stage"
    <3>1. p = File(k.src, "archive") /\ Durable(p)'
      BY <1>2, <2>1
    <3> QED BY <1>3, <2>1, <3>1 DEF Backed, Durable
  <2>2. CASE k.pc = "catalog"
    <3>1. ASSUME NEW q \in Files(k.src) PROVE Durable(q)'
      <4>1. q \in Paths /\ (q = File(j.src, "archive") \/ (q = File(j.src, "artwork") /\ j.src.art # NoArt))
        BY <1>2, <1>4, <3>1, FilesAre
      <4>2. CASE j.kind = "archive"
        BY <1>2, <2>2, <4>1, <4>2
      <4>3. CASE j.kind = "artwork"
        <5>1. \A a : a = File(j.src, "archive") => Durable(a)
          BY <1>0, <1>4, <4>3 DEF Importing, Backed
        <5> QED BY <4>1, <4>3, <5>1
      <4> QED BY <1>0, <4>2, <4>3, KindsAre
    <3> QED BY <1>3, <2>2, <3>1 DEF Backed, Durable, Taking
  <2> QED BY <1>2, <2>1, <2>2
<1>8. Importing(w)'
  BY <1>2, <1>3, <1>4, <1>5, <1>6, <1>7 DEF Importing
<1>9. RowHasFiles' /\ OneRow'
  BY StillBacked
<1> QED BY <1>0, <1>3, <1>4, <1>8, <1>9, ChangesFiles

(* The route of the file that is published is durable: what is there       *)
(* under that name is durable too.                                         *)
LEMMA PreparedDisk ==
  ASSUME ImportsInv, NEW w \in Workers, job[w].pc = "publish",
         NEW p, p = File(job[w].src, job[w].kind), NEW m, m = Prepared(job[w])
  PROVE  /\ m \in [Paths -> SUBSET BOOLEAN] /\ p \in Paths
         /\ \A q \in Paths : Durable(q) => m[q] = {TRUE}
         /\ p \in there => m[p] = {TRUE}
<1> DEFINE j == job[w]
<1>0. /\ ImportsTyped /\ Importing(w) /\ Shaped(j) /\ j.kind \in Kinds
      /\ there \subseteq Paths /\ mayBe \in [Paths -> SUBSET BOOLEAN]
  BY Here
<1>1. j.src \in Sources /\ (j.kind = "artwork" => j.src.art # NoArt)
  BY <1>0 DEF Shaped, Taking
<1>2. p \in Paths
  BY <1>0, <1>1, FilesAre, KindsAre
<1>3. CASE j.kind = "archive"
  <2>1. PICK d : d = Directory(p)
    OBVIOUS
  <2>2. m = Flushed(d)
    BY <1>3, <2>1 DEF Prepared
  <2>3. \A q \in Paths : m[q] = IF Directory(q) = d THEN {(q \in there)} ELSE mayBe[q]
    BY <2>2, Zenon DEF Flushed
  <2>4. m \in [Paths -> SUBSET BOOLEAN]
    BY <1>0, <2>2 DEF Flushed
  <2>5. ASSUME NEW q \in Paths, q \in there, Directory(q) = d PROVE m[q] = {TRUE}
    <3>1. m[q] = {(q \in there)}
      BY <2>3, <2>5, Zenon
    <3> QED BY <2>5, <3>1
  <2>6. ASSUME NEW q \in Paths, Durable(q) PROVE m[q] = {TRUE}
    <3>1. CASE Directory(q) = d
      BY <2>5, <2>6, <3>1 DEF Durable
    <3>2. CASE Directory(q) # d
      <4>1. m[q] = mayBe[q]
        BY <2>3, <3>2, Zenon
      <4> QED BY <2>6, <4>1 DEF Durable
    <3> QED BY <3>1, <3>2
  <2> QED BY <1>2, <2>1, <2>4, <2>5, <2>6
<1>4. CASE j.kind = "artwork"
  <2>1. m = mayBe
    BY <1>4 DEF Prepared
  <2>2. p \in there => Durable(p)
    BY <1>0, <1>4 DEF Importing, Backed
  <2> QED BY <1>0, <1>2, <2>1, <2>2 DEF Durable
<1> QED BY <1>0, <1>3, <1>4, KindsAre

LEMMA ReuseKeeps == ASSUME ImportsInv, NEW w \in Workers, Reuse(w) PROVE ImportsInv'
<1>1. PICK p : p = File(job[w].src, job[w].kind)
  OBVIOUS
<1>2. /\ job[w].pc = "publish" /\ p \in there /\ mayBe' = Prepared(job[w])
      /\ Moves(w, Advance(job[w], FALSE)) /\ UNCHANGED <<rows, there, custody, fenced>>
  BY <1>1 DEF Reuse
<1>3. /\ mayBe' \in [Paths -> SUBSET BOOLEAN] /\ p \in Paths
      /\ \A q \in Paths : Durable(q) => mayBe'[q] = {TRUE}
      /\ p \in there => mayBe'[p] = {TRUE}
  BY <1>1, <1>2, PreparedDisk
<1>4. Durable(p)' /\ \A q \in Paths : Durable(q) => Durable(q)'
  BY <1>2, <1>3 DEF Durable
<1> QED BY <1>1, <1>2, <1>3, <1>4, Advances

(* The name of the new file is durable only after the flush.               *)
LEMMA RenamedDisk ==
  ASSUME ImportsInv, NEW w \in Workers, job[w].pc = "publish",
         NEW p, p = File(job[w].src, job[w].kind), p \notin there,
         there' \in {there, there \cup {p}},
         mayBe' = [Prepared(job[w]) EXCEPT ![p] = BOOLEAN]
  PROVE  /\ p \in Paths /\ there' \subseteq Paths /\ mayBe' \in [Paths -> SUBSET BOOLEAN]
         /\ \A q \in Paths : Durable(q) => Durable(q)'
<1>0. there \subseteq Paths
  BY Here
<1>1. PICK m : m = Prepared(job[w])
  OBVIOUS
<1>2. /\ m \in [Paths -> SUBSET BOOLEAN] /\ p \in Paths
      /\ \A q \in Paths : Durable(q) => m[q] = {TRUE}
  BY <1>1, PreparedDisk
<1>3. mayBe' = [m EXCEPT ![p] = BOOLEAN]
  BY <1>1
<1>4. /\ mayBe' \in [Paths -> SUBSET BOOLEAN]
      /\ \A q \in Paths : q # p => mayBe'[q] = m[q]
  BY <1>2, <1>3, ChangedDisk
<1> QED BY <1>0, <1>2, <1>4 DEF Durable

(* The publication of w that is under way: the rename is done.             *)
LEMMA RenameKeeps ==
  ASSUME ImportsInv, NEW w \in Workers, job[w].pc = "publish",
         NEW p, p = File(job[w].src, job[w].kind), p \notin there, there' = there \cup {p},
         mayBe' = [Prepared(job[w]) EXCEPT ![p] = BOOLEAN],
         NEW own, own = [job[w] EXCEPT !.made = @ \cup {p}],
         Moves(w, [own EXCEPT !.pc = "flush"]), UNCHANGED <<rows, fenced, custody>>
  PROVE  ImportsInv'
<1> DEFINE j == job[w]
           c == j.publications
<1>0. /\ ImportsTyped /\ Importing(w) /\ j \in Jobs /\ Shaped(j) /\ j.kind \in Kinds
      /\ Owning(j) => custody = w
      /\ fenced \in BOOLEAN
  BY Here
<1>1. /\ p \in Paths /\ there' \subseteq Paths /\ mayBe' \in [Paths -> SUBSET BOOLEAN]
      /\ \A q \in Paths : Durable(q) => Durable(q)'
  BY RenamedDisk
<1>2. /\ own \in Jobs /\ own.src = j.src /\ own.made = j.made \cup {p} /\ own.outcome = j.outcome
      /\ own.publications = c /\ (own.reported <=> j.reported) /\ own.kind = j.kind
  BY <1>0, <1>1 DEF Jobs
<1>3. PICK k : k = [own EXCEPT !.pc = "flush"]
  OBVIOUS
<1>4. /\ k \in Jobs /\ k.src = own.src /\ k.made = own.made /\ k.outcome = own.outcome
      /\ k.publications = own.publications /\ (k.reported <=> own.reported) /\ k.kind = own.kind
      /\ k.pc = "flush"
  <2>1. "flush" \in Points BY DEF Points
  <2> QED BY <1>2, <1>3, <2>1 DEF Jobs
<1>5. /\ k \in Jobs /\ k.src = j.src /\ k.made = j.made \cup {p} /\ k.outcome = j.outcome
      /\ k.publications = c /\ (k.reported <=> j.reported) /\ k.kind = j.kind
      /\ k.pc = "flush"
  BY <1>2, <1>4
<1>6. job' \in [Workers -> Jobs] /\ job'[w] = k /\ \A v \in Workers \ {w} : job'[v] = job[v]
  <2>1. Moves(w, k) BY <1>3
  <2> QED BY <1>0, <1>5, <2>1, Moved
<1>7. custody = w /\ j.outcome = "none"
  BY <1>0 DEF Owning, Shaped, Undecided, Taking
<1>8. Shaped(k)
  BY <1>0, <1>5 DEF Shaped, Taking, Undecided
<1>9. Traced(w)'
  <2>0. Traced(w)
    BY <1>0 DEF Importing
  <2>1. \A i \in 1..Len(c) : c[i].new => File(k.src, c[i].kind) \in k.made
    BY <1>5, <2>0 DEF Traced
  <2>2. p \in k.made /\ p \in there' /\ p = File(k.src, k.kind)
    BY <1>5
  <2>3. ASSUME ~fenced, NEW q \in k.made \cap there' PROVE Accounted(k, q)
    <3>1. CASE q = p
      BY <1>5, <2>2, <3>1 DEF Accounted
    <3>2. CASE q # p
      <4>1. Accounted(j, q)
        BY <1>5, <1>7, <2>0, <2>3, <3>2 DEF Traced
      <4> QED BY <1>5, <4>1 DEF Accounted
    <3> QED BY <3>1, <3>2
  <2> QED BY <1>5, <1>6, <2>1, <2>2, <2>3 DEF Traced
<1>10. Truthful(w)'
  BY <1>5, <1>6, <1>7 DEF Truthful
<1>11. Backed(w)'
  <2>1. PICK a : a = File(j.src, "archive")
    OBVIOUS
  <2>2. j.kind = "artwork" => Durable(a)'
    <3>1. a \in Paths
      BY <1>0, <2>1, FilesAre DEF Shaped
    <3>2. j.kind = "artwork" => Durable(a)
      BY <1>0, <2>1 DEF Importing, Backed, Taking
    <3> QED BY <1>1, <3>1, <3>2
  <2>3. a = File(k.src, "archive")
    BY <1>5, <2>1
  <2> QED BY <1>5, <1>6, <2>2, <2>3 DEF Backed, Durable
<1>12. Importing(w)'
  BY <1>6, <1>7, <1>8, <1>9, <1>10, <1>11 DEF Importing
<1>13. RowHasFiles' /\ OneRow'
  BY <1>1, StillBacked
<1> QED BY <1>0, <1>1, <1>6, <1>7, <1>12, <1>13, ChangesFiles

(* The owner of the publication is held.                                   *)
Dropped(j, st) == [j EXCEPT !.stages = st, !.held = TRUE]

(* A publication that fails at w, with the fence raised.                   *)
LEMMA PublicationFails ==
  ASSUME ImportsInv, NEW w \in Workers, job[w].pc \in {"publish", "flush"},
         NEW own \in Jobs, own.src = job[w].src, own.publications = job[w].publications,
         own.reported <=> job[w].reported, job[w].made \subseteq own.made,
         NEW st \in SUBSET Kinds,
         Moves(w, Failed(Dropped(own, st))), fenced' = TRUE,
         there' \subseteq Paths, mayBe' \in [Paths -> SUBSET BOOLEAN],
         \A q \in Paths : Durable(q) => Durable(q)', UNCHANGED <<rows, custody>>
  PROVE  ImportsInv'
<1> DEFINE j == job[w]
<1>0. /\ ImportsTyped /\ j \in Jobs /\ (Owning(j) => custody = w)
  BY Here
<1>1. PICK k : k = Dropped(own, st)
  OBVIOUS
<1>2. /\ k \in Jobs /\ k.src = own.src /\ k.made = own.made /\ k.publications = own.publications
      /\ k.reported <=> own.reported
  BY <1>1 DEF Jobs, Dropped
<1>3. custody = w
  BY <1>0 DEF Owning
<1>4. /\ job' \in [Workers -> Jobs] /\ \A v \in Workers \ {w} : job'[v] = job[v]
      /\ Importing(w)'
  <2>1. Moves(w, Failed(k)) /\ j.pc \in Undecided
    BY <1>1 DEF Undecided, Taking
  <2>2. k.src = j.src /\ k.publications = j.publications /\ (k.reported <=> j.reported)
        /\ j.made \subseteq k.made
    BY <1>2
  <2> QED BY <1>2, <1>3, <2>1, <2>2, Fails
<1>5. RowHasFiles' /\ OneRow'
  BY StillBacked
<1> QED BY <1>3, <1>4, <1>5, ChangesFiles

LEMMA PublishKeeps == ASSUME ImportsInv, NEW w \in Workers, Publish(w) PROVE ImportsInv'
<1> DEFINE j == job[w]
<1>0. /\ ImportsTyped /\ j \in Jobs /\ (Owning(j) => custody = w)
      /\ there \subseteq Paths /\ mayBe \in [Paths -> SUBSET BOOLEAN]
      /\ custody \in Workers \cup {NoOne}
  BY Here
<1>1. PICK p, own, m : /\ p = File(j.src, j.kind) /\ own = [j EXCEPT !.made = @ \cup {p}]
                       /\ m = [Prepared(j) EXCEPT ![p] = BOOLEAN]
  OBVIOUS
<1>2. /\ j.pc = "publish" /\ p \notin there /\ UNCHANGED <<rows, custody>>
      /\ \/ /\ there' = there \cup {p} /\ mayBe' = m
            /\ Moves(w, [own EXCEPT !.pc = "flush"]) /\ UNCHANGED fenced
         \/ /\ there' \in {there, there \cup {p}} /\ mayBe' = m /\ fenced' = TRUE
            /\ Moves(w, Failed([own EXCEPT !.stages = @ \ {j.kind}, !.held = TRUE]))
         \/ /\ fenced' = TRUE /\ Moves(w, Failed(j)) /\ UNCHANGED <<there, mayBe>>
  BY <1>1 DEF Publish
<1>3. CASE /\ there' = there \cup {p} /\ mayBe' = m
           /\ Moves(w, [own EXCEPT !.pc = "flush"]) /\ UNCHANGED fenced
  <2>1. mayBe' = [Prepared(j) EXCEPT ![p] = BOOLEAN]
    BY <1>1, <1>3
  <2> QED BY <1>1, <1>2, <1>3, <2>1, RenameKeeps
<1>4. CASE /\ there' \in {there, there \cup {p}} /\ mayBe' = m /\ fenced' = TRUE
           /\ Moves(w, Failed([own EXCEPT !.stages = @ \ {j.kind}, !.held = TRUE]))
  <2>0. mayBe' = [Prepared(j) EXCEPT ![p] = BOOLEAN]
    BY <1>1, <1>4
  <2>1. /\ p \in Paths /\ there' \subseteq Paths /\ mayBe' \in [Paths -> SUBSET BOOLEAN]
        /\ \A q \in Paths : Durable(q) => Durable(q)'
    BY <1>1, <1>2, <1>4, <2>0, RenamedDisk
  <2>2. /\ own \in Jobs /\ own.src = j.src /\ own.made = j.made \cup {p}
        /\ own.publications = j.publications /\ (own.reported <=> j.reported)
        /\ own.stages \in SUBSET Kinds
    BY <1>0, <1>1, <2>1 DEF Jobs
  <2>3. PICK st : st = own.stages \ {j.kind} /\ st \in SUBSET Kinds
    BY <2>2
  <2>4. Moves(w, Failed(Dropped(own, st)))
    BY <1>4, <2>3 DEF Dropped
  <2>5. j.made \subseteq own.made
    BY <2>2
  <2> QED BY <1>2, <1>4, <2>1, <2>2, <2>3, <2>4, <2>5, PublicationFails
<1>5. CASE fenced' = TRUE /\ Moves(w, Failed(j)) /\ UNCHANGED <<there, mayBe>>
  <2>1. custody = w /\ j.pc \in Undecided /\ j.pc # "flush"
    BY <1>0, <1>2 DEF Owning, Undecided, Taking
  <2>2. /\ job' \in [Workers -> Jobs] /\ \A v \in Workers \ {w} : job'[v] = job[v]
        /\ Importing(w)'
    BY <1>0, <1>2, <1>5, <2>1, Fails
  <2> QED BY <1>0, <1>2, <1>5, <2>2, StaysStill
<1> QED BY <1>2, <1>3, <1>4, <1>5

LEMMA FlushKeeps == ASSUME ImportsInv, NEW w \in Workers, Flush(w) PROVE ImportsInv'
<1> DEFINE j == job[w]
<1>0. /\ ImportsTyped /\ Importing(w) /\ j \in Jobs /\ Shaped(j) /\ j.kind \in Kinds
      /\ there \subseteq Paths /\ mayBe \in [Paths -> SUBSET BOOLEAN]
  BY Here
<1>1. PICK p : p = File(j.src, j.kind)
  OBVIOUS
<1>2. /\ j.pc = "flush" /\ UNCHANGED <<rows, there, custody>>
      /\ \/ /\ mayBe' = Flushed(Directory(p)) /\ Moves(w, Advance(j, TRUE)) /\ UNCHANGED fenced
         \/ /\ fenced' = TRUE /\ UNCHANGED mayBe
            /\ Moves(w, Failed([j EXCEPT !.stages = @ \ {j.kind}, !.held = TRUE]))
  BY <1>1 DEF Flush
<1>3. p \in there
  BY <1>0, <1>1, <1>2 DEF Importing, Traced
<1>4. CASE mayBe' = Flushed(Directory(p)) /\ Moves(w, Advance(j, TRUE)) /\ UNCHANGED fenced
  <2>1. /\ mayBe' \in [Paths -> SUBSET BOOLEAN] /\ p \in Paths
        /\ \A q \in Paths : Durable(q) => Durable(q)'
        /\ Durable(p)'
    BY <1>0, <1>2, <1>3, <1>4, FlushedDisk
  <2> QED BY <1>1, <1>2, <1>4, <2>1, Advances
<1>5. CASE /\ fenced' = TRUE /\ UNCHANGED mayBe
           /\ Moves(w, Failed([j EXCEPT !.stages = @ \ {j.kind}, !.held = TRUE]))
  <2>0. j.stages \in SUBSET Kinds
    BY <1>0, Zenon DEF Jobs
  <2>1. PICK st : st = j.stages \ {j.kind} /\ st \in SUBSET Kinds
    BY <2>0
  <2>2. Moves(w, Failed(Dropped(j, st)))
    BY <1>5, <2>1 DEF Dropped
  <2>3. \A q \in Paths : Durable(q) => Durable(q)'
    BY <1>2, <1>5 DEF Durable
  <2> QED BY <1>0, <1>2, <1>5, <2>1, <2>2, <2>3, PublicationFails
<1> QED BY <1>2, <1>4, <1>5

-----------------------------------------------------------------------------
(* The catalogue.                                                          *)

(* A row is created for files that are durable, once for a checksum.       *)
LEMMA RowCreated ==
  ASSUME ImportsInv, NEW w \in Workers, job[w].pc = "catalog", UNCHANGED <<there, mayBe>>,
         NEW d, d = BeforePublish(job[w].src),
         \/ rows' = rows
         \/ d = "none" /\ rows' = rows \cup {job[w].src}
  PROVE  RowHasFiles' /\ OneRow' /\ rows' \subseteq Sources
<1> DEFINE s == job[w].src
<1>0. /\ rows \subseteq Sources /\ RowHasFiles /\ OneRow /\ Shaped(job[w]) /\ Backed(w)
  BY DEF ImportsInv, ImportsTyped, Importing
<1>1. s \in Sources /\ \A p \in Files(s) : Durable(p)
  BY <1>0 DEF Shaped, Backed
<1>2. d = "none" => \A r \in rows : r.hash # s.hash
  <2>1. d = "none" => ~ ByHash(s)
    BY Decision
  <2> QED BY <2>1 DEF ByHash
<1>3. RowHasFiles'
  BY <1>0, <1>1 DEF RowHasFiles, Durable
<1>4. OneRow'
  BY <1>0, <1>2 DEF OneRow
<1> QED BY <1>0, <1>1, <1>3, <1>4

LEMMA CatalogKeeps == ASSUME ImportsInv, NEW w \in Workers, Catalog(w) PROVE ImportsInv'
<1> DEFINE j == job[w]
           s == j.src
           c == j.publications
<1>0. /\ ImportsTyped /\ Importing(w) /\ j \in Jobs /\ Shaped(j) /\ j.kind \in Kinds
      /\ Owning(j) => custody = w
      /\ fenced \in BOOLEAN /\ there \subseteq Paths /\ mayBe \in [Paths -> SUBSET BOOLEAN]
  BY Here
<1>1. PICK d, o : d = BeforePublish(s) /\ o = IF d = "none" THEN "imported" ELSE d
  OBVIOUS
<1>2. /\ j.pc = "catalog" /\ UNCHANGED <<there, mayBe, custody>>
      /\ \/ /\ rows' = IF d = "none" THEN rows \cup {s} ELSE rows
            /\ Moves(w, [j EXCEPT !.pc = "report", !.outcome = o]) /\ UNCHANGED fenced
         \/ /\ rows' \in {rows, IF d = "none" THEN rows \cup {s} ELSE rows}
            /\ fenced' = TRUE /\ Moves(w, [j EXCEPT !.pc = "readback"])
  BY <1>1 DEF Catalog, disk
<1>3. /\ d \in {"duplicate", "conflict", "none"}
      /\ d = "duplicate" => ByHash(s)
      /\ d = "conflict" => \E r \in rows : r.uuid = s.uuid /\ r.hash # s.hash
  BY <1>1, Decision
<1>4. /\ custody = w /\ s \in Sources /\ j.outcome = "none" /\ ~ j.reported
      /\ Len(c) = 2 => s.art # NoArt
  BY <1>0, <1>2 DEF Owning, Shaped, Undecided
<1>5. RowHasFiles' /\ OneRow' /\ rows' \subseteq Sources
  <2>1. rows' = rows \/ (d = "none" /\ rows' = rows \cup {s})
    BY <1>2
  <2> QED BY <1>1, <1>2, <2>1, RowCreated
<1>6. ASSUME NEW k \in Jobs, Moves(w, k), k.src = s, k.made = j.made, k.publications = c,
             k.pc \in {"report", "readback"}, Shaped(k), fenced' \in BOOLEAN, fenced => fenced',
             k.outcome \in {"none", "failed"} => j.outcome \in {"none", "failed"}, Truthful(w)'
      PROVE  ImportsInv'
  <2>1. job' \in [Workers -> Jobs] /\ job'[w] = k /\ \A v \in Workers \ {w} : job'[v] = job[v]
    BY <1>0, <1>6, Moved
  <2>2. Traced(w)'
    <3>1. Traced(w)
      BY <1>0 DEF Importing
    <3> QED BY <1>2, <1>6, <2>1, <3>1, TracedStays
  <2>3. Backed(w)'
    BY <1>6, <2>1 DEF Backed, Taking
  <2>4. Importing(w)'
    BY <1>2, <1>4, <1>6, <2>1, <2>2, <2>3 DEF Importing
  <2> QED BY <1>0, <1>2, <1>4, <1>5, <1>6, <2>1, <2>4, Whole
<1>7. CASE /\ rows' = IF d = "none" THEN rows \cup {s} ELSE rows
           /\ Moves(w, [j EXCEPT !.pc = "report", !.outcome = o]) /\ UNCHANGED fenced
  <2>1. PICK k : k = [j EXCEPT !.pc = "report", !.outcome = o]
    OBVIOUS
  <2>2. o \in Answers
    BY <1>1, <1>3 DEF Answers
  <2>3. /\ k \in Jobs /\ k.src = s /\ k.made = j.made /\ k.publications = c
        /\ k.outcome = o /\ (k.reported <=> j.reported) /\ k.pc = "report"
    <3>1. "report" \in Points BY DEF Points
    <3> QED BY <1>0, <2>1, <2>2, <3>1 DEF Jobs, Answers
  <2>4. Moves(w, k) BY <1>7, <2>1
  <2>5. Shaped(k)
    <3>1. k.src \in Sources /\ ~k.reported /\ (Len(k.publications) = 2 => k.src.art # NoArt)
      BY <1>4, <2>3
    <3> QED BY <2>2, <2>3, <3>1 DEF Shaped, Taking, Undecided, Answers
  <2>6. Truthful(w)'
    <3>1. job'[w] = k
      BY <1>0, <2>3, <2>4, Moved
    <3>2. /\ o \in {"imported", "duplicate"} => \E r \in rows' : r.hash = s.hash
          /\ o = "conflict" => \E r \in rows' : r.uuid = s.uuid /\ r.hash # s.hash
      BY <1>1, <1>3, <1>7 DEF ByHash
    <3> QED BY <2>3, <3>1, <3>2 DEF Truthful, ByHash
  <2>7. k.outcome \notin {"none", "failed"}
    BY <2>2, <2>3 DEF Answers
  <2> QED BY <1>0, <1>6, <1>7, <2>3, <2>4, <2>5, <2>6, <2>7
<1>8. CASE fenced' = TRUE /\ Moves(w, [j EXCEPT !.pc = "readback"])
  <2>1. PICK k : k = [j EXCEPT !.pc = "readback"]
    OBVIOUS
  <2>3. /\ k \in Jobs /\ k.src = s /\ k.made = j.made /\ k.publications = c
        /\ k.outcome = j.outcome /\ (k.reported <=> j.reported) /\ k.pc = "readback"
    <3>1. "readback" \in Points BY DEF Points
    <3> QED BY <1>0, <2>1, <3>1 DEF Jobs
  <2>4. Moves(w, k) BY <1>8, <2>1
  <2>5. Shaped(k)
    <3>1. /\ k.src \in Sources /\ ~k.reported /\ (Len(k.publications) = 2 => k.src.art # NoArt)
          /\ k.outcome = "none"
      BY <1>4, <2>3
    <3> QED BY <2>3, <3>1 DEF Shaped, Taking, Undecided
  <2>6. Truthful(w)'
    <3>1. job'[w] = k
      BY <1>0, <2>3, <2>4, Moved
    <3> QED BY <1>4, <2>3, <3>1 DEF Truthful
  <2> QED BY <1>6, <1>4, <1>8, <2>3, <2>4, <2>5, <2>6
<1> QED BY <1>2, <1>7, <1>8

-----------------------------------------------------------------------------
(* The compensation.                                                       *)

(* The chain f is c without its last receipt e.                            *)
Shrunk(c, e, f) ==
    /\ f \in Chains /\ Len(c) \in {1, 2} /\ Len(f) = Len(c) - 1
    /\ \A i \in 1..Len(f) : f[i] = c[i]
    /\ e = c[Len(c)] /\ e \in Receipts

LEMMA Shorter ==
  ASSUME NEW c, NEW e, NEW f, Shrunk(c, e, f)
  PROVE  Len(f) \in {0, 1} /\ Len(f) # 2
<1>1. PICK n, m : n = Len(c) /\ m = Len(f)
  OBVIOUS
<1>2. Len(c) \in {1, 2} /\ Len(f) = Len(c) - 1
  BY Zenon DEF Shrunk
<1>3. n \in {1, 2} /\ m = n - 1
  BY <1>1, <1>2, Zenon
<1>4. m \in {0, 1} /\ m # 2
  BY <1>3
<1> QED BY <1>1, <1>4, Zenon

LEMMA ChainFront ==
  ASSUME NEW c \in Chains, c # <<>>
  PROVE  Shrunk(c, Last(c), Front(c))
<1>0. c \in Seq(Receipts) /\ Len(c) \in {0, 1, 2} /\ Len(c) # 0
  BY Empty
<1>1. PICK n : n = Len(c) /\ n \in {1, 2}
  BY <1>0
<1>2. PICK f : f = SubSeq(c, 1, n - 1)
  OBVIOUS
<1>3. \A i \in 1..n : c[i] \in Receipts
  BY <1>0, <1>1, ElementOfSeq
<1>4. /\ f \in Seq(Receipts) /\ Len(f) = n - 1
      /\ \A i \in 1..(n - 1) : f[i] = c[i]
  <2>1. 1 \in Int /\ n - 1 \in Int /\ \A i \in 1..(n - 1) : c[i] \in Receipts
    BY <1>1, <1>3
  <2>2. /\ SubSeq(c, 1, n - 1) \in Seq(Receipts)
        /\ Len(SubSeq(c, 1, n - 1)) = IF 1 <= n - 1 THEN n - 1 - 1 + 1 ELSE 0
        /\ \A i \in 1 .. (n - 1 - 1 + 1) : SubSeq(c, 1, n - 1)[i] = c[1 + i - 1]
    BY <2>1, SubSeqProperties
  <2> QED BY <1>1, <1>2, <2>2
<1>5. f \in Chains
  <2>1. c[1].kind = "archive"
    BY <1>0, Zenon DEF Chains
  <2>2. Len(f) \in {0, 1, 2} /\ Len(f) # 2 /\ (Len(f) # 0 => f[1] = c[1])
    BY <1>1, <1>4
  <2> QED BY <1>4, <2>1, <2>2, Zenon DEF Chains
<1>6. Front(c) = f /\ Last(c) = c[n]
  BY <1>1, <1>2 DEF Front, Last
<1> QED BY <1>1, <1>3, <1>4, <1>5, <1>6 DEF Shrunk

(* The last publication leaves the record j.                               *)
Pop(j) == [j EXCEPT !.publications = Front(@), !.kind = Last(j.publications).kind]

LEMMA Popped ==
  ASSUME NEW j \in Jobs, j.publications # <<>>, NEW k, k = Pop(j)
  PROVE  /\ k \in Jobs /\ k.src = j.src /\ k.made = j.made /\ k.outcome = j.outcome
         /\ (k.reported <=> j.reported) /\ k.pc = j.pc
         /\ Shrunk(j.publications, Last(j.publications), k.publications)
<1>1. PICK c, e, f : c = j.publications /\ e = Last(c) /\ f = Front(c)
  OBVIOUS
<1>2. c \in Chains /\ c # <<>>
  BY <1>1 DEF Jobs
<1>3. Shrunk(c, e, f)
  BY <1>1, <1>2, ChainFront, Zenon
<1>4. PICK kind : kind = e.kind /\ kind \in Kinds
  BY <1>3 DEF Shrunk, Receipts
<1>5. f \in Chains
  BY <1>3 DEF Shrunk
<1>6. k = [j EXCEPT !.publications = f, !.kind = kind]
  BY <1>1, <1>4 DEF Pop
<1>7. /\ k \in Jobs /\ k.src = j.src /\ k.made = j.made /\ k.outcome = j.outcome
      /\ (k.reported <=> j.reported) /\ k.pc = j.pc /\ k.publications = f
  BY <1>4, <1>5, <1>6 DEF Jobs
<1> QED BY <1>1, <1>3, <1>7

(* A receipt goes with its file, or without a file.                        *)
LEMMA TracedPops ==
  ASSUME NEW w \in Workers, Traced(w), NEW k, job'[w] = k, k.src = job[w].src,
         k.made = job[w].made, k.outcome = job[w].outcome, k.pc # "flush", job[w].pc # "flush",
         NEW e, Shrunk(job[w].publications, e, k.publications), fenced => fenced',
         \/ fenced'
         \/ k.outcome \notin {"none", "failed"}
         \/ ~e.new /\ there' = there
         \/ there' = there \ {File(k.src, e.kind)}
  PROVE  Traced(w)'
<1> DEFINE j == job[w]
           c == j.publications
           f == k.publications
<1>1. /\ Len(c) \in {1, 2} /\ Len(f) = Len(c) - 1 /\ e = c[Len(c)]
      /\ \A i \in 1..Len(f) : f[i] = c[i] /\ i \in 1..Len(c)
  BY DEF Shrunk
<1>2. \A i \in 1..Len(f) : f[i].new => File(k.src, f[i].kind) \in k.made
  <2>1. \A i \in 1..Len(c) : c[i].new => File(j.src, c[i].kind) \in j.made
    BY DEF Traced
  <2> QED BY <1>1, <2>1
<1>3. ASSUME ~fenced', k.outcome \in {"none", "failed"}, NEW q \in k.made \cap there'
      PROVE  Accounted(k, q)
  <2>1. /\ q \in there /\ q \in j.made
        /\ ~e.new \/ q # File(k.src, e.kind)
    BY <1>3
  <2>2. Accounted(j, q)
    BY <1>3, <2>1 DEF Traced
  <2>3. PICK i \in 1..Len(c) : c[i].new /\ q = File(j.src, c[i].kind)
    BY <2>2 DEF Accounted
  <2>4. i # Len(c)
    BY <1>1, <2>1, <2>3
  <2>5. i \in 1..Len(f)
    BY <1>1, <2>4
  <2>6. f[i].new /\ q = File(k.src, f[i].kind)
    BY <1>1, <2>3, <2>5
  <2> QED BY <2>5, <2>6 DEF Accounted
<1> QED BY <1>2, <1>3 DEF Traced

(* What compensate takes away belongs to no row.                           *)
LEMMA ApartDisk ==
  ASSUME ImportsInv, NEW s \in Sources, Absent(s), NEW p \in Files(s),
         UNCHANGED rows,
         \/ UNCHANGED <<there, mayBe>>
         \/ there' \in {there, there \ {p}} /\ mayBe' = Unsettled(p)
  PROVE  /\ there' \subseteq Paths /\ mayBe' \in [Paths -> SUBSET BOOLEAN]
         /\ RowHasFiles' /\ OneRow'
<1>0. /\ rows \subseteq Sources /\ there \subseteq Paths /\ mayBe \in [Paths -> SUBSET BOOLEAN]
      /\ RowHasFiles /\ OneRow
  BY DEF ImportsInv, ImportsTyped
<1>1. p \in Paths /\ \A r \in rows : Files(r) \subseteq Paths /\ p \notin Files(r)
  BY <1>0, FilesAre DEF Absent
<1>2. OneRow'
  BY <1>0 DEF OneRow
<1>3. CASE UNCHANGED <<there, mayBe>>
  BY <1>0, <1>2, <1>3 DEF RowHasFiles
<1>4. CASE there' \in {there, there \ {p}} /\ mayBe' = Unsettled(p)
  <2>1. mayBe' = [mayBe EXCEPT ![p] = BOOLEAN]
    BY <1>4 DEF Unsettled
  <2>2. /\ mayBe' \in [Paths -> SUBSET BOOLEAN]
        /\ \A q \in Paths : q # p => mayBe'[q] = mayBe[q]
    BY <1>0, <2>1, ChangedDisk
  <2>3. RowHasFiles'
    BY <1>0, <1>1, <1>4, <2>2 DEF RowHasFiles
  <2> QED BY <1>0, <1>2, <1>4, <2>2, <2>3
<1> QED BY <1>3, <1>4

(* The last publication of w is undone, or its owner held.                 *)
LEMMA Undone ==
  ASSUME ImportsInv, NEW w \in Workers, job[w].pc = "compensate", Absent(job[w].src),
         NEW e, NEW p, p = File(job[w].src, e.kind),
         NEW k \in Jobs, Moves(w, k), k.src = job[w].src, k.made = job[w].made,
         k.outcome = job[w].outcome, k.reported <=> job[w].reported,
         Shrunk(job[w].publications, e, k.publications),
         k.pc \in {"retire", "restored", "compensate"},
         fenced' \in BOOLEAN, fenced => fenced', UNCHANGED <<rows, custody>>,
         \/ UNCHANGED <<there, mayBe>>
         \/ there' \in {there, there \ {p}} /\ mayBe' = Unsettled(p),
         \/ fenced'
         \/ ~e.new /\ there' = there
         \/ there' = there \ {p}
  PROVE  ImportsInv'
<1> DEFINE j == job[w]
           s == j.src
           c == j.publications
<1>0. /\ ImportsTyped /\ Importing(w) /\ j \in Jobs /\ Shaped(j) /\ c \in Chains
      /\ Owning(j) => custody = w
  BY Here
<1>1. s \in Sources /\ j.outcome = "failed" /\ ~ j.reported /\ custody = w
  BY <1>0 DEF Shaped, Owning
<1>2. /\ Len(c) \in {1, 2} /\ e = c[Len(c)] /\ Len(k.publications) = Len(c) - 1
      /\ e \in Receipts
  BY DEF Shrunk
<1>3. p \in Files(s)
  <2>0. Len(c) = 1 => e.kind = "archive"
    <3>1. Len(c) # 0 => c[1].kind = "archive"
      BY <1>0, Zenon DEF Chains
    <3> QED BY <1>2, <3>1
  <2>1. e.kind \in Kinds
    BY <1>2 DEF Receipts
  <2>2. CASE e.kind = "archive"
    BY <1>1, <2>2, FilesAre
  <2>3. CASE e.kind = "artwork"
    <3>1. Len(c) = 2
      BY <1>2, <2>0, <2>3
    <3>2. s.art # NoArt
      BY <1>0, <3>1 DEF Shaped
    <3> QED BY <1>1, <2>3, <3>2, FilesAre
  <2> QED BY <2>1, <2>2, <2>3, KindsAre
<1>4. /\ there' \subseteq Paths /\ mayBe' \in [Paths -> SUBSET BOOLEAN]
      /\ RowHasFiles' /\ OneRow'
  BY <1>1, <1>3, ApartDisk
<1>5. job' \in [Workers -> Jobs] /\ job'[w] = k /\ \A v \in Workers \ {w} : job'[v] = job[v]
  BY <1>0, Moved
<1>6. Shaped(k)
  <2>1. Len(k.publications) # 2
    BY Shorter, Zenon
  <2>2. k.src \in Sources /\ k.outcome = "failed" /\ ~ k.reported
    BY <1>1
  <2> QED BY <2>1, <2>2 DEF Shaped, Taking, Undecided
<1>7. Traced(w)'
  <2>1. Traced(w) /\ j.pc # "flush" /\ k.pc # "flush" /\ p = File(k.src, e.kind)
    BY <1>0 DEF Importing
  <2> QED BY <1>5, <2>1, TracedPops
<1>8. Truthful(w)'
  BY <1>0, <1>5, TruthStays DEF Importing
<1>9. Backed(w)'
  BY <1>5 DEF Backed, Taking
<1>10. Importing(w)'
  BY <1>1, <1>5, <1>6, <1>7, <1>8, <1>9 DEF Importing
<1> QED BY <1>1, <1>4, <1>5, <1>10, ChangesFiles

(* A record at another point, with its owner held or not.                  *)
LEMMA HoldingTyped ==
  ASSUME NEW j \in Jobs, NEW k, k = Holding(j)
  PROVE  /\ k \in Jobs /\ k.src = j.src /\ k.made = j.made /\ k.outcome = j.outcome
         /\ (k.reported <=> j.reported) /\ k.publications = j.publications
         /\ k.pc = IF j.reported THEN "settle" ELSE "compensate"
<1>1. "settle" \in Points /\ "compensate" \in Points
  BY DEF Points
<1> QED BY <1>1 DEF Holding, Jobs

At(j, pc) == [j EXCEPT !.pc = pc]

LEMMA AtTyped ==
  ASSUME NEW j \in Jobs, NEW pc \in Points, NEW k, k = At(j, pc)
  PROVE  /\ k \in Jobs /\ k.src = j.src /\ k.made = j.made /\ k.outcome = j.outcome
         /\ (k.reported <=> j.reported) /\ k.publications = j.publications
         /\ k.pc = pc /\ k.kind = j.kind
  BY DEF Jobs, At

LEMMA CompensateKeeps == ASSUME ImportsInv, NEW w \in Workers, Compensate(w) PROVE ImportsInv'
<1> DEFINE j == job[w]
<1>0. j \in Jobs /\ Shaped(j) /\ fenced \in BOOLEAN
  BY Here
<1>1. PICK e, p, o : e = Last(j.publications) /\ p = File(j.src, e.kind) /\ o = Pop(j)
  OBVIOUS
<1>2. /\ j.pc = "compensate" /\ j.publications # <<>> /\ Absent(j.src)
      /\ UNCHANGED <<rows, custody>>
      /\ \/ ~e.new /\ Moves(w, At(o, "retire")) /\ UNCHANGED <<there, mayBe, fenced>>
         \/ /\ there' = there \ {p} /\ mayBe' = Unsettled(p)
            /\ Moves(w, At(o, "restored")) /\ UNCHANGED fenced
         \/ /\ \/ UNCHANGED <<there, mayBe>>
               \/ there' \in {there, there \ {p}} /\ mayBe' = Unsettled(p)
            /\ fenced' = TRUE /\ Moves(w, Holding(o))
  BY <1>1 DEF Compensate, Pop, At
<1>3. /\ o \in Jobs /\ o.src = j.src /\ o.made = j.made /\ o.outcome = j.outcome
      /\ (o.reported <=> j.reported) /\ Shrunk(j.publications, e, o.publications)
  BY <1>0, <1>1, <1>2, Popped
<1>4. "retire" \in Points /\ "restored" \in Points
  BY DEF Points
<1>5. CASE ~e.new /\ Moves(w, At(o, "retire")) /\ UNCHANGED <<there, mayBe, fenced>>
  <2>1. PICK k : k = At(o, "retire")
    OBVIOUS
  <2>2. /\ k \in Jobs /\ k.src = j.src /\ k.made = j.made /\ k.outcome = j.outcome
        /\ (k.reported <=> j.reported) /\ k.pc = "retire" /\ k.publications = o.publications
    BY <1>3, <1>4, <2>1, AtTyped
  <2>3. Moves(w, k) /\ Shrunk(j.publications, e, k.publications)
    BY <1>3, <1>5, <2>1, <2>2
  <2> QED BY <1>0, <1>1, <1>2, <1>5, <2>2, <2>3, Undone
<1>6. CASE /\ there' = there \ {p} /\ mayBe' = Unsettled(p)
           /\ Moves(w, At(o, "restored")) /\ UNCHANGED fenced
  <2>1. PICK k : k = At(o, "restored")
    OBVIOUS
  <2>2. /\ k \in Jobs /\ k.src = j.src /\ k.made = j.made /\ k.outcome = j.outcome
        /\ (k.reported <=> j.reported) /\ k.pc = "restored" /\ k.publications = o.publications
    BY <1>3, <1>4, <2>1, AtTyped
  <2>3. Moves(w, k) /\ Shrunk(j.publications, e, k.publications)
    BY <1>3, <1>6, <2>1, <2>2
  <2> QED BY <1>0, <1>1, <1>2, <1>6, <2>2, <2>3, Undone
<1>7. CASE /\ \/ UNCHANGED <<there, mayBe>>
              \/ there' \in {there, there \ {p}} /\ mayBe' = Unsettled(p)
           /\ fenced' = TRUE /\ Moves(w, Holding(o))
  <2>1. PICK k : k = Holding(o)
    OBVIOUS
  <2>2. /\ k \in Jobs /\ k.src = j.src /\ k.made = j.made /\ k.outcome = j.outcome
        /\ (k.reported <=> j.reported) /\ k.publications = o.publications
        /\ k.pc = IF j.reported THEN "settle" ELSE "compensate"
    BY <1>3, <2>1, HoldingTyped
  <2>3. Moves(w, k) /\ Shrunk(j.publications, e, k.publications)
    BY <1>3, <1>7, <2>1, <2>2
  <2>4. k.pc = "compensate"
    BY <1>0, <1>2, <2>2 DEF Shaped
  <2> QED BY <1>0, <1>1, <1>2, <1>7, <2>2, <2>3, <2>4, Undone
<1> QED BY <1>2, <1>5, <1>6, <1>7

-----------------------------------------------------------------------------
(* The cleanup and the report.                                             *)

LEMMA Carried ==
  ASSUME ImportsInv, NEW w \in Workers, NEW k \in Jobs, Moves(w, k),
         k.src = job[w].src, k.made = job[w].made, k.publications = job[w].publications,
         k.outcome = job[w].outcome, job[w].pc \notin Undecided,
         k.pc \notin Undecided, Shaped(k), Owning(k) => custody' = w,
         custody' \in Workers \cup {NoOne}, custody' = custody \/ custody \in {w, NoOne},
         fenced' \in BOOLEAN, fenced => fenced', UNCHANGED <<rows, there, mayBe>>
  PROVE  ImportsInv'
<1>1. /\ job[w].pc # "flush" /\ k.pc # "flush" /\ k.pc \notin Taking \cup {"catalog"}
  BY DEF Undecided, Taking
<1> QED BY <1>1, Carries

(* The record stays in cleanup: its owner is held.                         *)
LEMMA HoldsKeeps ==
  ASSUME ImportsInv, NEW w \in Workers, job[w].pc \in {"restored", "retire", "forget"},
         Moves(w, Holding(job[w])), UNCHANGED <<rows, there, mayBe, custody>>,
         fenced' \in BOOLEAN, fenced => fenced'
  PROVE  ImportsInv'
<1> DEFINE j == job[w]
<1>0. /\ j \in Jobs /\ Shaped(j) /\ (Owning(j) => custody = w)
      /\ custody \in Workers \cup {NoOne}
  BY Here
<1>1. PICK k : k = Holding(j)
  OBVIOUS
<1>2. /\ k \in Jobs /\ k.src = j.src /\ k.made = j.made /\ k.outcome = j.outcome
      /\ (k.reported <=> j.reported) /\ k.publications = j.publications
      /\ k.pc = IF j.reported THEN "settle" ELSE "compensate"
  BY <1>0, <1>1, HoldingTyped
<1>3. custody = w /\ Moves(w, k)
  BY <1>0, <1>1 DEF Owning
<1>4. /\ j.src \in Sources /\ j.outcome # "none" /\ (j.reported \/ j.outcome = "failed")
      /\ Len(j.publications) = 2 => j.src.art # NoArt
      /\ j.outcome = "failed" /\ j.reported => Len(j.publications) = 0
  BY <1>0 DEF Shaped
<1>5. Shaped(k)
  <2>1. /\ k.src \in Sources /\ k.outcome # "none" /\ (k.reported \/ k.outcome = "failed")
        /\ Len(k.publications) = 2 => k.src.art # NoArt
        /\ k.outcome = "failed" /\ k.reported => Len(k.publications) = 0
        /\ k.pc = IF k.reported THEN "settle" ELSE "compensate"
    BY <1>2, <1>4
  <2> QED BY <2>1 DEF Shaped, Taking, Undecided
<1>6. j.pc \notin Undecided /\ k.pc \notin Undecided
  BY <1>2 DEF Undecided, Taking
<1> QED BY <1>0, <1>2, <1>3, <1>5, <1>6, Carried

(* The next point of a cleanup.                                            *)
LEMMA GoesOn ==
  ASSUME ImportsInv, NEW w \in Workers, NEW pc \in Points, Moves(w, At(job[w], pc)),
         \/ job[w].pc \in {"restored", "retire"} /\ pc \in {"retire", "forget"}
         \/ job[w].pc = "forget" /\ pc = IF job[w].reported THEN "clean" ELSE "compensate"
         \/ job[w].pc = "compensate" /\ job[w].publications = <<>> /\ pc = "report"
         \/ job[w].pc = "settle" /\ pc = "clean" /\ custody' = w,
         custody' = custody \/ custody \in {w, NoOne},
         custody' = custody \/ custody' = w,
         UNCHANGED <<rows, there, mayBe, fenced>>
  PROVE  ImportsInv'
<1> DEFINE j == job[w]
<1>0. /\ j \in Jobs /\ Shaped(j) /\ (Owning(j) => custody = w) /\ fenced \in BOOLEAN
      /\ custody \in Workers \cup {NoOne} /\ j.publications \in Chains
  BY Here
<1>1. PICK k : k = At(j, pc)
  OBVIOUS
<1>2. /\ k \in Jobs /\ k.src = j.src /\ k.made = j.made /\ k.outcome = j.outcome
      /\ (k.reported <=> j.reported) /\ k.publications = j.publications /\ k.pc = pc
  BY <1>0, <1>1, AtTyped
<1>3. Moves(w, k) BY <1>1
<1>4. custody' = w
  BY <1>0 DEF Owning
<1>5. /\ j.src \in Sources /\ j.outcome # "none"
      /\ Len(j.publications) = 2 => j.src.art # NoArt
      /\ j.outcome = "failed" /\ j.reported => Len(j.publications) = 0
      /\ j.pc \in {"restored", "retire", "forget"} => j.reported \/ j.outcome = "failed"
      /\ j.pc = "restored" => ~ j.reported
      /\ j.pc = "compensate" => ~ j.reported
      /\ j.pc = "settle" => j.reported
  BY <1>0 DEF Shaped
<1>6. j.publications = <<>> => Len(j.publications) = 0
  BY <1>0, Empty
<1>7. Shaped(k)
  <2>1. /\ k.src \in Sources /\ k.outcome # "none"
        /\ Len(k.publications) = 2 => k.src.art # NoArt
        /\ k.outcome = "failed" /\ k.reported => Len(k.publications) = 0
    BY <1>2, <1>5
  <2>2. /\ k.pc \in {"retire", "forget"} => k.reported \/ k.outcome = "failed"
        /\ k.pc = "compensate" => k.outcome = "failed" /\ ~ k.reported
        /\ k.pc = "clean" => k.reported
        /\ k.pc = "report" => ~ k.reported /\ Len(k.publications) = 0
        /\ k.pc \in {"retire", "forget", "compensate", "clean", "report"}
    BY <1>2, <1>5, <1>6
  <2> QED BY <2>1, <2>2 DEF Shaped, Taking, Undecided
<1>8. j.pc \notin Undecided /\ k.pc \notin Undecided
  BY <1>2 DEF Undecided, Taking
<1>9. custody' \in Workers \cup {NoOne} /\ fenced' \in BOOLEAN
  BY <1>0, <1>4
<1> QED BY <1>2, <1>3, <1>4, <1>7, <1>8, <1>9, Carried

LEMMA FlushRestoredKeeps ==
  ASSUME ImportsInv, NEW w \in Workers, FlushRestored(w) PROVE ImportsInv'
<1> DEFINE j == job[w]
<1>0. /\ ImportsTyped /\ Importing(w) /\ j \in Jobs /\ Shaped(j) /\ (Owning(j) => custody = w)
      /\ fenced \in BOOLEAN /\ there \subseteq Paths
  BY Here
<1>1. /\ j.pc = "restored" /\ UNCHANGED <<rows, there, custody>>
      /\ \/ /\ mayBe' = Flushed(Directory(File(j.src, j.kind)))
            /\ Moves(w, At(j, "retire")) /\ UNCHANGED fenced
         \/ fenced' = TRUE /\ Moves(w, Holding(j)) /\ UNCHANGED mayBe
  BY DEF FlushRestored, At
<1>2. CASE fenced' = TRUE /\ Moves(w, Holding(j)) /\ UNCHANGED mayBe
  BY <1>1, <1>2, HoldsKeeps
<1>3. CASE /\ mayBe' = Flushed(Directory(File(j.src, j.kind)))
           /\ Moves(w, At(j, "retire")) /\ UNCHANGED fenced
  <2>1. /\ mayBe' \in [Paths -> SUBSET BOOLEAN]
        /\ \A p \in Paths : Durable(p) => Durable(p)'
    BY <1>0, <1>1, <1>3, FlushedDisk
  <2>2. PICK k : k = At(j, "retire")
    OBVIOUS
  <2>3. /\ k \in Jobs /\ k.src = j.src /\ k.made = j.made /\ k.outcome = j.outcome
        /\ (k.reported <=> j.reported) /\ k.publications = j.publications /\ k.pc = "retire"
    <3>1. "retire" \in Points BY DEF Points
    <3> QED BY <1>0, <2>2, <3>1, AtTyped
  <2>4. job' \in [Workers -> Jobs] /\ job'[w] = k /\ \A v \in Workers \ {w} : job'[v] = job[v]
    <3>1. Moves(w, k) BY <1>3, <2>2
    <3> QED BY <1>0, <2>3, <3>1, Moved
  <2>5. custody = w
    BY <1>0, <1>1 DEF Owning
  <2>6. Shaped(k)
    <3>1. /\ k.src \in Sources /\ k.outcome = "failed" /\ ~ k.reported
          /\ Len(k.publications) = 2 => k.src.art # NoArt
      BY <1>0, <1>1, <2>3 DEF Shaped
    <3> QED BY <2>3, <3>1 DEF Shaped, Taking, Undecided
  <2>7. Traced(w)'
    <3>1. Traced(w)
      BY <1>0 DEF Importing
    <3> QED BY <1>1, <1>3, <2>3, <2>4, <3>1, TracedStays
  <2>8. Truthful(w)'
    BY <1>0, <1>1, <2>3, <2>4, TruthStays DEF Importing
  <2>9. Backed(w)'
    BY <2>3, <2>4 DEF Backed, Taking
  <2>10. Importing(w)'
    BY <1>1, <2>4, <2>5, <2>6, <2>7, <2>8, <2>9 DEF Importing
  <2>11. RowHasFiles' /\ OneRow'
    BY <1>1, <2>1, StillBacked
  <2> QED BY <1>0, <1>1, <1>3, <2>1, <2>4, <2>5, <2>10, <2>11, ChangesFiles
<1> QED BY <1>1, <1>2, <1>3

LEMMA CompensatedKeeps == ASSUME ImportsInv, NEW w \in Workers, Compensated(w) PROVE ImportsInv'
<1>1. /\ job[w].pc = "compensate" /\ job[w].publications = <<>>
      /\ Moves(w, At(job[w], "report")) /\ UNCHANGED <<rows, there, mayBe, custody, fenced>>
  BY DEF Compensated, At, disk
<1>2. "report" \in Points
  BY DEF Points
<1> QED BY <1>1, <1>2, GoesOn

LEMMA RetireKeeps == ASSUME ImportsInv, NEW w \in Workers, Retire(w) PROVE ImportsInv'
<1>0. fenced \in BOOLEAN
  BY Here
<1>1. /\ job[w].pc = "retire" /\ UNCHANGED <<rows, there, mayBe, custody>>
      /\ \/ Moves(w, At(job[w], "forget")) /\ UNCHANGED fenced
         \/ Moves(w, Holding(job[w])) /\ (UNCHANGED fenced \/ fenced' = TRUE)
  BY DEF Retire, At
<1>2. "forget" \in Points
  BY DEF Points
<1>3. CASE Moves(w, At(job[w], "forget")) /\ UNCHANGED fenced
  BY <1>1, <1>2, <1>3, GoesOn
<1>4. CASE Moves(w, Holding(job[w])) /\ (UNCHANGED fenced \/ fenced' = TRUE)
  <2>1. fenced' \in BOOLEAN /\ (fenced => fenced')
    <3>1. CASE fenced' = fenced BY <1>0, <3>1
    <3>2. CASE fenced' = TRUE BY <3>2
    <3> QED BY <1>4, <3>1, <3>2
  <2> QED BY <1>1, <1>4, <2>1, HoldsKeeps
<1> QED BY <1>1, <1>3, <1>4

LEMMA ForgetKeeps == ASSUME ImportsInv, NEW w \in Workers, Forget(w) PROVE ImportsInv'
<1>1. PICK pc : pc = IF job[w].reported THEN "clean" ELSE "compensate"
  OBVIOUS
<1>2. /\ job[w].pc = "forget" /\ Moves(w, At(job[w], pc))
      /\ UNCHANGED <<rows, there, mayBe, custody, fenced>>
  BY <1>1 DEF Forget, At
<1>3. pc \in Points
  BY <1>1 DEF Points
<1> QED BY <1>1, <1>2, <1>3, GoesOn

LEMMA ForgetUncertainKeeps ==
  ASSUME ImportsInv, NEW w \in Workers, ForgetUncertain(w) PROVE ImportsInv'
<1>1. /\ job[w].pc = "forget" /\ Moves(w, Holding(job[w])) /\ fenced' = TRUE
      /\ UNCHANGED <<rows, there, mayBe, custody>>
  BY DEF ForgetUncertain
<1> QED BY <1>1, HoldsKeeps

LEMMA SettleKeeps == ASSUME ImportsInv, NEW w \in Workers, Settle(w) PROVE ImportsInv'
<1>1. /\ job[w].pc = "settle" /\ Moves(w, At(job[w], "clean")) /\ custody' = w
      /\ custody \in {w, NoOne} /\ UNCHANGED <<rows, there, mayBe, fenced>>
  BY DEF Settle, At, TryCustody, disk
<1>2. "clean" \in Points
  BY DEF Points
<1> QED BY <1>1, <1>2, GoesOn

LEMMA ReportKeeps == ASSUME ImportsInv, NEW w \in Workers, Report(w) PROVE ImportsInv'
<1> DEFINE j == job[w]
<1>0. /\ j \in Jobs /\ Shaped(j) /\ (Owning(j) => custody = w) /\ fenced \in BOOLEAN
      /\ custody \in Workers \cup {NoOne}
  BY Here
<1>1. PICK k : k = [j EXCEPT !.pc = "settle", !.reported = TRUE]
  OBVIOUS
<1>2. /\ j.pc = "report" /\ Moves(w, k) /\ UNCHANGED <<rows, there, mayBe, custody, fenced>>
  BY <1>1 DEF Report, disk
<1>3. /\ k \in Jobs /\ k.src = j.src /\ k.made = j.made /\ k.outcome = j.outcome
      /\ k.reported /\ k.publications = j.publications /\ k.pc = "settle"
  <2>1. "settle" \in Points BY DEF Points
  <2> QED BY <1>0, <1>1, <2>1 DEF Jobs
<1>4. Shaped(k)
  <2>1. /\ k.src \in Sources /\ k.outcome # "none"
        /\ Len(k.publications) = 2 => k.src.art # NoArt
        /\ k.outcome = "failed" => Len(k.publications) = 0
    BY <1>0, <1>2, <1>3 DEF Shaped
  <2> QED BY <1>3, <2>1 DEF Shaped, Taking, Undecided
<1>5. Owning(k) => custody' = w
  <2>1. Owning(k) => Owning(j)
    BY <1>3 DEF Owning
  <2> QED BY <1>0, <1>2, <2>1
<1>6. j.pc \notin Undecided /\ k.pc \notin Undecided
  BY <1>2, <1>3 DEF Undecided, Taking
<1> QED BY <1>0, <1>2, <1>3, <1>4, <1>5, <1>6, Carried

(* A worker without an item.                                               *)
LEMMA IdleShaped ==
  /\ Idle \in Jobs /\ Shaped(Idle) /\ ~ Owning(Idle)
  /\ Idle.pc = "idle" /\ Idle.publications = <<>> /\ Idle.made = {} /\ Idle.outcome = "none"
<1>1. <<>> \in Chains /\ Len(<<>>) = 0
  BY EmptySeq DEF Chains
<1>2. "idle" \in Points /\ "archive" \in Kinds /\ Idle.src \in Picks
  BY DEF Points, Kinds, Picks
<1>3. /\ Idle \in Jobs
      /\ Idle.pc = "idle" /\ Idle.publications = <<>> /\ Idle.made = {} /\ Idle.outcome = "none"
      /\ ~ Idle.reported
  BY <1>1, <1>2 DEF Idle, Jobs
<1>4. Len(Idle.publications) = 0
  BY <1>1, <1>3
<1> QED BY <1>3, <1>4 DEF Shaped, Owning, Taking, Undecided, Answers

LEMMA IdleImports ==
  ASSUME NEW v \in Workers, job'[v] = Idle
  PROVE  Importing(v)'
<1>1. Shaped(job[v])' /\ ~ Owning(job[v])'
  BY IdleShaped DEF Shaped, Owning
<1>2. Traced(v)'
  <2>1. Len(Idle.publications) = 0
    BY IdleShaped, EmptySeq
  <2>2. 1..Len(Idle.publications) = {}
    BY <2>1
  <2> QED BY <2>2, IdleShaped DEF Traced
<1>3. Truthful(v)' /\ Backed(v)'
  BY IdleShaped DEF Truthful, Backed, Taking
<1> QED BY <1>1, <1>2, <1>3 DEF Importing

LEMMA CleanKeeps == ASSUME ImportsInv, NEW w \in Workers, Clean(w) PROVE ImportsInv'
<1> DEFINE j == job[w]
<1>0. /\ ImportsTyped /\ Importing(w) /\ j \in Jobs /\ Shaped(j) /\ (Owning(j) => custody = w)
      /\ fenced \in BOOLEAN /\ custody \in Workers \cup {NoOne}
  BY Here
<1>1. PICK kind : kind = IF "artwork" \in j.stages THEN "artwork" ELSE "archive"
  OBVIOUS
<1>2. /\ j.pc = "clean" /\ UNCHANGED <<rows, there, mayBe, fenced>>
      /\ \/ /\ Moves(w, [j EXCEPT !.stages = @ \ {kind}, !.kind = kind, !.pc = "retire"])
            /\ UNCHANGED custody
         \/ /\ j.publications # <<>> /\ Moves(w, At(Pop(j), "retire")) /\ UNCHANGED custody
         \/ /\ Moves(w, Idle) /\ custody' = NoOne
  BY <1>1 DEF Clean, Pop, At, disk
<1>3. /\ custody = w /\ j.src \in Sources /\ j.reported /\ j.outcome # "none"
      /\ Len(j.publications) = 2 => j.src.art # NoArt
      /\ j.outcome = "failed" => Len(j.publications) = 0
  BY <1>0, <1>2 DEF Owning, Shaped
<1>4. "retire" \in Points /\ "retire" \notin Undecided /\ "clean" \notin Undecided
  BY DEF Points, Undecided, Taking
<1>5. CASE /\ Moves(w, [j EXCEPT !.stages = @ \ {kind}, !.kind = kind, !.pc = "retire"])
           /\ UNCHANGED custody
  <2>1. j.stages \in SUBSET Kinds
    BY <1>0, Zenon DEF Jobs
  <2>2. PICK st : st = j.stages \ {kind} /\ st \in SUBSET Kinds
    BY <2>1
  <2>3. PICK k : k = [j EXCEPT !.stages = st, !.kind = kind, !.pc = "retire"]
    OBVIOUS
  <2>4. /\ k \in Jobs /\ k.src = j.src /\ k.made = j.made /\ k.outcome = j.outcome
        /\ (k.reported <=> j.reported) /\ k.publications = j.publications /\ k.pc = "retire"
    <3>1. kind \in Kinds
      BY <1>1, KindsAre
    <3> QED BY <1>0, <1>4, <2>2, <2>3, <3>1 DEF Jobs
  <2>5. Moves(w, k)
    BY <1>5, <2>2, <2>3
  <2>6. Shaped(k)
    <3>1. /\ k.src \in Sources /\ k.reported /\ k.outcome # "none"
          /\ Len(k.publications) = 2 => k.src.art # NoArt
          /\ k.outcome = "failed" => Len(k.publications) = 0
      BY <1>3, <2>4
    <3> QED BY <2>4, <3>1 DEF Shaped, Taking, Undecided
  <2> QED BY <1>0, <1>2, <1>3, <1>4, <1>5, <2>4, <2>5, <2>6, Carried
<1>6. CASE j.publications # <<>> /\ Moves(w, At(Pop(j), "retire")) /\ UNCHANGED custody
  <2>1. PICK e, o, k : e = Last(j.publications) /\ o = Pop(j) /\ k = At(o, "retire")
    OBVIOUS
  <2>2. /\ o \in Jobs /\ o.src = j.src /\ o.made = j.made /\ o.outcome = j.outcome
        /\ (o.reported <=> j.reported) /\ Shrunk(j.publications, e, o.publications)
    BY <1>0, <1>6, <2>1, Popped
  <2>3. /\ k \in Jobs /\ k.src = o.src /\ k.made = o.made /\ k.outcome = o.outcome
        /\ (k.reported <=> o.reported) /\ k.publications = o.publications /\ k.pc = "retire"
    BY <1>4, <2>1, <2>2, AtTyped
  <2>4. job' \in [Workers -> Jobs] /\ job'[w] = k /\ \A v \in Workers \ {w} : job'[v] = job[v]
    <3>1. Moves(w, k) BY <1>6, <2>1
    <3> QED BY <1>0, <2>3, <3>1, Moved
  <2>5. Len(j.publications) # 0
    BY <1>0, <1>6, Empty DEF Jobs
  <2>6. j.outcome \notin {"none", "failed"}
    BY <1>3, <2>5
  <2>7. Shaped(k)
    <3>1. k.src \in Sources /\ k.reported /\ k.outcome \notin {"none", "failed"}
      BY <1>3, <2>2, <2>3, <2>6
    <3>2. Len(o.publications) # 2
      BY <2>2, Shorter, Zenon
    <3> QED BY <2>3, <3>1, <3>2 DEF Shaped, Taking, Undecided
  <2>8. Traced(w)'
    <3>1. Traced(w) /\ j.pc # "flush" /\ k.pc # "flush" /\ k.outcome \notin {"none", "failed"}
      BY <1>0, <1>2, <2>2, <2>3, <2>6 DEF Importing
    <3>2. /\ k.src = j.src /\ k.made = j.made /\ k.outcome = j.outcome
          /\ Shrunk(j.publications, e, k.publications)
      BY <2>2, <2>3
    <3> QED BY <1>2, <2>4, <3>1, <3>2, TracedPops
  <2>9. Truthful(w)'
    BY <1>0, <1>2, <2>2, <2>3, <2>4, TruthStays DEF Importing
  <2>10. Backed(w)'
    BY <2>3, <2>4 DEF Backed, Taking
  <2>11. Importing(w)'
    BY <1>3, <1>6, <2>4, <2>7, <2>8, <2>9, <2>10 DEF Importing
  <2> QED BY <1>0, <1>2, <1>3, <1>6, <2>4, <2>11, StaysStill
<1>7. CASE Moves(w, Idle) /\ custody' = NoOne
  <2>1. job' \in [Workers -> Jobs] /\ job'[w] = Idle /\ \A v \in Workers \ {w} : job'[v] = job[v]
    BY <1>0, <1>7, IdleShaped, Moved
  <2>2. Importing(w)'
    BY <2>1, IdleImports
  <2> QED BY <1>0, <1>2, <1>3, <1>7, <2>1, <2>2, StaysStill
<1> QED BY <1>2, <1>5, <1>6, <1>7

-----------------------------------------------------------------------------
(* The rest of the library, the end of the process and the next start.     *)

(* Custody is free: no import owns anything.                               *)
LEMMA NobodyOwns ==
  ASSUME ImportsInv, custody = NoOne, UNCHANGED job
  PROVE  \A v \in Workers : Importing(v)'
<1>1. ASSUME NEW v \in Workers PROVE ~ Owning(job[v])
  BY Here, ImportsAssumption
<1> QED BY <1>1, Unowning

LEMMA RemoveStoryKeeps == ASSUME ImportsInv, RemoveStory PROVE ImportsInv'
<1>0. /\ rows \subseteq Sources /\ there \subseteq Paths /\ mayBe \in [Paths -> SUBSET BOOLEAN]
      /\ RowHasFiles /\ OneRow /\ ImportsTyped
  BY DEF ImportsInv, ImportsTyped
<1>1. PICK r \in rows : /\ rows' = rows \ {r}
                        /\ there' = there \ {File(r, "archive")}
                        /\ mayBe' = [mayBe EXCEPT ![File(r, "archive")] = {FALSE}]
  BY DEF RemoveStory
<1>2. custody = NoOne /\ UNCHANGED <<custody, fenced, job>>
  BY DEF RemoveStory
<1>3. PICK a : a = File(r, "archive")
  OBVIOUS
<1>4. there' = there \ {a} /\ mayBe' = [mayBe EXCEPT ![a] = {FALSE}]
  BY <1>1, <1>3
<1>5. ASSUME NEW q \in rows', NEW p \in Files(q) PROVE Durable(p)'
  <2>1. q \in rows /\ q \in Sources /\ q # r /\ q.hash # r.hash
    BY <1>0, <1>1, <1>5 DEF OneRow
  <2>2. p \in Paths /\ (p = File(q, "archive") \/ p = File(q, "artwork"))
    BY <1>5, <2>1, FilesAre
  <2>3. p # a
    BY <1>3, <2>1, <2>2, FilesApart
  <2>4. Durable(p)
    BY <1>0, <1>5, <2>1 DEF RowHasFiles, Durable
  <2> QED BY <1>0, <1>4, <2>2, <2>3, <2>4 DEF Durable
<1>6. RowHasFiles'
  BY <1>5 DEF RowHasFiles, Durable
<1>7. OneRow' /\ rows' \subseteq Sources
  BY <1>0, <1>1 DEF OneRow
<1>8. mayBe' \in [Paths -> SUBSET BOOLEAN] /\ there' \subseteq Paths
  BY <1>0, <1>4
<1>9. \A v \in Workers : Importing(v)'
  BY <1>2, NobodyOwns
<1>10. ImportsTyped'
  BY <1>0, <1>2, <1>7, <1>8 DEF ImportsTyped
<1> QED BY <1>6, <1>7, <1>9, <1>10 DEF ImportsInv

(* The fence only weakens what is promised of a failed import.             *)
LEMMA OtherUncertainKeeps == ASSUME ImportsInv, OtherUncertain PROVE ImportsInv'
<1>1. UNCHANGED <<rows, there, mayBe, custody, job>> /\ fenced' = TRUE
  BY DEF OtherUncertain, disk
<1>2. ImportsTyped' /\ RowHasFiles' /\ OneRow'
  BY <1>1 DEF ImportsInv, ImportsTyped, RowHasFiles, OneRow
<1>3. ASSUME NEW v \in Workers PROVE Importing(v)'
  <2>0. Importing(v)
    BY DEF ImportsInv
  <2>1. Shaped(job[v])' /\ (Owning(job[v]) => custody = v)'
    BY <1>1, <2>0 DEF Importing, Shaped, Owning
  <2>2. Traced(v)'
    BY <1>1, <2>0 DEF Importing, Traced
  <2>3. Truthful(v)'
    BY <1>1, <2>0 DEF Importing, Truthful, ByHash
  <2>4. Backed(v)'
    BY <1>1, <2>0 DEF Importing, Backed, Durable
  <2> QED BY <2>1, <2>2, <2>3, <2>4 DEF Importing
<1> QED BY <1>2, <1>3 DEF ImportsInv

LEMMA DiesKeeps ==
  ASSUME ImportsInv, Dies, there' \subseteq Paths, mayBe' \in [Paths -> SUBSET BOOLEAN],
         \A p \in Paths : Durable(p) => Durable(p)'
  PROVE  ImportsInv'
<1>1. job' = [v \in Workers |-> Idle] /\ custody' = NoOne /\ fenced' = FALSE /\ UNCHANGED rows
  BY DEF Dies
<1>2. RowHasFiles' /\ OneRow'
  BY <1>1, StillBacked
<1>3. job' \in [Workers -> Jobs] /\ \A v \in Workers : job'[v] = Idle
  BY <1>1, IdleShaped
<1>4. \A v \in Workers : Importing(v)'
  BY <1>3, IdleImports
<1>5. rows' \subseteq Sources
  BY <1>1 DEF ImportsInv, ImportsTyped
<1>6. ImportsTyped'
  BY <1>1, <1>3, <1>5 DEF ImportsTyped
<1> QED BY <1>2, <1>4, <1>6 DEF ImportsInv

LEMMA CrashKeeps == ASSUME ImportsInv, Crash PROVE ImportsInv'
<1>1. Dies /\ UNCHANGED <<there, mayBe>>
  BY DEF Crash
<1>2. there' \subseteq Paths /\ mayBe' \in [Paths -> SUBSET BOOLEAN]
  BY <1>1 DEF ImportsInv, ImportsTyped
<1>3. \A p \in Paths : Durable(p) => Durable(p)'
  BY <1>1 DEF Durable
<1> QED BY <1>1, <1>2, <1>3, DiesKeeps

(* Power takes what was not flushed, and leaves what is durable.           *)
LEMMA LosePowerKeeps == ASSUME ImportsInv, LosePower PROVE ImportsInv'
<1>1. PICK kept \in SUBSET Paths : /\ \A p \in Paths : (p \in kept) \in mayBe[p]
                                   /\ there' = kept
                                   /\ mayBe' = [p \in Paths |-> {(p \in kept)}]
  BY DEF LosePower
<1>2. there' \subseteq Paths /\ mayBe' \in [Paths -> SUBSET BOOLEAN]
  BY <1>1
<1>3. ASSUME NEW p \in Paths, Durable(p) PROVE Durable(p)'
  <2>1. (p \in kept) \in mayBe[p] /\ mayBe[p] = {TRUE}
    BY <1>1, <1>3, Zenon DEF Durable
  <2>2. p \in kept
    BY <2>1
  <2>3. mayBe'[p] = {(p \in kept)}
    BY <1>1, Zenon
  <2>4. mayBe'[p] = {TRUE}
    BY <2>2, <2>3
  <2> QED BY <1>1, <2>2, <2>4 DEF Durable
<1> QED BY <1>2, <1>3, DiesKeeps DEF LosePower

LEMMA StillKeeps ==
  ASSUME ImportsInv, UNCHANGED <<rows, there, mayBe, custody, fenced, job>>
  PROVE  ImportsInv'
<1>1. ImportsTyped' /\ RowHasFiles' /\ OneRow'
  BY DEF ImportsInv, ImportsTyped, RowHasFiles, OneRow
<1>2. ASSUME NEW v \in Workers PROVE Importing(v)'
  <2>0. Importing(v)
    BY DEF ImportsInv
  <2>1. Shaped(job[v])' /\ (Owning(job[v]) => custody = v)'
    BY <2>0 DEF Importing, Shaped, Owning
  <2>2. Traced(v)'
    BY <2>0 DEF Importing, Traced, Accounted
  <2>3. Truthful(v)'
    BY <2>0 DEF Importing, Truthful, ByHash
  <2>4. Backed(v)'
    BY <2>0 DEF Importing, Backed, Durable
  <2> QED BY <2>1, <2>2, <2>3, <2>4 DEF Importing
<1> QED BY <1>1, <1>2 DEF ImportsInv

LEMMA RestKeeps ==
  ASSUME ImportsInv, Open \/ \E c \in Containers : Recover(c)
  PROVE  ImportsInv'
<1>1. UNCHANGED <<rows, there, mayBe, custody, fenced, job>>
  BY DEF Open, Recover, disk
<1> QED BY <1>1, StillKeeps

LEMMA WorkKeeps == ASSUME ImportsInv, NEW w \in Workers, Work(w) PROVE ImportsInv'
<1>1. CASE CreateStage(w) \/ PartialStage(w) \/ NoRoute(w) \/ Register(w) \/ RegisterUncertain(w)
  BY <1>1, CreateStageKeeps, PartialStageKeeps, NoRouteKeeps, RegisterKeeps, RegisterUncertainKeeps
<1>2. CASE Lookup(w) \/ Check(w) \/ Reuse(w) \/ Publish(w) \/ Flush(w) \/ Catalog(w) \/ Readback(w)
  BY <1>2, LookupKeeps, CheckKeeps, ReuseKeeps, PublishKeeps, FlushKeeps, CatalogKeeps, ReadbackKeeps
<1>3. CASE Compensate(w) \/ FlushRestored(w) \/ Compensated(w) \/ Retire(w) \/ Forget(w)
  BY <1>3, CompensateKeeps, FlushRestoredKeeps, CompensatedKeeps, RetireKeeps, ForgetKeeps
<1>4. CASE ForgetUncertain(w) \/ Report(w) \/ Settle(w) \/ Clean(w)
  BY <1>4, ForgetUncertainKeeps, ReportKeeps, SettleKeeps, CleanKeeps
<1> QED BY <1>1, <1>2, <1>3, <1>4 DEF Work

-----------------------------------------------------------------------------
(* The theorems.                                                           *)

LEMMA InitImports == Init => ImportsInv
<1> SUFFICES ASSUME Init PROVE ImportsInv
  OBVIOUS
<1>1. /\ rows = {} /\ there = {} /\ mayBe = [p \in Paths |-> {FALSE}]
      /\ custody = NoOne /\ fenced = FALSE /\ job = [w \in Workers |-> Idle]
  BY DEF Init
<1>2. ImportsTyped
  BY <1>1, IdleShaped DEF ImportsTyped
<1>3. RowHasFiles /\ OneRow
  BY <1>1 DEF RowHasFiles, OneRow
<1>4. ASSUME NEW v \in Workers PROVE Importing(v)
  <2>1. job[v] = Idle /\ Len(Idle.publications) = 0
    BY <1>1, IdleShaped, EmptySeq
  <2>2. 1..Len(Idle.publications) = {}
    BY <2>1
  <2>3. Traced(v)
    BY <2>1, <2>2, IdleShaped DEF Traced
  <2>4. Truthful(v) /\ Backed(v)
    BY <2>1, IdleShaped DEF Truthful, Backed, Taking
  <2> QED BY <2>1, <2>3, <2>4, IdleShaped DEF Importing
<1> QED BY <1>2, <1>3, <1>4 DEF ImportsInv

LEMMA NextImports == ImportsInv /\ [Next]_vars => ImportsInv'
<1> SUFFICES ASSUME ImportsInv, [Next]_vars PROVE ImportsInv'
  OBVIOUS
<1>1. CASE \E w \in Workers : Begin(w) \/ GiveUp(w) \/ Work(w)
  BY <1>1, BeginKeeps, GiveUpKeeps, WorkKeeps
<1>2. CASE RemoveStory \/ OtherUncertain \/ Crash \/ LosePower
  BY <1>2, RemoveStoryKeeps, OtherUncertainKeeps, CrashKeeps, LosePowerKeeps
<1>3. CASE Open \/ \E c \in Containers : Recover(c)
  BY <1>3, RestKeeps
<1>4. CASE UNCHANGED vars
  <2>1. UNCHANGED <<rows, there, mayBe, custody, fenced, job>>
    BY <1>4 DEF vars, disk
  <2> QED BY <2>1, StillKeeps
<1> QED BY <1>1, <1>2, <1>3, <1>4 DEF Next

(* The invariant of the whole import, whoever else imports, removes a      *)
(* story, meets an uncertain commit or ends the process: custody, receipts *)
(* and files agree.                                                        *)
THEOREM ImportsInductive == Spec => []ImportsInv
  BY InitImports, NextImports, PTL DEF Spec

(* Every catalogued story keeps its archive and its artwork on disk, also  *)
(* through a loss of power.  run flushes each file, made or reused, under  *)
(* the custody that keeps it until create; the compensation of another     *)
(* import leaves every file of a row alone.                                *)
THEOREM RowsAreBacked == Spec => []RowHasFiles
<1>1. ImportsInv => RowHasFiles
  BY DEF ImportsInv
<1> QED BY <1>1, ImportsInductive, PTL

LEMMA ReportsAre == ImportsInv => ReportIsTrue
<1> SUFFICES ASSUME ImportsInv, NEW w \in Workers, job[w].reported
             PROVE  LET s == job[w].src IN
                    /\ job[w].outcome \in {"imported", "duplicate"} => ByHash(s)
                    /\ job[w].outcome = "conflict" =>
                          \E r \in rows : r.uuid = s.uuid /\ r.hash # s.hash
                    /\ job[w].outcome = "failed" /\ ~fenced => job[w].made \cap there = {}
  BY DEF ReportIsTrue
<1> DEFINE j == job[w]
<1>1. Shaped(j) /\ Traced(w) /\ Truthful(w)
  BY Here DEF Importing
<1>2. ASSUME j.outcome = "failed", ~fenced, NEW p \in j.made \cap there PROVE FALSE
  <2>1. Len(j.publications) = 0 /\ j.pc # "flush"
    BY <1>1, <1>2 DEF Shaped, Undecided, Taking
  <2>2. Accounted(j, p)
    BY <1>1, <1>2 DEF Traced
  <2>3. 1..Len(j.publications) = {}
    BY <2>1
  <2> QED BY <2>1, <2>2, <2>3 DEF Accounted
<1> QED BY <1>1, <1>2 DEF Truthful

(* What execute has reported of an item stays so until its effects are     *)
(* settled: imported and duplicate archives are catalogued, a conflict has *)
(* its rival, and a failed import has left no file behind unless an        *)
(* acknowledgement was lost.                                               *)
THEOREM ReportsAreTrue == Spec => []ReportIsTrue
  BY ReportsAre, ImportsInductive, PTL

(* What a step takes from the managed files.                               *)
Taken ==
    \A p \in there \ there' :
        \/ \E r \in rows \ rows' : p = File(r, "archive")
        \/ \E w \in Workers : p \in job[w].made
        \/ app' = "starting"

LEMMA CompensateTakes == ASSUME ImportsInv, NEW w \in Workers, Compensate(w) PROVE Taken
<1> DEFINE j == job[w]
           c == j.publications
<1>0. j \in Jobs /\ Traced(w) /\ c \in Chains
  BY Here DEF Importing
<1>1. PICK e : e = Last(c)
  OBVIOUS
<1>2. /\ c # <<>>
      /\ \/ there' = there
         \/ e.new /\ there' \in {there, there \ {File(j.src, e.kind)}}
  BY <1>1 DEF Compensate
<1>3. Shrunk(c, e, Front(c))
  BY <1>0, <1>1, <1>2, ChainFront, Zenon
<1>4. e = c[Len(c)] /\ Len(c) \in 1..Len(c)
  <2>1. e = c[Len(c)] /\ Len(c) \in {1, 2}
    BY <1>3, Zenon DEF Shrunk
  <2>2. \A n \in {1, 2} : n \in 1..n
    OBVIOUS
  <2> QED BY <2>1, <2>2, Zenon
<1>5. e.new => File(j.src, e.kind) \in j.made
  BY <1>0, <1>4 DEF Traced
<1> QED BY <1>2, <1>5 DEF Taken

LEMMA StepTakes == ImportsInv /\ [Next]_vars => Taken \/ UNCHANGED vars
<1> SUFFICES ASSUME ImportsInv, Next PROVE Taken
  OBVIOUS
<1>1. ASSUME there \subseteq there' PROVE Taken
  BY <1>1 DEF Taken
<1>2. ASSUME NEW w \in Workers, Begin(w) \/ GiveUp(w) \/ Work(w) PROVE Taken
  <2>1. CASE Compensate(w)
    BY <2>1, CompensateTakes
  <2>2. CASE Publish(w) \/ Begin(w) \/ GiveUp(w)
    <3>1. there \subseteq there'
      BY <2>2 DEF Publish, Begin, GiveUp, disk
    <3> QED BY <1>1, <3>1
  <2>3. CASE \/ CreateStage(w) \/ PartialStage(w) \/ NoRoute(w) \/ Register(w)
             \/ RegisterUncertain(w) \/ Lookup(w) \/ Check(w) \/ Reuse(w)
    <3>1. there' = there
      BY <2>3 DEF CreateStage, PartialStage, NoRoute, Register, RegisterUncertain, Lookup, Check,
                  Reuse, disk
    <3> QED BY <1>1, <3>1
  <2>4. CASE \/ Flush(w) \/ Catalog(w) \/ Readback(w) \/ FlushRestored(w) \/ Compensated(w)
             \/ Retire(w) \/ Forget(w) \/ ForgetUncertain(w) \/ Report(w) \/ Settle(w) \/ Clean(w)
    <3>1. there' = there
      BY <2>4 DEF Flush, Catalog, Readback, FlushRestored, Compensated, Retire, Forget,
                  ForgetUncertain, Report, Settle, Clean, disk
    <3> QED BY <1>1, <3>1
  <2> QED BY <1>2, <2>1, <2>2, <2>3, <2>4 DEF Work
<1>3. CASE RemoveStory
  <2>1. PICK r \in rows : rows' = rows \ {r} /\ there' = there \ {File(r, "archive")}
    BY <1>3 DEF RemoveStory
  <2> QED BY <2>1 DEF Taken
<1>4. CASE Crash \/ LosePower
  BY <1>4 DEF Crash, LosePower, Dies, Taken
<1>5. CASE OtherUncertain \/ Open \/ \E c \in Containers : Recover(c)
  <2>1. there' = there
    BY <1>5 DEF OtherUncertain, Open, Recover, disk
  <2> QED BY <1>1, <2>1
<1> QED BY <1>2, <1>3, <1>4, <1>5 DEF Next

(* A managed file disappears only with its story, with power, or by the    *)
(* import that made it: rollback_import never takes a file that it reused. *)
THEOREM ReusedFilesStay == Spec => OrphansStay
<1>1. ImportsInv /\ [Next]_vars => [Taken]_vars
  BY StepTakes
<1>2. Spec => [][Taken]_vars
  BY <1>1, ImportsInductive, PTL DEF Spec
<1> QED BY <1>2 DEF OrphansStay, Taken
============================================================================
