-------------------------- MODULE WriterQueueProofs --------------------------
(***************************************************************************)
(* What the queue of a Database promises, for any number of callers, SQLite*)
(* threads, jobs and failures.  QueueInv is the inductive invariant: it    *)
(* says which jobs are where, what has become of each, and that the numbers*)
(* the queue compares with its capacities count exactly the jobs and owners*)
(* there are.                                                              *)
(***************************************************************************)
EXTENDS WriterQueue, FiniteSetTheorems, SequenceTheorems, TLAPS

(* How many jobs have left the queue: it holds those admitted later.       *)
Taken == Len(jobs) - Len(entries)

Busy == {"run", "release", "send"}

(* The queue holds the last jobs admitted, in their order; a worker has a  *)
(* job of its own that was taken earlier, a single one the last of them.   *)
Line ==
    /\ Len(entries) <= Len(jobs)
    /\ \A i \in DOMAIN entries: entries[i] = Taken + i
    /\ \A w \in Workers: at[w] <= Taken
    /\ \A w \in Workers: at[w] # 0 <=> worker[w] \in Busy
    /\ \A v, w \in Workers: at[v] = at[w] /\ at[v] # 0 => v = w
    /\ Cardinality(Workers) = 1 => \A w \in Workers: at[w] # 0 => at[w] = Taken

(* A client's Pending is its own, and is one of the job's owners.          *)
Holders ==
    /\ \A c \in Clients: held[c] # 0 => held[c] \in DOMAIN jobs /\ jobs[held[c]].pending
    /\ \A b, c \in Clients: held[b] = held[c] /\ held[b] # 0 => b = c

(* What has become of a job.                                               *)
Fate(j) ==
    /\ j > Taken => jobs[j].exec /\ jobs[j].effect = "none" /\ jobs[j].answer = "open"
    /\ jobs[j].effect = "unknown" => fenced /\ doubt
    /\ ~jobs[j].pending => jobs[j].answer = "seen" \/ doubt
    /\ jobs[j].answer \in {"sent", "seen"} => jobs[j].effect # "none"

Fates == \A j \in DOMAIN jobs: Fate(j)

(* How far a worker is with its job.                                       *)
Tasks ==
    \A w \in Workers: at[w] # 0 =>
        /\ jobs[at[w]].answer = "open"
        /\ jobs[at[w]].exec <=> worker[w] # "send"
        /\ jobs[at[w]].effect = "none" <=> worker[w] = "run"

Waiting(k) == {j \in DOMAIN jobs: j > Taken /\ Class(jobs[j].kind) = k}
Owned(k) == {j \in DOMAIN jobs: Class(jobs[j].kind) = k /\ (jobs[j].exec \/ jobs[j].pending)}

(* The queue counts what there is.                                         *)
Slots ==
    \A k \in Classes: count[k] = Cardinality(Waiting(k)) /\ owned[k] = Cardinality(Owned(k))

OwnedCapacity(k) ==
    IF k = "critical" THEN RepairCapacity ELSE OrdinaryCapacity + Cardinality(Workers)

(* And never more than its capacities allow.                               *)
Bounded == \A k \in Classes: count[k] <= Capacity(k) /\ owned[k] <= OwnedCapacity(k)

(* Nobody waits once the database is closing; a certain close stays so.    *)
Ending ==
    /\ closing # "out" => \A c \in Clients: held[c] = 0
    /\ closing = "closed" => CloseCertain

QueueInv ==
    /\ TypeOK
    /\ Line
    /\ Holders
    /\ Fates
    /\ Tasks
    /\ Slots
    /\ Bounded
    /\ Ending
    /\ UnknownStopsOrdinary

----------------------------------------------------------------------------
(* Facts about sequences and the counted sets.                             *)

(* Editing the entries of a sequence keeps its length.                     *)
LEMMA EditedSeq ==
  ASSUME NEW S, NEW s \in Seq(S), NEW t,
         t = [j \in DOMAIN s |-> t[j]], \A j \in DOMAIN s: t[j] \in S
  PROVE  t \in Seq(S) /\ Len(t) = Len(s) /\ DOMAIN t = DOMAIN s
  <1>1. DOMAIN s = 1..Len(s) /\ Len(s) \in Nat
    BY LenProperties
  <1>2. t \in [1..Len(s) -> S]
    BY <1>1
  <1>3. t \in Seq(S)
    BY <1>1, <1>2
  <1>4. DOMAIN t = 1..Len(s)
    BY <1>2
  <1>5. DOMAIN t = 1..Len(t) /\ Len(t) \in Nat
    BY <1>3, LenProperties
  <1>6. Len(t) = Len(s)
    BY <1>1, <1>4, <1>5
  <1> QED
    BY <1>1, <1>3, <1>4, <1>6

LEMMA JobsDomain ==
  ASSUME TypeOK
  PROVE  /\ DOMAIN jobs = 1..Len(jobs) /\ Len(jobs) \in Nat
         /\ DOMAIN entries = 1..Len(entries) /\ Len(entries) \in Nat
         /\ \A j \in DOMAIN jobs: jobs[j] \in Jobs
  <1>1. jobs \in Seq(Jobs) /\ entries \in Seq(1..MaxJobs)
    BY DEF TypeOK
  <1> QED
    BY <1>1, LenProperties, ElementOfSeq

(* The counted sets are finite.                                            *)
LEMMA CountedFinite ==
  ASSUME TypeOK, NEW k
  PROVE  /\ IsFiniteSet(Waiting(k)) /\ Cardinality(Waiting(k)) \in Nat
         /\ IsFiniteSet(Owned(k)) /\ Cardinality(Owned(k)) \in Nat
  <1>1. IsFiniteSet(DOMAIN jobs)
    BY JobsDomain, FS_Interval
  <1>2. Waiting(k) \in SUBSET DOMAIN jobs /\ Owned(k) \in SUBSET DOMAIN jobs
    BY DEF Waiting, Owned
  <1> QED
    BY <1>1, <1>2, FS_Subset, FS_CardinalityType

(* Drop for Admission: the slots given back are those of the jobs that lose*)
(* their last owner.                                                       *)
LEMMA OwnersCounted ==
  ASSUME TypeOK, Slots, NEW ids \in SUBSET DOMAIN jobs,
         NEW who \in {"exec", "pending"}, LetGo(ids, who),
         \A j \in ids: IF who = "exec" THEN jobs[j].exec ELSE jobs[j].pending,
         DOMAIN jobs' = DOMAIN jobs,
         \A j \in DOMAIN jobs:
            /\ jobs'[j].kind = jobs[j].kind
            /\ jobs'[j].exec <=> jobs[j].exec /\ ~(who = "exec" /\ j \in ids)
            /\ jobs'[j].pending <=> jobs[j].pending /\ ~(who = "pending" /\ j \in ids)
  PROVE  /\ owned' \in [Classes -> Nat]
         /\ \A k \in Classes: owned'[k] = Cardinality(Owned(k)') /\ owned'[k] <= owned[k]
  <1> DEFINE F(k) == {j \in ids: /\ Class(jobs[j].kind) = k
                                 /\ IF who = "exec" THEN ~jobs[j].pending
                                                    ELSE ~jobs[j].exec}
  <1>1. ASSUME NEW k \in Classes
        PROVE  owned'[k] \in Nat /\ owned'[k] = Cardinality(Owned(k)') /\ owned'[k] <= owned[k]
    <2>1. F(k) \subseteq Owned(k)
      BY DEF Owned
    <2>2. {j \in DOMAIN jobs': Class(jobs'[j].kind) = k /\ (jobs'[j].exec \/ jobs'[j].pending)}
            = Owned(k) \ F(k)
      BY <1>1 DEF Owned
    <2>3. Owned(k)' = Owned(k) \ F(k)
      BY <2>2 DEF Owned
    <2>4. owned'[k] = owned[k] - Cardinality(F(k))
      BY <1>1 DEF LetGo, Freed
    <2>5. IsFiniteSet(F(k)) /\ Cardinality(F(k)) \in Nat /\ Cardinality(F(k)) <= Cardinality(Owned(k))
      BY <2>1, CountedFinite, FS_Subset, FS_CardinalityType
    <2>6. Cardinality(Owned(k) \ F(k)) = Cardinality(Owned(k)) - Cardinality(Owned(k) \cap F(k))
      BY CountedFinite, FS_Difference
    <2>7. Owned(k) \cap F(k) = F(k)
      BY <2>1
    <2>8. owned[k] = Cardinality(Owned(k)) /\ Cardinality(Owned(k)) \in Nat
      BY CountedFinite DEF Slots
    <2>9. Cardinality(Owned(k) \ F(k)) = Cardinality(Owned(k)) - Cardinality(F(k))
      BY <2>6, <2>7
    <2> HIDE DEF F
    <2>10. Cardinality(Owned(k)') = Cardinality(Owned(k)) - Cardinality(F(k))
      BY <2>3, <2>9
    <2> QED
      BY <2>4, <2>5, <2>8, <2>10
  <1>2. owned' = [k \in Classes |-> owned'[k]]
    BY DEF LetGo
  <1> QED
    BY <1>1, <1>2

----------------------------------------------------------------------------
(* Steps that touch neither the jobs nor the queue's entries.              *)

(* The sets and the places of jobs depend on the jobs and entries only.    *)
LEMMA SameJobs ==
  ASSUME QueueInv, jobs' = jobs, entries' = entries, UNCHANGED <<count, owned>>,
         fenced => fenced', doubt => doubt'
  PROVE  /\ Taken' = Taken
         /\ Fates' /\ Slots' /\ Bounded' /\ UnknownStopsOrdinary'
         /\ (entries \in Seq(1..MaxJobs))'
         /\ (jobs \in Seq(Jobs) /\ Len(jobs) <= MaxJobs)'
         /\ (count \in [Classes -> Nat] /\ owned \in [Classes -> Nat])'
  <1>1. Taken' = Taken
    BY DEF Taken
  <1>2. Fates'
    BY <1>1 DEF QueueInv, Fates, Fate
  <1>3. \A k \in Classes: Waiting(k)' = Waiting(k) /\ Owned(k)' = Owned(k)
    BY <1>1 DEF Waiting, Owned
  <1>4. Slots'
    BY <1>3 DEF QueueInv, Slots
  <1>5. Bounded'
    BY DEF QueueInv, Bounded, Capacity, OwnedCapacity
  <1>6. UnknownStopsOrdinary'
    BY DEF QueueInv, UnknownStopsOrdinary
  <1>7. /\ (entries \in Seq(1..MaxJobs))'
        /\ (jobs \in Seq(Jobs) /\ Len(jobs) <= MaxJobs)'
        /\ (count \in [Classes -> Nat] /\ owned \in [Classes -> Nat])'
    BY DEF QueueInv, TypeOK
  <1> QED
    BY <1>1, <1>2, <1>4, <1>5, <1>6, <1>7

LEMMA FenceInductive ==
  ASSUME QueueInv, RefuseDoubtful \/ OwnershipLost \/ StopOrdinary
  PROVE  QueueInv'
  <1>1. /\ UNCHANGED <<entries, count, owned, stopping, jobs, worker, at, held, closing>>
        /\ fenced => fenced'
        /\ doubt => doubt'
        /\ open' = FALSE /\ fenced' \in BOOLEAN /\ doubt' \in BOOLEAN /\ faults' \in 0..MaxFaults
    <2>1. fenced \in BOOLEAN /\ doubt \in BOOLEAN /\ faults \in 0..MaxFaults
      BY DEF QueueInv, TypeOK
    <2>2. CASE RefuseDoubtful
      BY <2>1, <2>2 DEF RefuseDoubtful
    <2>3. CASE OwnershipLost
      BY <2>1, <2>3, CapacityAssumption DEF OwnershipLost, Fault
    <2>4. CASE StopOrdinary
      BY <2>1, <2>4 DEF StopOrdinary
    <2> QED
      BY <2>2, <2>3, <2>4
  <1>2. TypeOK'
    BY <1>1, SameJobs DEF QueueInv, TypeOK
  <1>3. Line' /\ Holders' /\ Tasks' /\ Ending'
    BY <1>1, SameJobs DEF QueueInv, Line, Holders, Tasks, Ending, CloseCertain
  <1> QED
    BY <1>1, <1>2, <1>3, SameJobs DEF QueueInv

LEMMA ForgetInductive ==
  ASSUME QueueInv, NEW c \in Clients, Forget(c)
  PROVE  QueueInv'
  <1>1. /\ UNCHANGED <<queue, jobs, worker, at, fenced, doubt, closing, faults>>
        /\ held' = [held EXCEPT ![c] = 0]
    BY DEF Forget
  <1>2. TypeOK'
    BY <1>1, SameJobs, CapacityAssumption DEF QueueInv, TypeOK, queue
  <1>3. Line' /\ Tasks'
    BY <1>1, SameJobs DEF QueueInv, Line, Tasks, queue
  <1>4. Holders' /\ Ending'
    BY <1>1 DEF QueueInv, TypeOK, Holders, Ending, CloseCertain, queue
  <1> QED
    BY <1>1, <1>2, <1>3, <1>4, SameJobs DEF QueueInv, queue

LEMMA CloseInductive ==
  ASSUME QueueInv, Close
  PROVE  QueueInv'
  <1>1. /\ UNCHANGED <<entries, count, owned, jobs, at, held, fenced, doubt, faults>>
        /\ worker' = Woken /\ closing' = "joining" /\ open' = FALSE /\ stopping' = TRUE
        /\ \A c \in Clients: held[c] = 0
    BY DEF Close
  <1>2. worker' \in [Workers -> WorkerPoints]
    BY <1>1 DEF QueueInv, TypeOK, Woken, WorkerPoints
  <1>3. \A w \in Workers: \A p \in Busy: worker'[w] = p <=> worker[w] = p
    <2> TAKE w \in Workers
    <2> TAKE p \in Busy
    <2>1. p \notin {"wait", "next"}
      BY DEF Busy
    <2>2. worker'[w] = IF worker[w] = "wait" THEN "next" ELSE worker[w]
      BY <1>1 DEF Woken
    <2> QED
      BY <2>1, <2>2
  <1>4. TypeOK'
    BY <1>1, <1>2, SameJobs DEF QueueInv, TypeOK, ClosePoints
  <1>5. Line' /\ Holders' /\ Tasks' /\ Ending'
    <2>1. \A w \in Workers:
            /\ worker'[w] \in Busy <=> worker[w] \in Busy
            /\ worker[w] \in Busy => (worker'[w] = "send" <=> worker[w] = "send")
            /\ worker[w] \in Busy => (worker'[w] = "run" <=> worker[w] = "run")
      BY <1>3 DEF Busy
    <2>2. Line'
      BY <1>1, <2>1, SameJobs DEF QueueInv, Line
    <2>3. Tasks'
      BY <1>1, <2>1 DEF QueueInv, Line, Tasks
    <2>4. Holders' /\ Ending'
      BY <1>1 DEF QueueInv, Holders, Ending
    <2> QED
      BY <2>2, <2>3, <2>4
  <1> QED
    BY <1>1, <1>4, <1>5, SameJobs DEF QueueInv

LEMMA JoinedInductive ==
  ASSUME QueueInv, Joined
  PROVE  QueueInv'
  <1>1. /\ UNCHANGED <<queue, jobs, worker, at, held, fenced, faults>>
        /\ closing = "joining"
        /\ closing' = IF CloseCertain THEN "closed" ELSE "failed"
        /\ doubt => doubt'
        /\ doubt' \in BOOLEAN
    BY DEF Joined
  <1>2. TypeOK'
    BY <1>1, SameJobs DEF QueueInv, TypeOK, ClosePoints, queue
  <1>3. Line' /\ Holders' /\ Tasks'
    BY <1>1, SameJobs DEF QueueInv, Line, Holders, Tasks, queue
  <1>4. Ending'
    BY <1>1 DEF QueueInv, Ending, CloseCertain, queue
  <1> QED
    BY <1>1, <1>2, <1>3, <1>4, SameJobs DEF QueueInv, queue

----------------------------------------------------------------------------
(* Steps that edit jobs in place.                                          *)

(* Jobs keep their number and their kind, so a queue that is left alone    *)
(* waits for the same ones.                                                *)
LEMMA EditedJobs ==
  ASSUME QueueInv, jobs' = [j \in DOMAIN jobs |-> jobs'[j]],
         \A j \in DOMAIN jobs: jobs'[j] \in Jobs /\ jobs'[j].kind = jobs[j].kind
  PROVE  /\ (jobs \in Seq(Jobs) /\ Len(jobs) <= MaxJobs)'
         /\ Len(jobs') = Len(jobs) /\ DOMAIN jobs' = DOMAIN jobs
         /\ entries' = entries => Taken' = Taken /\ \A k: Waiting(k)' = Waiting(k)
  <1>1. jobs \in Seq(Jobs) /\ Len(jobs) <= MaxJobs
    BY DEF QueueInv, TypeOK
  <1>2. jobs' \in Seq(Jobs) /\ Len(jobs') = Len(jobs) /\ DOMAIN jobs' = DOMAIN jobs
    BY <1>1, EditedSeq
  <1>3. ASSUME entries' = entries PROVE Taken' = Taken
    BY <1>2, <1>3 DEF Taken
  <1>4. ASSUME entries' = entries, NEW k PROVE Waiting(k)' = Waiting(k)
    BY <1>2, <1>3, <1>4 DEF Waiting
  <1> QED
    BY <1>1, <1>2, <1>3, <1>4

LEMMA SameOwners ==
  ASSUME DOMAIN jobs' = DOMAIN jobs,
         \A j \in DOMAIN jobs:
            /\ jobs'[j].kind = jobs[j].kind
            /\ jobs'[j].exec <=> jobs[j].exec
            /\ jobs'[j].pending <=> jobs[j].pending,
         NEW k
  PROVE  Owned(k)' = Owned(k)
  <1>1. {j \in DOMAIN jobs': Class(jobs'[j].kind) = k /\ (jobs'[j].exec \/ jobs'[j].pending)}
          = Owned(k)
    BY DEF Owned
  <1> QED
    BY <1>1 DEF Owned

LEMMA SameEffects ==
  ASSUME QueueInv, DOMAIN jobs' = DOMAIN jobs,
         \A j \in DOMAIN jobs: jobs'[j].kind = jobs[j].kind /\ jobs'[j].effect = jobs[j].effect
  PROVE  UnknownStopsOrdinary'
  <1> SUFFICES ASSUME Cardinality(Workers) = 1, NEW j \in DOMAIN jobs, NEW k \in DOMAIN jobs,
                      j < k, jobs'[j].effect = "unknown", jobs'[k].kind = "transaction"
               PROVE  jobs'[k].effect # "committed"
    BY DEF UnknownStopsOrdinary
  <1> QED
    BY DEF QueueInv, UnknownStopsOrdinary

LEMMA CapacityOfOwners ==
  ASSUME NEW k \in Classes
  PROVE  OwnedCapacity(k) \in Nat /\ Capacity(k) \in Nat
  BY CapacityAssumption, WorkersAssumption, FS_CardinalityType DEF OwnedCapacity, Capacity

(* The caller's side: Wait and Abandon end with a Release.                 *)
LEMMA ReleaseInductive ==
  ASSUME QueueInv, NEW c \in Clients, Wait(c) \/ Abandon(c)
  PROVE  QueueInv'
  <1> DEFINE h == held[c]
  <1>1. h \in DOMAIN jobs /\ jobs[h].pending /\ jobs[h] \in Jobs
    BY JobsDomain DEF Wait, Abandon, QueueInv, Holders
  <1>2. PICK answer \in {"open", "sent", "seen", "broken"}:
          /\ Release(c, answer)
          /\ answer \in {"sent", "seen"} => jobs[h].effect # "none"
          /\ answer = "seen" \/ doubt'
          /\ jobs[h].answer = "open" => answer = "open"
    <2>1. jobs[h].answer \in {"sent", "seen"} => jobs[h].effect # "none"
      BY <1>1 DEF QueueInv, Fates, Fate
    <2>2. CASE Wait(c) /\ jobs[h].answer = "sent"
      <3>1. Release(c, "seen")
        BY <2>2 DEF Wait
      <3> QED
        BY <2>1, <2>2, <3>1
    <2>3. CASE Wait(c) /\ jobs[h].answer # "sent"
      <3>1. Release(c, "broken") /\ doubt' /\ jobs[h].answer = "broken"
        BY <2>3 DEF Wait, DropPending
      <3> QED
        BY <3>1
    <2>4. CASE Abandon(c)
      <3>1. Release(c, jobs[h].answer) /\ doubt'
        BY <2>4 DEF Abandon, DropPending
      <3>2. jobs[h].answer \in {"open", "sent", "seen", "broken"}
        BY <1>1 DEF Jobs
      <3> QED
        BY <2>1, <3>1, <3>2
    <2> QED
      BY <2>2, <2>3, <2>4
  <1>3. doubt' \in BOOLEAN /\ (doubt => doubt')
    BY DEF Wait, Abandon, DropPending
  <1>4. /\ LetGo({h}, "pending")
        /\ jobs' = [jobs EXCEPT ![h].pending = FALSE, ![h].answer = answer]
        /\ held' = [held EXCEPT ![c] = 0]
        /\ UNCHANGED <<entries, count, open, stopping, worker, at, fenced, closing, faults>>
    BY <1>2 DEF Release
  <1>5. /\ jobs' = [j \in DOMAIN jobs |-> jobs'[j]]
        /\ \A j \in DOMAIN jobs: j # h => jobs'[j] = jobs[j]
        /\ jobs'[h] = [jobs[h] EXCEPT !.pending = FALSE, !.answer = answer]
    BY <1>1, <1>4
  <1>6. /\ jobs'[h].kind = jobs[h].kind
        /\ jobs'[h].exec <=> jobs[h].exec
        /\ ~jobs'[h].pending
        /\ jobs'[h].effect = jobs[h].effect
        /\ jobs'[h].answer = answer
        /\ jobs'[h] \in Jobs
    BY <1>1, <1>5 DEF Jobs
  <1>7. \A j \in DOMAIN jobs: jobs'[j] \in Jobs /\ jobs'[j].kind = jobs[j].kind
    BY <1>5, <1>6, JobsDomain DEF QueueInv
  <1> HIDE DEF h
  <1>8. /\ (jobs \in Seq(Jobs) /\ Len(jobs) <= MaxJobs)'
        /\ Len(jobs') = Len(jobs) /\ DOMAIN jobs' = DOMAIN jobs
        /\ Taken' = Taken /\ \A k: Waiting(k)' = Waiting(k)
    BY <1>4, <1>5, <1>7, EditedJobs
  <1>9. /\ owned' \in [Classes -> Nat]
        /\ \A k \in Classes: owned'[k] = Cardinality(Owned(k)') /\ owned'[k] <= owned[k]
    <2>1. \A j \in DOMAIN jobs:
            /\ jobs'[j].kind = jobs[j].kind
            /\ jobs'[j].exec <=> jobs[j].exec /\ ~("pending" = "exec" /\ j \in {h})
            /\ jobs'[j].pending <=> jobs[j].pending /\ ~("pending" = "pending" /\ j \in {h})
      BY <1>5, <1>6
    <2>2. \A j \in {h}: IF "pending" = "exec" THEN jobs[j].exec ELSE jobs[j].pending
      BY <1>1
    <2> QED
      BY <1>1, <1>4, <1>8, <2>1, <2>2, OwnersCounted DEF QueueInv
  <1>10. TypeOK'
    BY <1>3, <1>4, <1>8, <1>9, CapacityAssumption DEF QueueInv, TypeOK
  <1>11. Line'
    BY <1>4, <1>8 DEF QueueInv, Line
  <1>12. Holders'
    <2>1. \A b \in Clients: b # c /\ held[b] # 0 => held[b] # h
      BY <1>1, JobsDomain DEF h, QueueInv, Holders
    <2> QED
      BY <1>4, <1>5, <1>8, <2>1 DEF QueueInv, TypeOK, Holders
  <1>13. Fates'
    <2> SUFFICES ASSUME NEW j \in DOMAIN jobs PROVE Fate(j)'
      BY <1>8 DEF Fates
    <2>1. Fate(j)
      BY DEF QueueInv, Fates
    <2>2. CASE j = h
      BY <1>2, <1>3, <1>4, <1>6, <1>8, <2>1, <2>2 DEF Fate
    <2>3. CASE j # h
      BY <1>3, <1>4, <1>5, <1>8, <2>1, <2>3 DEF Fate
    <2> QED
      BY <2>2, <2>3
  <1>14. Tasks'
    <2> SUFFICES ASSUME NEW w \in Workers, at[w] # 0
                 PROVE  /\ jobs'[at[w]].answer = "open"
                        /\ jobs'[at[w]].exec <=> worker[w] # "send"
                        /\ jobs'[at[w]].effect = "none" <=> worker[w] = "run"
      BY <1>4 DEF Tasks
    <2>1. at[w] \in DOMAIN jobs
      BY JobsDomain DEF QueueInv, TypeOK, Line, Taken
    <2>2. /\ jobs[at[w]].answer = "open"
          /\ jobs[at[w]].exec <=> worker[w] # "send"
          /\ jobs[at[w]].effect = "none" <=> worker[w] = "run"
      BY DEF QueueInv, Tasks
    <2>3. CASE at[w] = h
      BY <1>2, <1>6, <2>2, <2>3
    <2>4. CASE at[w] # h
      BY <1>5, <2>1, <2>2, <2>4
    <2> QED
      BY <2>3, <2>4
  <1>15. Slots' /\ Bounded'
    <2>1. Slots'
      BY <1>4, <1>8, <1>9 DEF QueueInv, Slots
    <2>2. \A k \in Classes: owned[k] <= OwnedCapacity(k) /\ OwnedCapacity(k) \in Nat
      BY CapacityOfOwners DEF QueueInv, Bounded
    <2>3. \A k \in Classes: owned'[k] <= OwnedCapacity(k)
      BY <1>9, <2>2 DEF QueueInv, TypeOK
    <2>4. Bounded'
      BY <1>4, <2>3 DEF QueueInv, Bounded, Capacity, OwnedCapacity
    <2> QED
      BY <2>1, <2>4
  <1>16. Ending'
    <2>1. closing = "out"
      BY <1>1, JobsDomain DEF h, QueueInv, Ending
    <2> QED
      BY <1>4, <2>1 DEF Ending
  <1>17. UnknownStopsOrdinary'
    BY <1>4, <1>5, <1>6, <1>8 DEF QueueInv, UnknownStopsOrdinary
  <1> QED
    BY <1>10, <1>11, <1>12, <1>13, <1>14, <1>15, <1>16, <1>17 DEF QueueInv

(* A worker's job is an admitted one that has left the queue.              *)
LEMMA TaskExists ==
  ASSUME QueueInv, NEW w \in Workers, worker[w] \in Busy
  PROVE  /\ at[w] \in DOMAIN jobs /\ at[w] <= Taken /\ jobs[at[w]] \in Jobs
         /\ jobs[at[w]].answer = "open"
         /\ jobs[at[w]].exec <=> worker[w] # "send"
         /\ jobs[at[w]].effect = "none" <=> worker[w] = "run"
         /\ \A v \in Workers: v # w => at[v] # at[w]
  <1>1. at[w] # 0 /\ at[w] \in 0..MaxJobs /\ at[w] <= Taken
    BY DEF QueueInv, Line, TypeOK
  <1>2. at[w] \in DOMAIN jobs
    BY <1>1, JobsDomain DEF QueueInv, Taken
  <1>3. \A v \in Workers: v # w => at[v] # at[w]
    BY <1>1 DEF QueueInv, Line
  <1> QED
    BY <1>1, <1>2, <1>3, JobsDomain DEF QueueInv, Tasks

(* write_job and run_transaction.                                          *)
LEMMA RunInductive ==
  ASSUME QueueInv, NEW w \in Workers, Run(w)
  PROVE  QueueInv'
  <1> DEFINE a == at[w]
  <1>1. /\ worker[w] = "run" /\ worker[w] \in Busy
        /\ worker' = [worker EXCEPT ![w] = "release"]
        /\ UNCHANGED <<entries, count, owned, open, stopping, at, held, closing>>
    BY DEF Run, queue, Busy
  <1>2. /\ a \in DOMAIN jobs /\ a <= Taken /\ jobs[a] \in Jobs
        /\ jobs[a].answer = "open" /\ jobs[a].exec /\ jobs[a].effect = "none"
        /\ \A v \in Workers: v # w => at[v] # a
    BY <1>1, TaskExists
  <1>3. PICK e \in {"read", "committed", "refused", "unknown"}:
          /\ jobs' = [jobs EXCEPT ![a].effect = e]
          /\ e = "committed" /\ jobs[a].kind = "transaction" => ~doubt
          /\ e = "unknown" => fenced' /\ doubt'
          /\ (fenced => fenced') /\ (doubt => doubt')
          /\ fenced' \in BOOLEAN /\ doubt' \in BOOLEAN /\ faults' \in 0..MaxFaults
    <2>1. fenced \in BOOLEAN /\ doubt \in BOOLEAN /\ faults \in 0..MaxFaults
      BY DEF QueueInv, TypeOK
    <2>2. CASE MayRun(w) /\ Effect(w, IF Writes(w) THEN "committed" ELSE "read")
               /\ UNCHANGED <<fenced, doubt, faults>>
      <3>1. jobs' = [jobs EXCEPT ![a].effect = IF Writes(w) THEN "committed" ELSE "read"]
        BY <2>2 DEF Effect
      <3>2. jobs[a].kind = "transaction" => ~doubt
        BY <2>2 DEF MayRun
      <3> QED
        BY <2>1, <2>2, <3>1, <3>2
    <2>3. CASE ~MayRun(w) /\ Effect(w, "refused") /\ UNCHANGED <<fenced, doubt, faults>>
      BY <2>1, <2>3 DEF Effect
    <2>4. CASE MayRun(w) /\ Fault /\ Effect(w, "refused") /\ UNCHANGED <<fenced, doubt>>
      BY <2>1, <2>4, CapacityAssumption DEF Effect, Fault
    <2>5. CASE MayRun(w) /\ Writes(w) /\ Fault /\ Effect(w, "unknown") /\ fenced' = TRUE /\ doubt' = TRUE
      BY <2>1, <2>5, CapacityAssumption DEF Effect, Fault
    <2> QED
      BY <2>2, <2>3, <2>4, <2>5 DEF Run
  <1>4. /\ jobs' = [j \in DOMAIN jobs |-> jobs'[j]]
        /\ \A j \in DOMAIN jobs: j # a => jobs'[j] = jobs[j]
        /\ jobs'[a] = [jobs[a] EXCEPT !.effect = e]
    BY <1>2, <1>3
  <1>5. /\ jobs'[a].kind = jobs[a].kind
        /\ jobs'[a].exec <=> jobs[a].exec
        /\ jobs'[a].pending <=> jobs[a].pending
        /\ jobs'[a].effect = e
        /\ jobs'[a].answer = jobs[a].answer
        /\ jobs'[a] \in Jobs
    BY <1>2, <1>4 DEF Jobs
  <1>6. \A j \in DOMAIN jobs: jobs'[j] \in Jobs /\ jobs'[j].kind = jobs[j].kind
    BY <1>4, <1>5, JobsDomain DEF QueueInv
  <1> HIDE DEF a
  <1>7. /\ (jobs \in Seq(Jobs) /\ Len(jobs) <= MaxJobs)'
        /\ Len(jobs') = Len(jobs) /\ DOMAIN jobs' = DOMAIN jobs
        /\ Taken' = Taken /\ \A k: Waiting(k)' = Waiting(k)
    BY <1>1, <1>4, <1>6, EditedJobs
  <1>8. \A k: Owned(k)' = Owned(k)
    <2>1. \A j \in DOMAIN jobs:
            /\ jobs'[j].kind = jobs[j].kind
            /\ jobs'[j].exec <=> jobs[j].exec
            /\ jobs'[j].pending <=> jobs[j].pending
      BY <1>4, <1>5
    <2> QED
      BY <1>7, <2>1, SameOwners
  <1>9. worker' \in [Workers -> WorkerPoints] /\ worker'[w] = "release"
        /\ \A v \in Workers: v # w => worker'[v] = worker[v]
    BY <1>1 DEF QueueInv, TypeOK, WorkerPoints
  <1>10. TypeOK'
    BY <1>1, <1>3, <1>7, <1>9 DEF QueueInv, TypeOK
  <1>11. Line'
    BY <1>1, <1>7, <1>9 DEF QueueInv, Line, Busy
  <1>12. Holders'
    BY <1>1, <1>4, <1>5, <1>7 DEF QueueInv, Holders
  <1>13. Fates'
    <2> SUFFICES ASSUME NEW j \in DOMAIN jobs PROVE Fate(j)'
      BY <1>7 DEF Fates
    <2>1. Fate(j)
      BY DEF QueueInv, Fates
    <2>2. CASE j = a
      BY <1>2, <1>3, <1>5, <1>7, <2>1, <2>2, JobsDomain DEF Fate, QueueInv, Taken
    <2>3. CASE j # a
      BY <1>3, <1>4, <1>7, <2>1, <2>3 DEF Fate
    <2> QED
      BY <2>2, <2>3
  <1>14. Tasks'
    <2> SUFFICES ASSUME NEW v \in Workers, at[v] # 0
                 PROVE  /\ jobs'[at[v]].answer = "open"
                        /\ jobs'[at[v]].exec <=> worker'[v] # "send"
                        /\ jobs'[at[v]].effect = "none" <=> worker'[v] = "run"
      BY <1>1 DEF Tasks
    <2>1. CASE v = w
      BY <1>2, <1>3, <1>5, <1>9, <2>1 DEF a
    <2>2. CASE v # w
      <3>1. worker[v] \in Busy
        BY DEF QueueInv, Line
      <3>2. jobs'[at[v]] = jobs[at[v]]
        BY <1>2, <1>4, <2>2, <3>1, TaskExists
      <3> QED
        BY <1>9, <2>2, <3>1, <3>2, TaskExists
    <2> QED
      BY <2>1, <2>2
  <1>15. Slots' /\ Bounded'
    BY <1>1, <1>7, <1>8 DEF QueueInv, Slots, Bounded, Capacity, OwnedCapacity
  <1>16. Ending'
    BY <1>1 DEF QueueInv, Ending, CloseCertain
  <1>17. UnknownStopsOrdinary'
    <2> SUFFICES ASSUME Cardinality(Workers) = 1, NEW j \in DOMAIN jobs, NEW k \in DOMAIN jobs,
                        j < k, jobs'[j].effect = "unknown", jobs'[k].kind = "transaction",
                        jobs'[k].effect = "committed"
                 PROVE  FALSE
      BY <1>7 DEF UnknownStopsOrdinary
    <2>1. CASE k = a
      <3>1. jobs[j].effect = "unknown"
        BY <1>4, <2>1, JobsDomain DEF QueueInv
      <3>2. doubt
        BY <3>1 DEF QueueInv, Fates, Fate
      <3> QED
        BY <1>3, <1>5, <2>1, <3>2
    <2>2. CASE j = a
      <3>1. a = Taken
        BY <1>1, <1>2, JobsDomain DEF QueueInv, Line, a
      <3>2. k > Taken /\ k # a
        BY <2>2, <3>1, JobsDomain DEF QueueInv
      <3>3. jobs[k].effect = "none"
        BY <3>2 DEF QueueInv, Fates, Fate
      <3> QED
        BY <1>4, <3>2, <3>3
    <2>3. CASE j # a /\ k # a
      BY <1>4, <2>3 DEF QueueInv, UnknownStopsOrdinary
    <2> QED
      BY <2>1, <2>2, <2>3
  <1> QED
    BY <1>10, <1>11, <1>12, <1>13, <1>14, <1>15, <1>16, <1>17 DEF QueueInv

(* drop(execution): the worker gives up its ownership of the slot.         *)
LEMMA ReleaseSlotInductive ==
  ASSUME QueueInv, NEW w \in Workers, ReleaseSlot(w)
  PROVE  QueueInv'
  <1> DEFINE a == at[w]
  <1>1. /\ worker[w] = "release" /\ worker[w] \in Busy
        /\ LetGo({a}, "exec")
        /\ jobs' = [jobs EXCEPT ![a].exec = FALSE]
        /\ worker' = [worker EXCEPT ![w] = "send"]
        /\ UNCHANGED <<entries, count, open, stopping, at, held, fenced, doubt, closing, faults>>
    BY DEF ReleaseSlot, Busy
  <1>2. /\ a \in DOMAIN jobs /\ a <= Taken /\ jobs[a] \in Jobs
        /\ jobs[a].answer = "open" /\ jobs[a].exec /\ jobs[a].effect # "none"
        /\ \A v \in Workers: v # w => at[v] # a
    BY <1>1, TaskExists
  <1>4. /\ jobs' = [j \in DOMAIN jobs |-> jobs'[j]]
        /\ \A j \in DOMAIN jobs: j # a => jobs'[j] = jobs[j]
        /\ jobs'[a] = [jobs[a] EXCEPT !.exec = FALSE]
    BY <1>1, <1>2
  <1>5. /\ jobs'[a].kind = jobs[a].kind
        /\ ~jobs'[a].exec
        /\ jobs'[a].pending <=> jobs[a].pending
        /\ jobs'[a].effect = jobs[a].effect
        /\ jobs'[a].answer = jobs[a].answer
        /\ jobs'[a] \in Jobs
    BY <1>2, <1>4 DEF Jobs
  <1>6. \A j \in DOMAIN jobs: jobs'[j] \in Jobs /\ jobs'[j].kind = jobs[j].kind
    BY <1>4, <1>5, JobsDomain DEF QueueInv
  <1> HIDE DEF a
  <1>7. /\ (jobs \in Seq(Jobs) /\ Len(jobs) <= MaxJobs)'
        /\ Len(jobs') = Len(jobs) /\ DOMAIN jobs' = DOMAIN jobs
        /\ Taken' = Taken /\ \A k: Waiting(k)' = Waiting(k)
    BY <1>1, <1>4, <1>6, EditedJobs
  <1>8. /\ owned' \in [Classes -> Nat]
        /\ \A k \in Classes: owned'[k] = Cardinality(Owned(k)') /\ owned'[k] <= owned[k]
    <2>1. \A j \in DOMAIN jobs:
            /\ jobs'[j].kind = jobs[j].kind
            /\ jobs'[j].exec <=> jobs[j].exec /\ ~("exec" = "exec" /\ j \in {a})
            /\ jobs'[j].pending <=> jobs[j].pending /\ ~("exec" = "pending" /\ j \in {a})
      BY <1>4, <1>5
    <2>2. \A j \in {a}: IF "exec" = "exec" THEN jobs[j].exec ELSE jobs[j].pending
      BY <1>2
    <2> QED
      BY <1>1, <1>2, <1>7, <2>1, <2>2, OwnersCounted DEF QueueInv
  <1>9. worker' \in [Workers -> WorkerPoints] /\ worker'[w] = "send"
        /\ \A v \in Workers: v # w => worker'[v] = worker[v]
    BY <1>1 DEF QueueInv, TypeOK, WorkerPoints
  <1>10. TypeOK'
    BY <1>1, <1>7, <1>8, <1>9 DEF QueueInv, TypeOK
  <1>11. Line'
    BY <1>1, <1>7, <1>9 DEF QueueInv, Line, Busy
  <1>12. Holders'
    BY <1>1, <1>4, <1>5, <1>7 DEF QueueInv, Holders
  <1>13. Fates'
    <2> SUFFICES ASSUME NEW j \in DOMAIN jobs PROVE Fate(j)'
      BY <1>7 DEF Fates
    <2>1. Fate(j)
      BY DEF QueueInv, Fates
    <2>2. CASE j = a
      BY <1>1, <1>2, <1>5, <1>7, <2>1, <2>2, JobsDomain DEF Fate, QueueInv, Taken
    <2>3. CASE j # a
      BY <1>1, <1>4, <1>7, <2>1, <2>3 DEF Fate
    <2> QED
      BY <2>2, <2>3
  <1>14. Tasks'
    <2> SUFFICES ASSUME NEW v \in Workers, at[v] # 0
                 PROVE  /\ jobs'[at[v]].answer = "open"
                        /\ jobs'[at[v]].exec <=> worker'[v] # "send"
                        /\ jobs'[at[v]].effect = "none" <=> worker'[v] = "run"
      BY <1>1 DEF Tasks
    <2>1. CASE v = w
      BY <1>2, <1>5, <1>9, <2>1 DEF a
    <2>2. CASE v # w
      <3>1. worker[v] \in Busy
        BY DEF QueueInv, Line
      <3>2. jobs'[at[v]] = jobs[at[v]]
        BY <1>2, <1>4, <2>2, <3>1, TaskExists
      <3> QED
        BY <1>9, <2>2, <3>1, <3>2, TaskExists
    <2> QED
      BY <2>1, <2>2
  <1>15. Slots' /\ Bounded'
    <2>1. Slots'
      BY <1>1, <1>7, <1>8 DEF QueueInv, Slots
    <2>2. \A k \in Classes: owned[k] <= OwnedCapacity(k) /\ OwnedCapacity(k) \in Nat
      BY CapacityOfOwners DEF QueueInv, Bounded
    <2>3. \A k \in Classes: owned'[k] <= OwnedCapacity(k)
      BY <1>8, <2>2 DEF QueueInv, TypeOK
    <2>4. Bounded'
      BY <1>1, <2>3 DEF QueueInv, Bounded, Capacity, OwnedCapacity
    <2> QED
      BY <2>1, <2>4
  <1>16. Ending'
    <2>1. closing # "closed"
      BY <1>1 DEF QueueInv, Ending, CloseCertain
    <2> QED
      BY <1>1, <2>1 DEF QueueInv, Ending
  <1>17. UnknownStopsOrdinary'
    <2>1. \A j \in DOMAIN jobs: jobs'[j].kind = jobs[j].kind /\ jobs'[j].effect = jobs[j].effect
      BY <1>4, <1>5
    <2> QED
      BY <1>7, <2>1, SameEffects
  <1> QED
    BY <1>10, <1>11, <1>12, <1>13, <1>14, <1>15, <1>16, <1>17 DEF QueueInv

(* The answer is sent, if somebody is still there to take it.              *)
LEMMA SendInductive ==
  ASSUME QueueInv, NEW w \in Workers, Send(w)
  PROVE  QueueInv'
  <1> DEFINE a == at[w]
  <1> DEFINE answer == IF jobs[a].pending THEN "sent" ELSE jobs[a].answer
  <1>1. /\ worker[w] = "send" /\ worker[w] \in Busy
        /\ jobs' = [jobs EXCEPT ![a].answer = IF jobs[a].pending THEN "sent" ELSE @]
        /\ worker' = [worker EXCEPT ![w] = "next"]
        /\ at' = [at EXCEPT ![w] = 0]
        /\ UNCHANGED <<entries, count, owned, open, stopping, held, fenced, doubt, closing, faults>>
    BY DEF Send, Busy, queue
  <1>2. /\ a \in DOMAIN jobs /\ a <= Taken /\ jobs[a] \in Jobs
        /\ jobs[a].answer = "open" /\ ~jobs[a].exec /\ jobs[a].effect # "none"
        /\ \A v \in Workers: v # w => at[v] # a
    BY <1>1, TaskExists
  <1>4. /\ jobs' = [j \in DOMAIN jobs |-> jobs'[j]]
        /\ \A j \in DOMAIN jobs: j # a => jobs'[j] = jobs[j]
        /\ jobs'[a] = [jobs[a] EXCEPT !.answer = answer]
    BY <1>1, <1>2
  <1>5. /\ jobs'[a].kind = jobs[a].kind
        /\ jobs'[a].exec <=> jobs[a].exec
        /\ jobs'[a].pending <=> jobs[a].pending
        /\ jobs'[a].effect = jobs[a].effect
        /\ jobs'[a].answer = answer
        /\ jobs'[a] \in Jobs
    BY <1>2, <1>4 DEF Jobs
  <1>6. \A j \in DOMAIN jobs: jobs'[j] \in Jobs /\ jobs'[j].kind = jobs[j].kind
    BY <1>4, <1>5, JobsDomain DEF QueueInv
  <1> HIDE DEF a
  <1>7. /\ (jobs \in Seq(Jobs) /\ Len(jobs) <= MaxJobs)'
        /\ Len(jobs') = Len(jobs) /\ DOMAIN jobs' = DOMAIN jobs
        /\ Taken' = Taken /\ \A k: Waiting(k)' = Waiting(k)
    BY <1>1, <1>4, <1>6, EditedJobs
  <1>8. \A k: Owned(k)' = Owned(k)
    <2>1. \A j \in DOMAIN jobs:
            /\ jobs'[j].kind = jobs[j].kind
            /\ jobs'[j].exec <=> jobs[j].exec
            /\ jobs'[j].pending <=> jobs[j].pending
      BY <1>4, <1>5
    <2> QED
      BY <1>7, <2>1, SameOwners
  <1>9. /\ worker' \in [Workers -> WorkerPoints] /\ worker'[w] = "next"
        /\ \A v \in Workers: v # w => worker'[v] = worker[v] /\ at'[v] = at[v]
        /\ at'[w] = 0 /\ at' \in [Workers -> 0..MaxJobs]
    BY <1>1, CapacityAssumption DEF QueueInv, TypeOK, WorkerPoints
  <1>10. TypeOK'
    BY <1>1, <1>7, <1>9 DEF QueueInv, TypeOK
  <1>11. Line'
    BY <1>1, <1>7, <1>9, JobsDomain DEF QueueInv, Line, Busy, Taken
  <1>12. Holders'
    BY <1>1, <1>4, <1>5, <1>7 DEF QueueInv, Holders
  <1>13. Fates'
    <2> SUFFICES ASSUME NEW j \in DOMAIN jobs PROVE Fate(j)'
      BY <1>7 DEF Fates
    <2>1. Fate(j)
      BY DEF QueueInv, Fates
    <2>2. CASE j = a
      BY <1>1, <1>2, <1>5, <1>7, <2>1, <2>2, JobsDomain DEF Fate, QueueInv, Taken
    <2>3. CASE j # a
      BY <1>1, <1>4, <1>7, <2>1, <2>3 DEF Fate
    <2> QED
      BY <2>2, <2>3
  <1>14. Tasks'
    <2> SUFFICES ASSUME NEW v \in Workers, at'[v] # 0
                 PROVE  /\ jobs'[at'[v]].answer = "open"
                        /\ jobs'[at'[v]].exec <=> worker'[v] # "send"
                        /\ jobs'[at'[v]].effect = "none" <=> worker'[v] = "run"
      BY DEF Tasks
    <2>1. v # w /\ at'[v] = at[v] /\ worker'[v] = worker[v]
      BY <1>9
    <2>2. worker[v] \in Busy
      BY <2>1 DEF QueueInv, Line
    <2>3. jobs'[at[v]] = jobs[at[v]]
      BY <1>2, <1>4, <2>1, <2>2, TaskExists
    <2> QED
      BY <2>1, <2>2, <2>3, TaskExists
  <1>15. Slots' /\ Bounded'
    BY <1>1, <1>7, <1>8 DEF QueueInv, Slots, Bounded, Capacity, OwnedCapacity
  <1>16. Ending'
    <2>1. closing # "closed"
      BY <1>1 DEF QueueInv, Ending, CloseCertain
    <2> QED
      BY <1>1, <2>1 DEF QueueInv, Ending
  <1>17. UnknownStopsOrdinary'
    <2>1. \A j \in DOMAIN jobs: jobs'[j].kind = jobs[j].kind /\ jobs'[j].effect = jobs[j].effect
      BY <1>4, <1>5
    <2> QED
      BY <1>7, <2>1, SameEffects
  <1> QED
    BY <1>10, <1>11, <1>12, <1>13, <1>14, <1>15, <1>16, <1>17 DEF QueueInv

----------------------------------------------------------------------------
(* Steps that move jobs through the queue.                                 *)

(* Queue::next with nothing to take.                                       *)
LEMMA IdleInductive ==
  ASSUME QueueInv, NEW w \in Workers, NEW p \in {"wait", "exited"},
         worker[w] = "next", worker' = [worker EXCEPT ![w] = p],
         UNCHANGED <<queue, jobs, at, held, fenced, doubt, closing, faults>>
  PROVE  QueueInv'
  <1>1. UNCHANGED <<entries, count, owned, open, stopping>>
    BY DEF queue
  <1>2. /\ worker' \in [Workers -> WorkerPoints] /\ worker'[w] = p
        /\ \A v \in Workers: v # w => worker'[v] = worker[v]
    BY DEF QueueInv, TypeOK, WorkerPoints
  <1>3. at[w] = 0
    BY DEF QueueInv, Line, Busy
  <1>4. TypeOK'
    BY <1>1, <1>2, SameJobs DEF QueueInv, TypeOK
  <1>5. Line'
    BY <1>1, <1>2, <1>3, SameJobs DEF QueueInv, Line, Busy
  <1>6. Tasks'
    BY <1>1, <1>2, <1>3 DEF QueueInv, Tasks
  <1>7. Holders'
    BY DEF QueueInv, Holders
  <1>8. Ending'
    <2>1. closing # "closed"
      BY DEF QueueInv, Ending, CloseCertain
    <2> QED
      BY <2>1 DEF QueueInv, Ending
  <1> QED
    BY <1>1, <1>4, <1>5, <1>6, <1>7, <1>8, SameJobs DEF QueueInv

(* Queue::next takes the oldest job that waits.                            *)
LEMMA TakeInductive ==
  ASSUME QueueInv, NEW w \in Workers, worker[w] = "next", entries # <<>>,
         at' = [at EXCEPT ![w] = Head(entries)],
         entries' = Tail(entries),
         count' = [count EXCEPT ![Class(jobs[Head(entries)].kind)] = @ - 1],
         worker' = [worker EXCEPT ![w] = "run"],
         UNCHANGED <<owned, open, stopping, jobs, held, fenced, doubt, closing, faults>>
  PROVE  QueueInv'
  <1> DEFINE h == Head(entries)
  <1>1. /\ entries \in Seq(1..MaxJobs) /\ Len(entries) \in Nat /\ Len(entries) # 0
        /\ DOMAIN entries = 1..Len(entries)
        /\ DOMAIN jobs = 1..Len(jobs) /\ Len(jobs) \in Nat /\ Len(entries) <= Len(jobs)
        /\ h = entries[1]
    <2>1. entries \in Seq(1..MaxJobs) /\ Len(entries) <= Len(jobs)
      BY DEF QueueInv, TypeOK, Line
    <2>2. Len(entries) # 0
      BY <2>1, EmptySeq
    <2>3. h = entries[1]
      BY <2>1
    <2> QED
      BY <2>1, <2>2, <2>3, JobsDomain DEF QueueInv
  <1>2. /\ h = Taken + 1 /\ h \in DOMAIN jobs /\ h \in 1..MaxJobs /\ Taken \in Nat
    <2>1. h = Taken + 1
      BY <1>1 DEF QueueInv, Line
    <2>2. h \in 1..MaxJobs
      BY <1>1, HeadTailProperties
    <2>3. Taken \in Nat /\ Taken < Len(jobs)
      BY <1>1 DEF Taken
    <2> QED
      BY <1>1, <2>1, <2>2, <2>3
  <1>3. /\ entries' \in Seq(1..MaxJobs) /\ Len(entries') = Len(entries) - 1
        /\ DOMAIN entries' = 1..(Len(entries) - 1)
        /\ \A i \in 1..(Len(entries) - 1): entries'[i] = entries[i + 1]
    BY <1>1, HeadTailProperties, LenProperties
  <1>4. Taken' = Taken + 1
    BY <1>1, <1>3 DEF Taken
  <1> HIDE DEF h
  <1>5. /\ worker' \in [Workers -> WorkerPoints] /\ worker'[w] = "run"
        /\ \A v \in Workers: v # w => worker'[v] = worker[v] /\ at'[v] = at[v]
        /\ at' \in [Workers -> 0..MaxJobs] /\ at'[w] = h
    BY <1>2 DEF QueueInv, TypeOK, WorkerPoints, h
  <1>6. /\ jobs[h].exec /\ jobs[h].effect = "none" /\ jobs[h].answer = "open"
    BY <1>2 DEF QueueInv, Fates, Fate
  <1>7. ASSUME NEW k \in Classes
        PROVE  count'[k] \in Nat /\ count'[k] = Cardinality(Waiting(k)') /\ count'[k] <= count[k]
    <2>1. Waiting(k)' = {j \in DOMAIN jobs: j > Taken + 1 /\ Class(jobs[j].kind) = k}
      BY <1>4 DEF Waiting
    <2>2. count[k] = Cardinality(Waiting(k)) /\ IsFiniteSet(Waiting(k)) /\ Cardinality(Waiting(k)) \in Nat
      BY CountedFinite DEF QueueInv, Slots
    <2>3. CASE Class(jobs[h].kind) = k
      <3>1. Waiting(k)' = Waiting(k) \ {h}
        BY <1>1, <1>2, <2>1 DEF Waiting
      <3>2. h \in Waiting(k)
        BY <1>1, <1>2, <2>3 DEF Waiting
      <3>3. Cardinality(Waiting(k) \ {h}) = Cardinality(Waiting(k)) - 1
            /\ Cardinality(Waiting(k) \ {h}) \in Nat
        BY <2>2, <3>2, FS_RemoveElement, FS_CardinalityType
      <3>4. Cardinality(Waiting(k)') = Cardinality(Waiting(k)) - 1
        BY <3>1, <3>3
      <3>5. count'[k] = count[k] - 1
        BY <2>3 DEF QueueInv, TypeOK, h
      <3> QED
        BY <2>2, <3>1, <3>3, <3>4, <3>5
    <2>4. CASE Class(jobs[h].kind) # k
      <3>1. Waiting(k)' = Waiting(k)
        BY <1>1, <1>2, <2>1, <2>4 DEF Waiting
      <3>2. count'[k] = count[k]
        BY <2>4 DEF QueueInv, TypeOK, h
      <3> QED
        BY <2>2, <3>1, <3>2
    <2> QED
      BY <2>3, <2>4
  <1>8. count' \in [Classes -> Nat]
    <2>1. count' = [k \in Classes |-> count'[k]]
      BY DEF QueueInv, TypeOK
    <2> QED
      BY <1>7, <2>1
  <1>9. \A k \in Classes: Owned(k)' = Owned(k)
    BY DEF Owned
  <1>10. TypeOK'
    BY <1>3, <1>5, <1>8 DEF QueueInv, TypeOK
  <1>11. Line'
    <2>1. (Len(entries) <= Len(jobs))'
      BY <1>1, <1>3
    <2>2. (\A i \in DOMAIN entries: entries[i] = Taken + i)'
      <3>1. \A i \in 1..Len(entries): entries[i] = Taken + i
        BY <1>1 DEF QueueInv, Line
      <3>2. \A i \in 1..(Len(entries) - 1): entries'[i] = Taken + 1 + i
        BY <1>1, <1>2, <1>3, <3>1
      <3> QED
        BY <1>3, <1>4, <3>2
    <2>3. (\A v \in Workers: at[v] <= Taken)'
      BY <1>2, <1>4, <1>5 DEF QueueInv, Line, TypeOK
    <2>4. (\A v \in Workers: at[v] # 0 <=> worker[v] \in Busy)'
      BY <1>2, <1>5 DEF QueueInv, Line, Busy
    <2>5. \A v \in Workers: v # w => at[v] # h
      BY <1>2 DEF QueueInv, Line, TypeOK
    <2>6. (\A u, v \in Workers: at[u] = at[v] /\ at[u] # 0 => u = v)'
      BY <1>5, <2>5 DEF QueueInv, Line
    <2>7. (Cardinality(Workers) = 1 => \A v \in Workers: at[v] # 0 => at[v] = Taken)'
      <3>1. ASSUME Cardinality(Workers) = 1, NEW v \in Workers PROVE v = w
        BY <3>1, WorkersAssumption, FS_Singleton
      <3> QED
        BY <1>2, <1>4, <1>5, <3>1
    <2> QED
      BY <2>1, <2>2, <2>3, <2>4, <2>6, <2>7 DEF Line
  <1>12. Holders' /\ UnknownStopsOrdinary'
    BY DEF QueueInv, Holders, UnknownStopsOrdinary
  <1>13. Fates'
    <2> SUFFICES ASSUME NEW j \in DOMAIN jobs PROVE Fate(j)'
      BY DEF Fates
    <2>1. Fate(j)
      BY DEF QueueInv, Fates
    <2> QED
      BY <1>1, <1>2, <1>4, <2>1 DEF Fate
  <1>14. Tasks'
    BY <1>5, <1>6 DEF QueueInv, Tasks
  <1>15. Slots' /\ Bounded'
    <2>1. Slots'
      BY <1>7, <1>9 DEF QueueInv, Slots
    <2>2. \A k \in Classes: count[k] \in Nat /\ count[k] <= Capacity(k) /\ Capacity(k) \in Nat
      BY CapacityOfOwners DEF QueueInv, Bounded, TypeOK
    <2>3. \A k \in Classes: count'[k] <= Capacity(k)
      BY <1>7, <2>2
    <2>4. Bounded'
      BY <2>3 DEF QueueInv, Bounded, Capacity, OwnedCapacity
    <2> QED
      BY <2>1, <2>4
  <1>16. Ending'
    <2>1. closing # "closed"
      BY DEF QueueInv, Ending, CloseCertain
    <2> QED
      BY <2>1 DEF QueueInv, Ending
  <1> QED
    BY <1>10, <1>11, <1>12, <1>13, <1>14, <1>15, <1>16 DEF QueueInv

LEMMA NextOfQueueInductive ==
  ASSUME QueueInv, NEW w \in Workers, Next_(w)
  PROVE  QueueInv'
  <1>1. CASE entries # <<>>
    BY <1>1, TakeInductive DEF Next_
  <1>2. CASE entries = <<>>
    <2>1. PICK p \in {"wait", "exited"}: worker' = [worker EXCEPT ![w] = p]
      BY <1>2 DEF Next_
    <2>2. worker[w] = "next" /\ UNCHANGED <<queue, jobs, at, held, fenced, doubt, closing, faults>>
      BY <1>2 DEF Next_, queue
    <2> QED
      BY <2>1, <2>2, IdleInductive
  <1> QED
    BY <1>1, <1>2

(* Queue::submit: a new job at the end of the queue, owned by its caller   *)
(* and by whoever will execute it.                                         *)
LEMMA SubmitInductive ==
  ASSUME QueueInv, NEW c \in Clients, NEW kind \in Kinds, Submit(c, kind)
  PROVE  QueueInv'
  <1> DEFINE n == Len(jobs) + 1
             class == Class(kind)
             job == [kind |-> kind, exec |-> TRUE, pending |-> TRUE,
                     effect |-> "none", answer |-> "open"]
  <1>1. /\ closing = "out" /\ held[c] = 0 /\ Len(jobs) < MaxJobs
        /\ HasRoom(class)
        /\ count' = [count EXCEPT ![class] = @ + 1]
        /\ owned' = [owned EXCEPT ![class] = @ + 1]
        /\ jobs' = Append(jobs, job)
        /\ entries' = Append(entries, n)
        /\ held' = [held EXCEPT ![c] = n]
        /\ NotifyOne
        /\ UNCHANGED <<open, stopping, at, fenced, doubt, closing, faults>>
    BY DEF Submit, Push, Borrowable
  <1>2. /\ jobs \in Seq(Jobs) /\ DOMAIN jobs = 1..Len(jobs) /\ Len(jobs) \in Nat
        /\ entries \in Seq(1..MaxJobs) /\ DOMAIN entries = 1..Len(entries) /\ Len(entries) \in Nat
        /\ class \in Classes /\ Len(entries) <= Len(jobs)
    BY JobsDomain DEF QueueInv, TypeOK, Line, Classes, Class
  <1>3. job \in Jobs /\ n \in 1..MaxJobs /\ n \in Nat
    BY <1>1, <1>2, CapacityAssumption DEF Jobs
  <1>4. /\ jobs' \in Seq(Jobs) /\ Len(jobs') = n /\ DOMAIN jobs' = 1..n
        /\ \A j \in DOMAIN jobs: jobs'[j] = jobs[j]
        /\ jobs'[n] = job
    <2>1. jobs' \in Seq(Jobs) /\ Len(jobs') = Len(jobs) + 1
      BY <1>1, <1>2, <1>3, AppendProperties
    <2>2. DOMAIN jobs' = 1..Len(jobs')
      BY <2>1, LenProperties
    <2>3. \A j \in 1..Len(jobs): jobs'[j] = jobs[j]
      BY <1>1, <1>2, <1>3, AppendProperties
    <2>4. jobs'[Len(jobs) + 1] = job
      BY <1>1, <1>2, <1>3, AppendProperties
    <2> QED
      BY <1>2, <2>1, <2>2, <2>3, <2>4
  <1>5. /\ entries' \in Seq(1..MaxJobs) /\ Len(entries') = Len(entries) + 1
        /\ DOMAIN entries' = 1..(Len(entries) + 1)
        /\ \A i \in 1..Len(entries): entries'[i] = entries[i]
        /\ entries'[Len(entries) + 1] = n
    BY <1>1, <1>2, <1>3, AppendProperties, LenProperties
  <1>6. /\ jobs'[n].kind = kind /\ jobs'[n].exec /\ jobs'[n].pending
        /\ jobs'[n].effect = "none" /\ jobs'[n].answer = "open"
    BY <1>4
  <1>7. Taken' = Taken /\ Taken \in Nat /\ Taken <= Len(jobs) /\ Taken + Len(entries) = Len(jobs)
    BY <1>2, <1>4, <1>5 DEF Taken
  <1> HIDE DEF job
  <1>8. /\ worker' \in [Workers -> WorkerPoints]
        /\ \A w \in Workers: worker'[w] = worker[w] \/ (worker[w] = "wait" /\ worker'[w] = "next")
    BY <1>1 DEF NotifyOne, QueueInv, TypeOK, WorkerPoints
  <1>9. /\ held' \in [Clients -> 0..MaxJobs] /\ held'[c] = n
        /\ \A b \in Clients: b # c => held'[b] = held[b]
    BY <1>1, <1>3 DEF QueueInv, TypeOK
  <1>10. ASSUME NEW k \in Classes
         PROVE  /\ count'[k] \in Nat /\ count'[k] = Cardinality(Waiting(k)')
                /\ owned'[k] \in Nat /\ owned'[k] = Cardinality(Owned(k)')
                /\ count'[k] <= Capacity(k) /\ owned'[k] <= OwnedCapacity(k)
    <2>1. /\ count[k] = Cardinality(Waiting(k)) /\ owned[k] = Cardinality(Owned(k))
          /\ IsFiniteSet(Waiting(k)) /\ IsFiniteSet(Owned(k))
          /\ count[k] \in Nat /\ owned[k] \in Nat
          /\ count[k] <= Capacity(k) /\ owned[k] <= OwnedCapacity(k)
          /\ Capacity(k) \in Nat /\ OwnedCapacity(k) \in Nat
      BY CountedFinite, CapacityOfOwners DEF QueueInv, Slots, Bounded
    <2>2. n \notin Waiting(k) /\ n \notin Owned(k)
      BY <1>2 DEF Waiting, Owned
    <2>3. CASE k = class
      <3>1. {j \in 1..n: j > Taken /\ Class(jobs'[j].kind) = k} = Waiting(k) \cup {n}
        BY <1>2, <1>4, <1>6, <1>7, <2>3 DEF Waiting
      <3>2. {j \in 1..n: Class(jobs'[j].kind) = k /\ (jobs'[j].exec \/ jobs'[j].pending)}
              = Owned(k) \cup {n}
        BY <1>2, <1>4, <1>6, <2>3 DEF Owned
      <3>3. Waiting(k)' = Waiting(k) \cup {n} /\ Owned(k)' = Owned(k) \cup {n}
        BY <1>4, <1>7, <3>1, <3>2 DEF Waiting, Owned
      <3>4. Cardinality(Waiting(k) \cup {n}) = count[k] + 1 /\ Cardinality(Owned(k) \cup {n}) = owned[k] + 1
        BY <2>1, <2>2, FS_AddElement
      <3>5. count'[k] = count[k] + 1 /\ owned'[k] = owned[k] + 1
        BY <1>1, <2>3 DEF QueueInv, TypeOK
      <3>6. count[k] < Capacity(k) /\ owned[k] < OwnedCapacity(k)
        BY <1>1, <2>3 DEF HasRoom, OwnedCapacity
      <3>7. Cardinality(Waiting(k)') = count[k] + 1 /\ Cardinality(Owned(k)') = owned[k] + 1
        BY <3>3, <3>4
      <3> QED
        BY <2>1, <3>5, <3>6, <3>7
    <2>4. CASE k # class
      <3>1. {j \in 1..n: j > Taken /\ Class(jobs'[j].kind) = k} = Waiting(k)
        BY <1>2, <1>4, <1>6, <1>7, <2>4 DEF Waiting
      <3>2. {j \in 1..n: Class(jobs'[j].kind) = k /\ (jobs'[j].exec \/ jobs'[j].pending)}
              = Owned(k)
        BY <1>2, <1>4, <1>6, <2>4 DEF Owned
      <3>3. Waiting(k)' = Waiting(k) /\ Owned(k)' = Owned(k)
        BY <1>4, <1>7, <3>1, <3>2 DEF Waiting, Owned
      <3>4. count'[k] = count[k] /\ owned'[k] = owned[k]
        BY <1>1, <2>4 DEF QueueInv, TypeOK
      <3> QED
        BY <2>1, <3>3, <3>4
    <2> QED
      BY <2>3, <2>4
  <1>11. count' \in [Classes -> Nat] /\ owned' \in [Classes -> Nat]
    <2>1. count' = [k \in Classes |-> count'[k]] /\ owned' = [k \in Classes |-> owned'[k]]
      BY <1>1 DEF QueueInv, TypeOK
    <2> QED
      BY <1>10, <2>1
  <1>12. TypeOK'
    BY <1>1, <1>3, <1>4, <1>5, <1>8, <1>9, <1>11 DEF QueueInv, TypeOK
  <1>13. Line'
    <2>1. (Len(entries) <= Len(jobs))'
      BY <1>2, <1>4, <1>5
    <2>2. (\A i \in DOMAIN entries: entries[i] = Taken + i)'
      <3>1. \A i \in 1..Len(entries): entries[i] = Taken + i
        BY <1>2 DEF QueueInv, Line
      <3>2. n = Taken + (Len(entries) + 1)
        BY <1>2, <1>7
      <3>3. \A i \in 1..(Len(entries) + 1): entries'[i] = Taken + i
        BY <1>2, <1>5, <3>1, <3>2
      <3> QED
        BY <1>5, <1>7, <3>3
    <2>3. \A w \in Workers: worker'[w] \in Busy <=> worker[w] \in Busy
      BY <1>8 DEF Busy
    <2> QED
      BY <1>1, <1>7, <2>1, <2>2, <2>3 DEF QueueInv, Line
  <1>14. Holders'
    <2>1. \A b \in Clients: held[b] # n
      BY <1>2, JobsDomain DEF QueueInv, Holders
    <2>2. ASSUME NEW b \in Clients, held'[b] # 0
          PROVE  held'[b] \in DOMAIN jobs' /\ jobs'[held'[b]].pending
      <3>1. CASE b = c
        BY <1>3, <1>4, <1>6, <1>9, <3>1
      <3>2. CASE b # c
        <4>1. held'[b] = held[b] /\ held[b] \in DOMAIN jobs /\ jobs[held[b]].pending
          BY <1>9, <2>2, <3>2 DEF QueueInv, Holders
        <4>2. jobs'[held'[b]] = jobs[held[b]] /\ held'[b] \in DOMAIN jobs'
          BY <1>2, <1>4, <4>1
        <4> QED
          BY <4>1, <4>2
      <3> QED
        BY <3>1, <3>2
    <2>3. \A a, b \in Clients: held'[a] = held'[b] /\ held'[a] # 0 => a = b
      BY <1>9, <2>1 DEF QueueInv, Holders
    <2> QED
      BY <2>2, <2>3 DEF Holders
  <1>15. Fates'
    <2> SUFFICES ASSUME NEW j \in 1..n PROVE Fate(j)'
      BY <1>4 DEF Fates
    <2>1. CASE j = n
      BY <1>6, <1>7, <2>1 DEF Fate
    <2>2. CASE j # n
      <3>1. j \in DOMAIN jobs
        BY <1>2, <2>2
      <3>2. Fate(j)
        BY <3>1 DEF QueueInv, Fates
      <3> QED
        BY <1>1, <1>4, <1>7, <3>1, <3>2 DEF Fate
    <2> QED
      BY <2>1, <2>2
  <1>16. Tasks'
    <2> SUFFICES ASSUME NEW w \in Workers, at[w] # 0
                 PROVE  /\ jobs'[at[w]].answer = "open"
                        /\ jobs'[at[w]].exec <=> worker'[w] # "send"
                        /\ jobs'[at[w]].effect = "none" <=> worker'[w] = "run"
      BY <1>1 DEF Tasks
    <2>1. worker[w] \in Busy
      BY DEF QueueInv, Line
    <2>2. worker'[w] = worker[w]
      BY <1>8, <2>1 DEF Busy
    <2> QED
      BY <1>4, <2>1, <2>2, TaskExists
  <1>17. Slots' /\ Bounded'
    <2>1. Slots'
      BY <1>10 DEF Slots
    <2>2. \A k \in Classes: count'[k] <= Capacity(k) /\ owned'[k] <= OwnedCapacity(k)
      BY <1>10
    <2>3. Bounded'
      BY <2>2 DEF Bounded, Capacity, OwnedCapacity
    <2> QED
      BY <2>1, <2>3
  <1>18. Ending'
    BY <1>1 DEF Ending
  <1>19. UnknownStopsOrdinary'
    <2> SUFFICES ASSUME Cardinality(Workers) = 1, NEW j \in 1..n, NEW k \in 1..n,
                        j < k, jobs'[j].effect = "unknown", jobs'[k].kind = "transaction"
                 PROVE  jobs'[k].effect # "committed"
      BY <1>4 DEF UnknownStopsOrdinary
    <2>1. CASE k = n
      BY <1>6, <2>1
    <2>2. CASE k # n
      <3>1. j \in DOMAIN jobs /\ k \in DOMAIN jobs
        BY <1>2, <2>2
      <3> QED
        BY <1>4, <3>1 DEF QueueInv, UnknownStopsOrdinary
    <2> QED
      BY <2>1, <2>2
  <1> QED
    BY <1>12, <1>13, <1>14, <1>15, <1>16, <1>17, <1>18, <1>19 DEF QueueInv

(* A worker panics or its close fails: WorkerExit aborts the queue, and the*)
(* jobs in it lose their executor and their answer.                        *)
LEMMA FailInductive ==
  ASSUME QueueInv, NEW w \in Workers, Fail(w)
  PROVE  QueueInv'
  <1>1. /\ worker[w] = "run" \/ worker[w] = "next"
        /\ jobs' = [j \in DOMAIN jobs |->
                     IF j \in Lost(w) THEN [jobs[j] EXCEPT !.exec = FALSE, !.answer = "broken"] ELSE jobs[j]]
        /\ LetGo(Lost(w), "exec")
        /\ entries' = <<>> /\ count' = [k \in Classes |-> 0] /\ open' = FALSE /\ stopping' = TRUE
        /\ worker' = [Woken EXCEPT ![w] = "dead"]
        /\ fenced' = TRUE
        /\ at' = [at EXCEPT ![w] = 0]
        /\ UNCHANGED <<held, doubt, closing>>
    BY DEF Fail, Die, Abort
  <1>2. faults' \in 0..MaxFaults
    BY CapacityAssumption DEF Fail, Fault, QueueInv, TypeOK
  <1>3. /\ DOMAIN jobs = 1..Len(jobs) /\ Len(jobs) \in Nat
        /\ DOMAIN entries = 1..Len(entries) /\ Len(entries) \in Nat /\ Len(entries) <= Len(jobs)
        /\ \A j \in DOMAIN jobs: jobs[j] \in Jobs
        /\ Taken \in Nat /\ Taken + Len(entries) = Len(jobs)
    BY JobsDomain DEF QueueInv, Line, Taken
  <1>4. ASSUME NEW j, j \in Lost(w)
        PROVE  /\ j \in DOMAIN jobs /\ jobs[j].exec /\ jobs[j].effect = "none"
               /\ jobs[j].answer = "open"
               /\ j > Taken \/ j = at[w]
    <2>1. CASE j \in Queued
      <3>1. PICK i \in DOMAIN entries: j = entries[i]
        BY <2>1 DEF Queued
      <3>2. j = Taken + i
        BY <3>1 DEF QueueInv, Line
      <3>3. j \in DOMAIN jobs /\ j > Taken
        BY <1>3, <3>2
      <3> QED
        BY <3>3 DEF QueueInv, Fates, Fate
    <2>2. CASE j = at[w] /\ at[w] # 0
      <3>1. worker[w] = "run" /\ worker[w] \in Busy
        BY <1>1, <2>2 DEF QueueInv, Line, Busy
      <3> QED
        BY <2>2, <3>1, TaskExists
    <2> QED
      BY <1>4, <2>1, <2>2 DEF Lost
  <1>5. \A j \in DOMAIN jobs: j > Taken => j \in Lost(w)
    <2> SUFFICES ASSUME NEW j \in DOMAIN jobs, j > Taken PROVE j \in Lost(w)
      OBVIOUS
    <2>1. j - Taken \in DOMAIN entries
      BY <1>3
    <2>2. entries[j - Taken] = j
      BY <1>3, <2>1 DEF QueueInv, Line
    <2> QED
      BY <2>1, <2>2 DEF Lost, Queued
  <1>6. /\ \A j \in DOMAIN jobs: j \notin Lost(w) => jobs'[j] = jobs[j]
        /\ jobs' = [j \in DOMAIN jobs |-> jobs'[j]]
    BY <1>1
  <1>7. ASSUME NEW j \in Lost(w)
        PROVE  /\ jobs'[j].kind = jobs[j].kind
               /\ ~jobs'[j].exec
               /\ jobs'[j].pending <=> jobs[j].pending
               /\ jobs'[j].effect = jobs[j].effect
               /\ jobs'[j].answer = "broken"
               /\ jobs'[j] \in Jobs
    <2>1. jobs'[j] = [jobs[j] EXCEPT !.exec = FALSE, !.answer = "broken"] /\ jobs[j] \in Jobs
      BY <1>1, <1>3, <1>4
    <2> QED
      BY <2>1 DEF Jobs
  <1>8. \A j \in DOMAIN jobs:
          /\ jobs'[j] \in Jobs
          /\ jobs'[j].kind = jobs[j].kind /\ jobs'[j].effect = jobs[j].effect
    BY <1>3, <1>6, <1>7
  <1>9. /\ (jobs \in Seq(Jobs) /\ Len(jobs) <= MaxJobs)'
        /\ Len(jobs') = Len(jobs) /\ DOMAIN jobs' = DOMAIN jobs
    BY <1>6, <1>8, EditedJobs
  <1>10. /\ entries' \in Seq(1..MaxJobs) /\ Len(entries') = 0 /\ DOMAIN entries' = {}
         /\ Taken' = Len(jobs)
    <2>1. entries' \in Seq(1..MaxJobs) /\ Len(entries') = 0
      BY <1>1, EmptySeq
    <2>2. DOMAIN entries' = {}
      <3>1. DOMAIN entries' = 1..0
        BY <2>1, LenProperties
      <3> QED
        BY <3>1
    <2> QED
      BY <1>3, <1>9, <2>1, <2>2 DEF Taken
  <1>11. /\ owned' \in [Classes -> Nat]
         /\ \A k \in Classes: owned'[k] = Cardinality(Owned(k)') /\ owned'[k] <= owned[k]
    <2>1. \A j \in DOMAIN jobs:
            /\ jobs'[j].kind = jobs[j].kind
            /\ jobs'[j].exec <=> jobs[j].exec /\ ~("exec" = "exec" /\ j \in Lost(w))
            /\ jobs'[j].pending <=> jobs[j].pending /\ ~("exec" = "pending" /\ j \in Lost(w))
      BY <1>6, <1>7
    <2>2. \A j \in Lost(w): IF "exec" = "exec" THEN jobs[j].exec ELSE jobs[j].pending
      BY <1>4
    <2>3. Lost(w) \in SUBSET DOMAIN jobs
      BY <1>4
    <2>4. ASSUME NEW ids, ids = Lost(w)
          PROVE  /\ owned' \in [Classes -> Nat]
                 /\ \A k \in Classes: owned'[k] = Cardinality(Owned(k)') /\ owned'[k] <= owned[k]
      <3>1. LetGo(ids, "exec") /\ ids \in SUBSET DOMAIN jobs
        BY <1>1, <2>3, <2>4 DEF LetGo, Freed
      <3> QED
        BY <1>9, <2>1, <2>2, <2>4, <3>1, OwnersCounted DEF QueueInv
    <2> QED
      BY <2>4
  <1>12. /\ worker' \in [Workers -> WorkerPoints] /\ worker'[w] = "dead"
         /\ \A v \in Workers: v # w => worker'[v] = IF worker[v] = "wait" THEN "next" ELSE worker[v]
         /\ at' \in [Workers -> 0..MaxJobs] /\ at'[w] = 0
         /\ \A v \in Workers: v # w => at'[v] = at[v]
    <2>1. Woken \in [Workers -> WorkerPoints]
      BY DEF Woken, QueueInv, TypeOK, WorkerPoints
    <2>2. \A v \in Workers: Woken[v] = IF worker[v] = "wait" THEN "next" ELSE worker[v]
      BY DEF Woken
    <2>3. worker' = [Woken EXCEPT ![w] = "dead"] /\ "dead" \in WorkerPoints
      BY <1>1 DEF WorkerPoints
    <2>4. /\ worker' \in [Workers -> WorkerPoints] /\ worker'[w] = "dead"
          /\ \A v \in Workers: v # w => worker'[v] = Woken[v]
      BY <2>1, <2>3
    <2>5. /\ at' \in [Workers -> 0..MaxJobs] /\ at'[w] = 0
          /\ \A v \in Workers: v # w => at'[v] = at[v]
      <3>1. 0 \in 0..MaxJobs /\ at \in [Workers -> 0..MaxJobs]
        BY CapacityAssumption DEF QueueInv, TypeOK
      <3>2. at' = [at EXCEPT ![w] = 0]
        BY <1>1
      <3> QED
        BY <3>1, <3>2
    <2> QED
      BY <2>2, <2>4, <2>5
  <1>13. TypeOK'
    <2>1. count' \in [Classes -> Nat]
      BY <1>1
    <2> QED
      BY <1>1, <1>2, <1>9, <1>10, <1>11, <1>12, <2>1 DEF QueueInv, TypeOK
  <1>14. Line'
    <2>1. (\A v \in Workers: at[v] <= Taken)'
      <3>1. \A v \in Workers: at[v] \in Nat /\ at[v] <= Taken
        BY DEF QueueInv, Line, TypeOK
      <3> QED
        BY <1>3, <1>10, <1>12, <3>1
    <2>2. (\A v \in Workers: at[v] # 0 <=> worker[v] \in Busy)'
      BY <1>12 DEF QueueInv, Line, Busy
    <2>3. (\A u, v \in Workers: at[u] = at[v] /\ at[u] # 0 => u = v)'
      BY <1>12 DEF QueueInv, Line
    <2>4. (Cardinality(Workers) = 1 => \A v \in Workers: at[v] # 0 => at[v] = Taken)'
      <3>1. ASSUME Cardinality(Workers) = 1, NEW v \in Workers PROVE v = w
        BY <3>1, WorkersAssumption, FS_Singleton
      <3> QED
        BY <1>12, <3>1
    <2> QED
      BY <1>3, <1>9, <1>10, <2>1, <2>2, <2>3, <2>4 DEF Line
  <1>15. Holders'
    BY <1>1, <1>6, <1>7, <1>9 DEF QueueInv, Holders
  <1>16. Fates'
    <2> SUFFICES ASSUME NEW j \in DOMAIN jobs PROVE Fate(j)'
      BY <1>9 DEF Fates
    <2>1. Fate(j) /\ ~(j > Taken')
      BY <1>3, <1>10 DEF QueueInv, Fates
    <2>2. CASE j \in Lost(w)
      <3>1. ~jobs[j].pending => doubt
        BY <1>4, <2>1, <2>2 DEF Fate
      <3> QED
        BY <1>1, <1>4, <1>7, <2>1, <2>2, <3>1 DEF Fate
    <2>3. CASE j \notin Lost(w)
      BY <1>1, <1>6, <2>1, <2>3 DEF Fate
    <2> QED
      BY <2>2, <2>3
  <1>17. Tasks'
    <2> SUFFICES ASSUME NEW v \in Workers, at'[v] # 0
                 PROVE  /\ jobs'[at'[v]].answer = "open"
                        /\ jobs'[at'[v]].exec <=> worker'[v] # "send"
                        /\ jobs'[at'[v]].effect = "none" <=> worker'[v] = "run"
      BY DEF Tasks
    <2>1. v # w /\ at'[v] = at[v] /\ worker[v] \in Busy
      BY <1>12 DEF QueueInv, Line
    <2>2. worker'[v] = worker[v]
      BY <1>12, <2>1 DEF Busy
    <2>3. at[v] \notin Lost(w)
      <3>1. at[v] # at[w] /\ at[v] <= Taken
        BY <1>12, <2>1, TaskExists
      <3> QED
        BY <1>3, <1>4, <3>1, <2>1, TaskExists
    <2>4. jobs'[at[v]] = jobs[at[v]]
      BY <1>6, <2>1, <2>3, TaskExists
    <2> QED
      BY <2>1, <2>2, <2>4, TaskExists
  <1>18. Slots' /\ Bounded'
    <2>1. ASSUME NEW k \in Classes PROVE Cardinality(Waiting(k)') = 0
      <3>1. {j \in DOMAIN jobs': j > Taken' /\ Class(jobs'[j].kind) = k} = {}
        BY <1>3, <1>9, <1>10
      <3>2. Waiting(k)' = {}
        BY <3>1 DEF Waiting
      <3> QED
        BY <3>2, FS_EmptySet
    <2>2. Slots'
      BY <1>1, <1>11, <2>1 DEF Slots
    <2>3. \A k \in Classes: owned[k] <= OwnedCapacity(k) /\ OwnedCapacity(k) \in Nat /\ Capacity(k) \in Nat
      BY CapacityOfOwners DEF QueueInv, Bounded
    <2>4. \A k \in Classes: owned'[k] <= OwnedCapacity(k) /\ count'[k] <= Capacity(k)
      <3>1. \A k \in Classes: count'[k] = 0 /\ owned[k] \in Nat /\ owned'[k] \in Nat
        BY <1>1, <1>11 DEF QueueInv, TypeOK
      <3> QED
        BY <1>11, <2>3, <3>1
    <2>5. Bounded'
      BY <2>4 DEF Bounded, Capacity, OwnedCapacity
    <2> QED
      BY <2>2, <2>5
  <1>19. Ending'
    <2>1. closing # "closed"
      BY <1>1 DEF QueueInv, Ending, CloseCertain
    <2> QED
      BY <1>1, <2>1 DEF QueueInv, Ending
  <1>20. UnknownStopsOrdinary'
    BY <1>8, <1>9, SameEffects
  <1> QED
    BY <1>13, <1>14, <1>15, <1>16, <1>17, <1>18, <1>19, <1>20 DEF QueueInv
----------------------------------------------------------------------------
(* The invariant and what follows from it.                                 *)

LEMMA QueueStarts == Init => QueueInv
  <1> SUFFICES ASSUME Init PROVE QueueInv
    OBVIOUS
  <1>1. /\ jobs = <<>> /\ Len(jobs) = 0 /\ DOMAIN jobs = {} /\ jobs \in Seq(Jobs)
        /\ entries = <<>> /\ Len(entries) = 0 /\ DOMAIN entries = {} /\ entries \in Seq(1..MaxJobs)
        /\ Taken = 0
    <2>1. jobs = <<>> /\ entries = <<>>
      BY DEF Init
    <2>2. jobs \in Seq(Jobs) /\ Len(jobs) = 0 /\ entries \in Seq(1..MaxJobs) /\ Len(entries) = 0
      BY <2>1, EmptySeq
    <2>3. DOMAIN jobs = 1..0 /\ DOMAIN entries = 1..0
      BY <2>2, LenProperties
    <2>4. Taken = 0
      BY <2>2 DEF Taken
    <2> QED
      BY <2>1, <2>2, <2>3, <2>4
  <1>2. TypeOK
    <2>1. jobs \in Seq(Jobs) /\ Len(jobs) <= MaxJobs /\ entries \in Seq(1..MaxJobs)
      BY <1>1, CapacityAssumption
    <2>2. worker \in [Workers -> WorkerPoints] /\ at \in [Workers -> 0..MaxJobs] /\ held \in [Clients -> 0..MaxJobs]
      BY CapacityAssumption DEF Init, WorkerPoints
    <2>3. count \in [Classes -> Nat] /\ owned \in [Classes -> Nat]
      BY DEF Init
    <2>4. open \in BOOLEAN /\ stopping \in BOOLEAN /\ fenced \in BOOLEAN /\ doubt \in BOOLEAN
      BY DEF Init
    <2>5. closing \in ClosePoints /\ faults \in 0..MaxFaults
      BY CapacityAssumption DEF Init, ClosePoints
    <2> QED
      BY <2>1, <2>2, <2>3, <2>4, <2>5 DEF TypeOK
  <1>3. Line /\ Holders /\ Fates /\ Tasks /\ Ending /\ UnknownStopsOrdinary
    BY <1>1 DEF Init, Line, Holders, Fates, Tasks, Ending, UnknownStopsOrdinary, Busy
  <1>4. \A k \in Classes: Waiting(k) = {} /\ Owned(k) = {}
    BY <1>1 DEF Waiting, Owned
  <1>5. Slots
    BY <1>4, FS_EmptySet DEF Init, Slots
  <1>6. Bounded
    BY CapacityOfOwners DEF Init, Bounded
  <1> QED
    BY <1>2, <1>3, <1>5, <1>6 DEF QueueInv

LEMMA QueueInductive == QueueInv /\ [Next]_vars => QueueInv'
  <1> SUFFICES ASSUME QueueInv, [Next]_vars PROVE QueueInv'
    OBVIOUS
  <1>1. CASE UNCHANGED vars
    <2>1. /\ UNCHANGED <<entries, count, owned, open, stopping>>
          /\ UNCHANGED <<jobs, worker, at, held, fenced, doubt, closing, faults>>
      BY <1>1 DEF vars, queue
    <2>2. TypeOK'
      BY <2>1, SameJobs DEF QueueInv, TypeOK
    <2>3. Line' /\ Holders' /\ Tasks' /\ Ending'
      BY <2>1, SameJobs DEF QueueInv, Line, Holders, Tasks, Ending, CloseCertain
    <2> QED
      BY <2>1, <2>2, <2>3, SameJobs DEF QueueInv
  <1>2. ASSUME NEW c \in Clients, NEW kind \in Kinds, Submit(c, kind) PROVE QueueInv'
    BY <1>2, SubmitInductive
  <1>3. ASSUME NEW c \in Clients, Wait(c) \/ Abandon(c) \/ Forget(c) PROVE QueueInv'
    BY <1>3, ReleaseInductive, ForgetInductive
  <1>4. CASE RefuseDoubtful \/ OwnershipLost \/ StopOrdinary
    BY <1>4, FenceInductive
  <1>5. ASSUME NEW w \in Workers, Worker(w) \/ Fail(w) PROVE QueueInv'
    BY <1>5, NextOfQueueInductive, RunInductive, ReleaseSlotInductive, SendInductive, FailInductive
       DEF Worker
  <1>6. CASE Close \/ Joined
    BY <1>6, CloseInductive, JoinedInductive
  <1> QED
    BY <1>1, <1>2, <1>3, <1>4, <1>5, <1>6 DEF Next

LEMMA QueueInvHolds == Spec => []QueueInv
  BY QueueStarts, QueueInductive, PTL DEF Spec

(* The state of the queue is well typed; in particular the numbers that    *)
(* Drop for Admission and Queue::next decrement never go below zero.       *)
THEOREM QueueTypeCorrect == Spec => []TypeOK
  <1>1. QueueInv => TypeOK
    BY DEF QueueInv
  <1> QED
    BY <1>1, QueueInvHolds, PTL

(* The numbers compared with the capacities count exactly the jobs that    *)
(* wait and the jobs somebody still owns, and stay within them: Forget,    *)
(* Abandon and a dying worker neither leak nor free a slot twice.          *)
THEOREM SlotsAreExact == Spec => [](Slots /\ Bounded)
  <1>1. QueueInv => Slots /\ Bounded
    BY DEF QueueInv
  <1> QED
    BY <1>1, QueueInvHolds, PTL

(* With one writer, nothing that was admitted after a transaction of       *)
(* unknown outcome commits as an ordinary transaction: write_job looks at  *)
(* the fences when the job runs.                                           *)
THEOREM UnknownFencesTheWriter == Spec => []UnknownStopsOrdinary
  <1>1. QueueInv => UnknownStopsOrdinary
    BY DEF QueueInv
  <1> QED
    BY <1>1, QueueInvHolds, PTL

(* Database::close succeeds on an authority without doubt only if every    *)
(* admitted job ran, its outcome is known and its caller has seen it.      *)
THEOREM CleanCloseProves == Spec => []CleanCloseIsProof
  <1>1. QueueInv => CleanCloseIsProof
    <2> SUFFICES ASSUME QueueInv, closing = "closed", ~doubt, NEW j \in DOMAIN jobs
                 PROVE  jobs[j].answer = "seen" /\ jobs[j].effect \notin {"none", "unknown"}
      BY DEF CleanCloseIsProof
    <2> DEFINE k == Class(jobs[j].kind)
    <2>1. k \in Classes
      BY DEF Class, Classes
    <2>2. owned[k] = 0
      BY <2>1 DEF QueueInv, Ending, CloseCertain
    <2>3. Owned(k) = {}
      BY <2>1, <2>2, CountedFinite, FS_EmptySet DEF QueueInv, Slots
    <2>4. ~jobs[j].pending
      BY <2>3 DEF Owned
    <2>5. Fate(j)
      BY DEF QueueInv, Fates
    <2> QED
      BY <2>4, <2>5 DEF Fate
  <1> QED
    BY <1>1, QueueInvHolds, PTL
============================================================================
