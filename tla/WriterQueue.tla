----------------------------- MODULE WriterQueue -----------------------------
(***************************************************************************)
(* crates/librairii-storage/src/database.rs: the bounded queue between the *)
(* callers of a Database and its SQLite threads, the owned results         *)
(* (Pending), the fences, and the close that certifies a clean end.        *)
(*                                                                         *)
(* With one worker this is the writer, with several the readers.  Jobs are *)
(* numbered in the order of their admission.  An Admission is shared by the*)
(* job and its Pending; its slot is given back when both are gone.         *)
(***************************************************************************)
EXTENDS Naturals, Sequences, FiniteSets

CONSTANTS
    Clients,             \* threads that call the database
    Workers,             \* SQLite threads
    Kinds,               \* the kinds of job this queue is given
    OrdinaryCapacity,    \* ORDINARY_QUEUE_CAPACITY
    RepairCapacity,      \* repair_capacity
    MaxJobs,             \* bound: admissions of a run
    MaxFaults            \* bound: failures of a run

ASSUME KindsAssumption == Kinds \subseteq {"transaction", "read", "repair", "barrier"}
ASSUME CapacityAssumption ==
    /\ OrdinaryCapacity \in Nat /\ RepairCapacity \in Nat
    /\ MaxJobs \in Nat /\ MaxFaults \in Nat
ASSUME WorkersAssumption == IsFiniteSet(Workers)

VARIABLES
    entries,     \* QueueState.entries
    count,       \* QueueState.ordinary, .critical
    owned,       \* QueueState.ordinary_owned, .critical_owned
    open,        \* QueueState.ordinary_open
    stopping,    \* QueueState.stopping
    jobs,        \* every admitted job
    worker,      \* where each worker is
    at,          \* the job each worker has taken, or 0
    held,        \* the job whose Pending each client holds, or 0
    fenced,      \* Database.fenced
    doubt,       \* the authority's persistent uncertainty fence
    closing,     \* where Database::close is
    faults

queue == <<entries, count, owned, open, stopping>>
vars == <<queue, jobs, worker, at, held, fenced, doubt, closing, faults>>

Classes == {"ordinary", "critical"}

(* Repairs and barrier reads have reserved capacity and ignore the fences. *)
Class(kind) == IF kind \in {"repair", "barrier"} THEN "critical" ELSE "ordinary"

(* exec, pending: the two owners of the Admission; effect: what the job did*)
(* to the database; answer: its result channel.                            *)
Jobs == [kind: Kinds, exec: BOOLEAN, pending: BOOLEAN,
         effect: {"none", "read", "committed", "refused", "unknown"},
         answer: {"open", "sent", "seen", "broken"}]

WorkerPoints == {"next", "wait", "run", "release", "send", "exited", "dead"}
Gone == {"exited", "dead"}

ClosePoints == {"out", "joining", "closed", "failed"}

TypeOK ==
    /\ entries \in Seq(1..MaxJobs)
    /\ count \in [Classes -> Nat]
    /\ owned \in [Classes -> Nat]
    /\ open \in BOOLEAN /\ stopping \in BOOLEAN
    /\ jobs \in Seq(Jobs) /\ Len(jobs) <= MaxJobs
    /\ worker \in [Workers -> WorkerPoints]
    /\ at \in [Workers -> 0..MaxJobs]
    /\ held \in [Clients -> 0..MaxJobs]
    /\ fenced \in BOOLEAN /\ doubt \in BOOLEAN
    /\ closing \in ClosePoints
    /\ faults \in 0..MaxFaults

Init ==
    /\ entries = <<>>
    /\ count = [k \in Classes |-> 0]
    /\ owned = [k \in Classes |-> 0]
    /\ open = TRUE
    /\ stopping = FALSE
    /\ jobs = <<>>
    /\ worker = [w \in Workers |-> "next"]
    /\ at = [w \in Workers |-> 0]
    /\ held = [c \in Clients |-> 0]
    /\ fenced = FALSE
    /\ doubt = FALSE
    /\ closing = "out"
    /\ faults = 0

Fault == faults < MaxFaults /\ faults' = faults + 1

----------------------------------------------------------------------------
(* Owners of an Admission.                                                 *)

(* Slots given back when `who' lets go of the jobs of a set: Drop for      *)
(* Admission runs for those whose other owner is already gone.             *)
Freed(ids, who, class) ==
    Cardinality({j \in ids: /\ Class(jobs[j].kind) = class
                            /\ IF who = "exec" THEN ~jobs[j].pending
                                               ELSE ~jobs[j].exec})

LetGo(ids, who) ==
    owned' = [k \in Classes |-> owned[k] - Freed(ids, who, k)]

(* Queue::abort: what is queued is dropped, executors and senders with it. *)
Abort ==
    /\ entries' = <<>>
    /\ count' = [k \in Classes |-> 0]
    /\ open' = FALSE
    /\ stopping' = TRUE

Queued == {entries[i]: i \in DOMAIN entries}

(* Variant: nobody is notified.                                            *)
NobodyWoken == worker

(* Condvar::notify_all.                                                    *)
Woken == [w \in Workers |-> IF worker[w] = "wait" THEN "next" ELSE worker[w]]

----------------------------------------------------------------------------
(* Callers.                                                                *)

Capacity(class) ==
    IF class = "critical" THEN RepairCapacity ELSE OrdinaryCapacity

(* Queue::submit's test for QueueFull.                                     *)
HasRoom(class) ==
    /\ count[class] < Capacity(class)
    /\ owned[class] < IF class = "critical" THEN RepairCapacity
                      ELSE OrdinaryCapacity + Cardinality(Workers)

Borrowable == closing = "out"

(* Condvar::notify_one: some waiting worker, if there is one.              *)
NotifyOne ==
    \/ \E w \in Workers: worker[w] = "wait" /\ worker' = [worker EXCEPT ![w] = "next"]
    \/ (\A w \in Workers: worker[w] # "wait") /\ UNCHANGED worker

(* One queue for both classes.                                             *)
Push(kind, j) == Append(entries, j)

(* transaction, read, repair_transaction, barrier_read: enqueue and        *)
(* Queue::submit.  A refusal changes nothing here.                         *)
Submit(c, kind) ==
    /\ Borrowable /\ held[c] = 0 /\ Len(jobs) < MaxJobs
    /\ kind = "transaction" => ~fenced
    /\ Class(kind) = "ordinary" => ~doubt /\ open
    /\ ~stopping
    /\ HasRoom(Class(kind))
    /\ count' = [count EXCEPT ![Class(kind)] = @ + 1]
    /\ owned' = [owned EXCEPT ![Class(kind)] = @ + 1]
    /\ jobs' = Append(jobs, [kind |-> kind, exec |-> TRUE, pending |-> TRUE,
                             effect |-> "none", answer |-> "open"])
    /\ entries' = Push(kind, Len(jobs) + 1)
    /\ held' = [held EXCEPT ![c] = Len(jobs) + 1]
    /\ NotifyOne
    /\ UNCHANGED <<open, stopping, at, fenced, doubt, closing, faults>>

(* enqueue on a doubtful authority: the runtime is fenced as well.         *)
RefuseDoubtful ==
    /\ Borrowable /\ doubt
    /\ ~fenced \/ open
    /\ fenced' = TRUE
    /\ open' = FALSE
    /\ UNCHANGED <<entries, count, owned, stopping, jobs, worker, at, held, doubt, closing, faults>>

(* enqueue when the authority cannot be revalidated.                       *)
OwnershipLost ==
    /\ Borrowable
    /\ Fault
    /\ fenced' = TRUE
    /\ doubt' = TRUE
    /\ open' = FALSE
    /\ UNCHANGED <<entries, count, owned, stopping, jobs, worker, at, held, closing>>

(* Variant: an unread result is dropped without a word.                    *)
QuietDrop(c, seen) == doubt' = doubt

(* Drop for Pending: a result nobody read leaves the authority in doubt.   *)
DropPending(c, seen) == doubt' = (doubt \/ ~seen)

Release(c, answer) ==
    /\ LetGo({held[c]}, "pending")
    /\ jobs' = [jobs EXCEPT ![held[c]].pending = FALSE, ![held[c]].answer = answer]
    /\ held' = [held EXCEPT ![c] = 0]
    /\ UNCHANGED <<entries, count, open, stopping, worker, at, fenced, closing, faults>>

(* Pending::wait returns the result, or WorkerStopped for a broken channel.*)
Wait(c) ==
    /\ held[c] # 0 /\ jobs[held[c]].answer \in {"sent", "broken"}
    /\ DropPending(c, jobs[held[c]].answer = "sent")
    /\ Release(c, IF jobs[held[c]].answer = "sent" THEN "seen" ELSE "broken")

(* The caller returns without waiting.                                     *)
Abandon(c) ==
    /\ held[c] # 0
    /\ DropPending(c, FALSE)
    /\ Release(c, jobs[held[c]].answer)

(* std::mem::forget of a Pending: the borrow ends, the slot stays taken.   *)
Forget(c) ==
    /\ held[c] # 0
    /\ held' = [held EXCEPT ![c] = 0]
    /\ UNCHANGED <<queue, jobs, worker, at, fenced, doubt, closing, faults>>

----------------------------------------------------------------------------
(* Workers.                                                                *)

(* Queue::next.                                                            *)
Next_(w) ==
    /\ worker[w] = "next"
    /\ \/ /\ entries # <<>>
          /\ at' = [at EXCEPT ![w] = Head(entries)]
          /\ entries' = Tail(entries)
          /\ count' = [count EXCEPT ![Class(jobs[Head(entries)].kind)] = @ - 1]
          /\ worker' = [worker EXCEPT ![w] = "run"]
       \/ /\ entries = <<>> /\ ~stopping
          /\ worker' = [worker EXCEPT ![w] = "wait"]
          /\ UNCHANGED <<at, entries, count>>
       \/ /\ entries = <<>> /\ stopping
          /\ worker' = [worker EXCEPT ![w] = "exited"]
          /\ UNCHANGED <<at, entries, count>>
    /\ UNCHANGED <<owned, open, stopping, jobs, held, fenced, doubt, closing, faults>>

Effect(w, effect) == jobs' = [jobs EXCEPT ![at[w]].effect = effect]

(* Variant: the fence is looked at only when the job is admitted.          *)
MayRunUnfenced(w) == TRUE

(* write_job: an ordinary transaction does not run behind a fence.         *)
MayRun(w) == jobs[at[w]].kind = "transaction" => ~fenced /\ ~doubt

Writes(w) == jobs[at[w]].kind \in {"transaction", "repair"}

(* write_job and run_transaction.                                          *)
Run(w) ==
    /\ worker[w] = "run"
    /\ \/ /\ MayRun(w) /\ Effect(w, IF Writes(w) THEN "committed" ELSE "read")
          /\ UNCHANGED <<fenced, doubt, faults>>
       \/ /\ ~MayRun(w) /\ Effect(w, "refused")
          /\ UNCHANGED <<fenced, doubt, faults>>
       \/ /\ MayRun(w) /\ Fault /\ Effect(w, "refused")
          /\ UNCHANGED <<fenced, doubt>>
       \/ /\ MayRun(w) /\ Writes(w) /\ Fault /\ Effect(w, "unknown")
          /\ fenced' = TRUE /\ doubt' = TRUE
    /\ worker' = [worker EXCEPT ![w] = "release"]
    /\ UNCHANGED <<queue, at, held, closing>>

(* drop(execution), before the answer is visible.                          *)
ReleaseSlot(w) ==
    /\ worker[w] = "release"
    /\ LetGo({at[w]}, "exec")
    /\ jobs' = [jobs EXCEPT ![at[w]].exec = FALSE]
    /\ worker' = [worker EXCEPT ![w] = "send"]
    /\ UNCHANGED <<entries, count, open, stopping, at, held, fenced, doubt, closing, faults>>

Send(w) ==
    /\ worker[w] = "send"
    /\ jobs' = [jobs EXCEPT ![at[w]].answer = IF jobs[at[w]].pending THEN "sent" ELSE @]
    /\ at' = [at EXCEPT ![w] = 0]
    /\ worker' = [worker EXCEPT ![w] = "next"]
    /\ UNCHANGED <<queue, held, fenced, doubt, closing, faults>>

(* Jobs that lose their executor and their sender when worker w dies.      *)
Lost(w) == Queued \cup ({at[w]} \ {0})

(* Variant: a dying worker leaves the queue as it is.                      *)
DieAlone(w) ==
    /\ jobs' = [j \in DOMAIN jobs |->
                  IF j = at[w] THEN [jobs[j] EXCEPT !.exec = FALSE, !.answer = "broken"] ELSE jobs[j]]
    /\ LetGo({at[w]} \ {0}, "exec")
    /\ UNCHANGED <<entries, count, open, stopping>>
    /\ worker' = [worker EXCEPT ![w] = "dead"]

(* Drop for WorkerExit: the queue is aborted; waiting callers are answered *)
(* by their broken channels.                                               *)
Die(w) ==
    /\ jobs' = [j \in DOMAIN jobs |->
                  IF j \in Lost(w) THEN [jobs[j] EXCEPT !.exec = FALSE, !.answer = "broken"] ELSE jobs[j]]
    /\ LetGo(Lost(w), "exec")
    /\ Abort
    /\ worker' = [Woken EXCEPT ![w] = "dead"]

(* A panic inside a job, or a failure of the last checkpoint or close.     *)
Fail(w) ==
    /\ worker[w] = "run" \/ (worker[w] = "next" /\ entries = <<>> /\ stopping)
    /\ Fault
    /\ Die(w)
    /\ fenced' = TRUE
    /\ at' = [at EXCEPT ![w] = 0]
    /\ UNCHANGED <<held, doubt, closing>>

Worker(w) == Next_(w) \/ Run(w) \/ ReleaseSlot(w) \/ Send(w)

----------------------------------------------------------------------------
(* Stopping and closing.                                                   *)

StopOrdinary ==
    /\ Borrowable /\ open
    /\ open' = FALSE
    /\ UNCHANGED <<entries, count, owned, stopping, jobs, worker, at, held, fenced, doubt, closing, faults>>

(* Database::close: exclusive, so no Pending is borrowed; stop_ordinary and*)
(* stop_all.                                                               *)
Close ==
    /\ closing = "out"
    /\ \A c \in Clients: held[c] = 0
    /\ closing' = "joining"
    /\ open' = FALSE
    /\ stopping' = TRUE
    /\ worker' = Woken
    /\ UNCHANGED <<entries, count, owned, jobs, at, held, fenced, doubt, faults>>

(* Every thread ended well and every slot was given back.                  *)
CloseCertain ==
    /\ \A w \in Workers: worker[w] = "exited"
    /\ \A k \in Classes: owned[k] = 0

(* The joins, and the verdict.                                             *)
Joined ==
    /\ closing = "joining"
    /\ \A w \in Workers: worker[w] \in Gone
    /\ closing' = IF CloseCertain THEN "closed" ELSE "failed"
    /\ doubt' = (doubt \/ ~CloseCertain)
    /\ UNCHANGED <<queue, jobs, worker, at, held, fenced, faults>>

Next ==
    \/ \E c \in Clients, kind \in Kinds: Submit(c, kind)
    \/ \E c \in Clients: Wait(c) \/ Abandon(c) \/ Forget(c)
    \/ RefuseDoubtful \/ OwnershipLost
    \/ \E w \in Workers: Worker(w) \/ Fail(w)
    \/ StopOrdinary \/ Close \/ Joined

Spec == Init /\ [][Next]_vars

(* The threads run; whoever closes waits for its joins.                    *)
FairSpec == Spec /\ WF_vars(Joined) /\ \A w \in Workers: WF_vars(Worker(w))

----------------------------------------------------------------------------
(* Properties.                                                             *)

(* After a commit whose outcome is unknown no ordinary transaction commits,*)
(* also if it was admitted before: write_job looks at the fence when it    *)
(* runs, not when it is admitted.                                          *)
UnknownStopsOrdinary ==
    Cardinality(Workers) = 1 =>
        \A j, k \in DOMAIN jobs:
            j < k /\ jobs[j].effect = "unknown" /\ jobs[k].kind = "transaction"
                => jobs[k].effect # "committed"

(* A close that succeeds on an authority without doubt is proof that every *)
(* admitted job ran, with a known outcome that its caller has seen.        *)
CleanCloseIsProof ==
    closing = "closed" /\ ~doubt =>
        \A j \in DOMAIN jobs: jobs[j].answer = "seen" /\ jobs[j].effect \notin {"none", "unknown"}

Unanswered(j) ==
    j \in DOMAIN jobs /\ jobs[j].pending /\ jobs[j].answer = "open"

(* Whoever waits is answered, by a result or by a broken channel, also when*)
(* the worker panics.                                                      *)
WaitReturns == \A j \in 1..MaxJobs: Unanswered(j) ~> ~Unanswered(j)

(* close joins its threads whatever state they are in.                     *)
CloseReturns == closing = "joining" ~> closing \in {"closed", "failed"}
============================================================================
