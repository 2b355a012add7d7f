----------------------------- MODULE JobSession -----------------------------
(***************************************************************************)
(* crates/librairii-app/src/native_jobs/scheduler.rs: one job session --   *)
(* the coordinator thread, the worker threads and the UI's Handle -- over  *)
(* the job store of OperationRows.                                         *)
(*                                                                         *)
(* One action is one critical section of the state mutex or one call of    *)
(* the store; a store call can fail without effect, or commit (or not)     *)
(* without the caller being told.  A crash loses everything but the rows.  *)
(***************************************************************************)
EXTENDS OperationRows, Sequences

CONSTANTS
    Workers,        \* the librairii-job-N threads
    Coordinator,    \* the librairii-job-source thread
    QueueCapacity,  \* Configuration::queue_capacity
    Outcomes,       \* reports an executor can return (plus "cancelled")
    None,
    Budget,         \* persist: three writes, three readbacks
    FaultyCalls,    \* the store calls that may fail in this instance
    MaxFaults,      \* bound: failures of store calls
    MaxPanics,      \* bound: executor panics
    MaxSessions     \* bound: sessions over the same library

Calls == {"startup", "create", "create_readback", "cancel", "scan", "fetch", "start",
          "start_readback", "complete", "finish", "interrupt", "readback", "cleanup"}

Threads == Workers \cup {Coordinator}

ASSUME SessionAssumption ==
    /\ Coordinator \notin Workers
    /\ QueueCapacity \in Nat \ {0}
    /\ Budget \in Nat \ {0}
    /\ Outcomes \subseteq Reported
    /\ None \notin Ops \cup Items
    /\ MaxFaults \in Nat /\ MaxPanics \in Nat /\ MaxSessions \in Nat
    /\ FaultyCalls \subseteq Calls

VARIABLES
    s,          \* State: what the mutex protects
    token,      \* the Cancellation of each in-flight item
    fenced,     \* Database: ordinary transactions are refused for good
    owner,      \* Shared.metadata_owner
    pc,         \* where each thread is
    cmd,        \* the terminal command a thread persists
    try,        \* locals of admit/start/persist: unknown, writes, reads
    work,       \* the item a worker owns
    res,        \* Execution.resources of a worker is Some
    intr,       \* what persist returned to a worker: an interruption
    loc,        \* locals of one turn of the coordinator loop
    ran,        \* history: how often an item's executor was entered
    asked,      \* history: starts offered, cancellations accepted
    bound       \* faults, panics and sessions so far

session == <<s, token, fenced, owner>>
locals == <<pc, cmd, try, work, res, intr, loc>>
vars == <<op, item, s, token, fenced, owner, pc, cmd, try, work, res, intr, loc, ran, asked, bound>>

NoCommand == [do |-> "none", op |-> None, item |-> {}, state |-> "none"]
Fresh == [unknown |-> FALSE, writes |-> 0, reads |-> 0]

NewState ==
    [ready |-> FALSE, stopping |-> FALSE, done |-> FALSE, failed |-> FALSE,
     ingress |-> None, admitting |-> FALSE, admission |-> None, accepted |-> FALSE,
     cancel |-> None, queue |-> <<>>, inflight |-> {}]

NewTurn ==
    [start |-> None, cancel |-> None, stopping |-> FALSE, quiet |-> FALSE, empty |-> FALSE,
     fetched |-> None, flag |-> FALSE]

AtEntry == [t \in Threads |-> IF t = Coordinator THEN "startup" ELSE "idle"]
Idle(value) == [w \in Workers |-> value]

Init ==
    /\ RowsInit
    /\ s = NewState
    /\ token = [i \in Items |-> FALSE]
    /\ fenced = FALSE
    /\ owner = FALSE
    /\ pc = AtEntry
    /\ cmd = [t \in Threads |-> NoCommand]
    /\ try = [t \in Threads |-> Fresh]
    /\ work = Idle(None)
    /\ res = Idle(FALSE)
    /\ intr = Idle(FALSE)
    /\ loc = NewTurn
    /\ ran = [i \in Items |-> 0]
    /\ asked = [offered |-> {}, cancelled |-> {}]
    /\ bound = [faults |-> 0, panics |-> 0, sessions |-> 1]

----------------------------------------------------------------------------
(* Answers of the store.                                                   *)

Answered == UNCHANGED <<fenced, bound>>

Faulty(call) ==
    /\ call \in FaultyCalls
    /\ bound.faults < MaxFaults
    /\ bound' = [bound EXCEPT !.faults = @ + 1]

(* Refused, rolled back or unreadable: proven to have had no effect.       *)
Unavailable(call) == Faulty(call) /\ UNCHANGED <<fenced, op, item>>

(* The library's ownership could not be revalidated: enqueue fences the    *)
(* database and the call is rejected, without effect.                      *)
Disowned(call) == Faulty(call) /\ fenced' = TRUE /\ UNCHANGED rows

(* CommitUncertain: write_job fences the database; Effect may have been    *)
(* committed all the same.                                                 *)
Uncertain(call, Effect) == Faulty(call) /\ fenced' = TRUE /\ (Effect \/ UNCHANGED rows)

CancelTokens(I) == [i \in Items |-> token[i] \/ i \in I]

InflightOf(o) == {i \in s.inflight : OpOf[i] = o}

Goto(t, point) == pc' = [pc EXCEPT ![t] = point]

----------------------------------------------------------------------------
(* Handle: the UI thread.                                                  *)

try_start(o) ==
    /\ o \notin asked.offered                    \* every operation has a new id
    /\ s.ready /\ ~s.stopping /\ ~s.done /\ ~s.admitting
    /\ s.ingress = None /\ s.admission = None
    /\ s' = [s EXCEPT !.ingress = o]
    /\ asked' = [asked EXCEPT !.offered = @ \cup {o}]
    /\ UNCHANGED <<rows, token, fenced, owner, locals, ran, bound>>

take_admission ==
    /\ s.admission # None
    /\ s' = [s EXCEPT !.admission = None, !.accepted = FALSE]
    /\ UNCHANGED <<rows, token, fenced, owner, locals, ran, asked, bound>>

cancel(o) ==
    /\ o \in asked.offered
    /\ ~s.stopping /\ ~s.done /\ s.cancel = None
    /\ s' = [s EXCEPT !.cancel = o]
    /\ token' = CancelTokens(InflightOf(o))
    /\ asked' = [asked EXCEPT !.cancelled = @ \cup {o}]
    /\ UNCHANGED <<rows, fenced, owner, locals, ran, bound>>

shutdown ==
    /\ ~s.stopping
    /\ s' = [s EXCEPT !.stopping = TRUE]
    /\ token' = CancelTokens(s.inflight)
    /\ UNCHANGED <<rows, fenced, owner, locals, ran, asked, bound>>

Handle ==
    \/ \E o \in Ops : try_start(o) \/ cancel(o)
    \/ take_admission
    \/ shutdown

----------------------------------------------------------------------------
(* persist and reconcile_interrupt, shared by the workers (CompleteItem)   *)
(* and the coordinator (Finish).                                           *)

(* persist returns: a worker settles what it owns; the coordinator starts  *)
(* its loop again.                                                         *)
Persisted(t, interruption) ==
    /\ Goto(t, IF t = Coordinator THEN "top" ELSE "settle")
    /\ loc' = IF t = Coordinator THEN NewTurn ELSE loc
    /\ intr' = [w \in Workers |-> IF w = t THEN interruption ELSE intr[w]]
    /\ cmd' = IF t = Coordinator THEN [cmd EXCEPT ![t] = NoCommand] ELSE cmd
    /\ try' = [try EXCEPT ![t] = Fresh]

(* One attempt or readback more; the budget's last one escalates.          *)
Again(t, next) ==
    /\ Goto(t, IF next.writes >= Budget \/ next.reads >= Budget THEN "escalate" ELSE "persist")
    /\ try' = [try EXCEPT ![t] = next]
    /\ UNCHANGED <<cmd, intr, loc>>

ConflictInterrupted(c) == Inspect(c) = "conflict" /\ op[c.op].state = "interrupted"

PersistWrite(t) ==
    LET c == cmd[t]
        seen == Inspect(c)
        applies == seen = "unapplied" /\ WriteAllowed(c)
        apply == applies /\ Write(c)
        wrote(u) == [try[t] EXCEPT !.writes = @ + 1, !.unknown = u]
    IN /\ pc[t] = "persist"
       /\ ~try[t].unknown
       /\ \/ /\ Answered /\ apply /\ Persisted(t, FALSE)
          \/ /\ Answered /\ ~applies /\ UNCHANGED rows
             /\ IF seen = "matching" THEN Persisted(t, FALSE)
                ELSE IF ConflictInterrupted(c) THEN Persisted(t, TRUE)
                ELSE Again(t, wrote(seen = "unknown"))
          \/ /\ Unavailable(c.do)
             /\ Again(t, wrote(FALSE))
          \/ /\ Uncertain(c.do, apply)
             /\ Again(t, wrote(TRUE))
       /\ UNCHANGED <<s, token, owner, work, res, ran, asked>>

PersistRead(t) ==
    LET c == cmd[t]
        seen == Inspect(c)
        unread == [try[t] EXCEPT !.reads = @ + 1]
    IN /\ pc[t] = "persist"
       /\ try[t].unknown
       /\ \/ /\ Answered /\ UNCHANGED rows
             /\ IF seen = "matching" THEN Persisted(t, FALSE)
                ELSE IF ConflictInterrupted(c) THEN Persisted(t, TRUE)
                ELSE IF seen = "unapplied" THEN Again(t, [try[t] EXCEPT !.unknown = FALSE])
                ELSE Again(t, unread)
          \/ /\ Unavailable("readback")
             /\ Again(t, unread)
       /\ UNCHANGED <<s, token, owner, work, res, ran, asked>>

(* Variant: the budget is spent and the report is taken for saved.         *)
EscalateGivesUp(t) ==
    /\ pc[t] = "escalate"
    /\ Persisted(t, FALSE)
    /\ UNCHANGED <<rows, s, token, fenced, owner, work, res, ran, asked, bound>>

(* The budget is spent: wake the operation's siblings and replace the      *)
(* command by an interruption of the whole operation.                      *)
Escalate(t) ==
    /\ pc[t] = "escalate"
    /\ token' = CancelTokens(InflightOf(cmd[t].op))
    /\ Goto(t, "reconcile")
    /\ try' = [try EXCEPT ![t] = Fresh]
    /\ UNCHANGED <<rows, s, fenced, owner, cmd, work, res, intr, loc, ran, asked, bound>>

(* reconcile_interrupt: no budget; only an interrupted operation ends it.  *)
Reconcile(t) ==
    LET c == InterruptCommand(cmd[t].op)
        applies == Inspect(c) = "unapplied" /\ WriteAllowed(c)
        apply == applies /\ Write(c)
        over == op[c.op].state = "interrupted"
        stay(u) == /\ try' = [try EXCEPT ![t].unknown = u]
                   /\ UNCHANGED <<pc, cmd, intr, loc>>
    IN /\ pc[t] = "reconcile"
       /\ \/ /\ ~try[t].unknown /\ Answered /\ apply /\ Persisted(t, TRUE)
          \/ /\ Answered /\ UNCHANGED rows
             /\ try[t].unknown \/ ~applies
             /\ IF over THEN Persisted(t, TRUE)
                ELSE stay(try[t].unknown /\ Inspect(c) # "unapplied")
          \/ /\ ~try[t].unknown /\ Uncertain("interrupt", apply) /\ stay(TRUE)
          \/ /\ ~try[t].unknown /\ Faulty("interrupt")         \* committed, but no view
             /\ apply /\ stay(TRUE) /\ UNCHANGED fenced
          \/ /\ Unavailable(IF try[t].unknown THEN "readback" ELSE "interrupt")
             /\ stay(try[t].unknown)
       /\ UNCHANGED <<s, token, owner, work, res, ran, asked>>

Persist(t) == PersistWrite(t) \/ PersistRead(t) \/ Escalate(t) \/ Reconcile(t)

----------------------------------------------------------------------------
(* worker.                                                                 *)

WorkerUnchanged == UNCHANGED <<owner, cmd, res, intr, loc, ran, asked>>

(* A worker leaves only once the session is done, even before the queue is *)
(* empty.                                                                  *)
WorkerExit(w) ==
    /\ pc[w] = "idle"
    /\ s.done
    /\ Goto(w, "exit")
    /\ UNCHANGED <<rows, s, token, fenced, try, work, bound>>
    /\ WorkerUnchanged

Pop(w) ==
    /\ pc[w] = "idle"
    /\ ~s.done
    /\ s.queue # <<>>
    /\ s' = [s EXCEPT !.queue = Tail(@)]
    /\ work' = [work EXCEPT ![w] = Head(s.queue)]
    /\ token' = IF s.stopping THEN CancelTokens({Head(s.queue)}) ELSE token
    /\ Goto(w, "start")
    /\ UNCHANGED <<rows, fenced, try, bound>>
    /\ WorkerUnchanged

(* start: start_item until it is known to have happened, or the operation  *)
(* turns out to be interrupted.                                            *)
Start(w) ==
    LET i == work[w]
        started == Goto(w, "check") /\ try' = [try EXCEPT ![w] = Fresh]
        doubt(u) == UNCHANGED pc /\ try' = [try EXCEPT ![w].unknown = u]
        apply == StartAllowed(i) /\ StartItem(i)
    IN /\ pc[w] = "start"
       /\ ~try[w].unknown
       /\ \/ Answered /\ apply /\ started
          \/ Answered /\ ~StartAllowed(i) /\ UNCHANGED rows /\ doubt(TRUE)
          \/ Unavailable("start") /\ \E u \in BOOLEAN : doubt(u)
          \/ Uncertain("start", apply) /\ doubt(TRUE)
       /\ UNCHANGED <<s, token, work>>
       /\ WorkerUnchanged

StartReadback(w) ==
    LET i == work[w]
        go(point) == Goto(w, point) /\ try' = [try EXCEPT ![w] = Fresh]
    IN /\ pc[w] = "start"
       /\ try[w].unknown
       /\ UNCHANGED rows
       /\ \/ /\ Answered
             /\ IF op[OpOf[i]].state = "interrupted" THEN go("release")
                ELSE IF item[i] = "running" THEN go("check")
                ELSE IF item[i] = "pending" THEN go("start")
                ELSE UNCHANGED <<pc, try>>
          \/ Unavailable("start_readback") /\ UNCHANGED <<pc, try>>
       /\ UNCHANGED <<s, token, work>>
       /\ WorkerUnchanged

(* A cancelled token skips the executor: a report without resources.       *)
SkipCancelled(w) ==
    /\ pc[w] = "check"
    /\ token[work[w]]
    /\ cmd' = [cmd EXCEPT ![w] = CompleteCommand(work[w], "cancelled")]
    /\ res' = [res EXCEPT ![w] = FALSE]
    /\ Goto(w, "persist")
    /\ UNCHANGED <<rows, session, try, work, intr, loc, ran, asked, bound>>

Execute(w) ==
    /\ pc[w] = "check"
    /\ ~token[work[w]]
    /\ ran' = [ran EXCEPT ![work[w]] = @ + 1]
    /\ Goto(w, "execute")
    /\ UNCHANGED <<rows, session, cmd, try, work, res, intr, loc, asked, bound>>

(* The executor returns its report and whether it still owns resources.    *)
(* Only a cancelled token makes it report a cancellation.                  *)
Executed(w, state, resources) ==
    /\ pc[w] = "execute"
    /\ state \in Outcomes \cup (IF token[work[w]] THEN {"cancelled"} ELSE {})
    /\ cmd' = [cmd EXCEPT ![w] = CompleteCommand(work[w], state)]
    /\ res' = [res EXCEPT ![w] = resources]
    /\ Goto(w, "persist")
    /\ UNCHANGED <<rows, session, try, work, intr, loc, ran, asked, bound>>

(* ... with an effect it must take back first; compensate() is retried     *)
(* until it succeeds.                                                      *)
ExecutedCompensating(w) ==
    /\ pc[w] = "execute"
    /\ cmd' = [cmd EXCEPT ![w] = CompleteCommand(work[w], "failed")]
    /\ res' = [res EXCEPT ![w] = TRUE]
    /\ Goto(w, "compensate")
    /\ UNCHANGED <<rows, session, try, work, intr, loc, ran, asked, bound>>

Compensate(w) ==
    /\ pc[w] = "compensate"
    /\ Goto(w, "persist")
    /\ UNCHANGED <<rows, session, cmd, try, work, res, intr, loc, ran, asked, bound>>

(* ... or a compensation without the resources it needs: the session       *)
(* fails and the item stays in flight.                                     *)
CompensateLost(w) ==
    /\ pc[w] = "execute"
    /\ bound.panics < MaxPanics
    /\ bound' = [bound EXCEPT !.panics = @ + 1]
    /\ fenced' = TRUE
    /\ s' = [s EXCEPT !.failed = TRUE, !.done = TRUE]
    /\ Goto(w, "exit")
    /\ UNCHANGED <<rows, token, owner, cmd, try, work, res, intr, loc, ran, asked>>

(* guarded: the executor panics.                                           *)
Panic(w) ==
    /\ pc[w] = "execute"
    /\ bound.panics < MaxPanics
    /\ bound' = [bound EXCEPT !.panics = @ + 1]
    /\ fenced' = TRUE
    /\ s' = [s EXCEPT !.failed = TRUE, !.done = TRUE, !.stopping = TRUE]
    /\ token' = CancelTokens(s.inflight)
    /\ Goto(w, "exit")
    /\ UNCHANGED <<rows, owner, cmd, try, work, res, intr, loc, ran, asked>>

(* settle() is retried until it takes the resources.                       *)
Settle(w) ==
    /\ pc[w] = "settle"
    /\ res' = [res EXCEPT ![w] = FALSE]
    /\ Goto(w, "release")
    /\ UNCHANGED <<rows, session, cmd, try, work, intr, loc, ran, asked, bound>>

(* Variant: the item stays in flight.                                      *)
ReleaseKeepsInflight(w) ==
    /\ pc[w] = "release"
    /\ owner' = (owner /\ Kind[OpOf[work[w]]] # "metadata_sync")
    /\ work' = [work EXCEPT ![w] = None]
    /\ cmd' = [cmd EXCEPT ![w] = NoCommand]
    /\ intr' = [intr EXCEPT ![w] = FALSE]
    /\ Goto(w, "idle")
    /\ UNCHANGED <<rows, s, token, fenced, try, res, loc, ran, asked, bound>>

Release(w) ==
    /\ pc[w] = "release"
    /\ owner' = (owner /\ Kind[OpOf[work[w]]] # "metadata_sync")
    /\ s' = [s EXCEPT !.inflight = @ \ {work[w]}]
    /\ work' = [work EXCEPT ![w] = None]
    /\ cmd' = [cmd EXCEPT ![w] = NoCommand]
    /\ intr' = [intr EXCEPT ![w] = FALSE]
    /\ Goto(w, "idle")
    /\ UNCHANGED <<rows, token, fenced, try, res, loc, ran, asked, bound>>

WorkerStep(w) ==
    \/ Pop(w) \/ WorkerExit(w) \/ Start(w) \/ StartReadback(w) \/ SkipCancelled(w) \/ Execute(w)
    \/ \E state \in Reported, resources \in BOOLEAN : Executed(w, state, resources)
    \/ ExecutedCompensating(w) \/ Compensate(w)
    \/ Persist(w) \/ Settle(w) \/ Release(w)

----------------------------------------------------------------------------
(* coordinator.                                                            *)

At(point) == pc[Coordinator] = point
GotoC(point) == Goto(Coordinator, point)

(* `continue': the next turn of the loop, its locals not yet read.         *)
Continue == GotoC("top") /\ loc' = NewTurn
CoordinatorUnchanged == UNCHANGED <<cmd, work, res, intr, ran, asked>>

Startup ==
    /\ At("startup")
    /\ \/ /\ \/ Answered /\ RecoverAllowed /\ RecoverStartup
             \/ Faulty("startup") /\ fenced' = TRUE /\ RecoverAllowed /\ RecoverStartup
          /\ s' = [s EXCEPT !.ready = TRUE]
          /\ GotoC("top")
       \/ /\ Unavailable("startup")                                  \* retried
          /\ UNCHANGED <<s, pc>>
       \/ /\ Uncertain("startup", RecoverAllowed /\ RecoverStartup)  \* refused
          /\ s' = [s EXCEPT !.failed = TRUE, !.done = TRUE]
          /\ GotoC("exit")
    /\ UNCHANGED <<token, owner, try, loc>>
    /\ CoordinatorUnchanged

(* The head of the loop: done is read in a critical section of its own.    *)
Top ==
    /\ At("top")
    /\ GotoC(IF s.done THEN "exit" ELSE "take")
    /\ UNCHANGED <<rows, session, try, loc, bound>>
    /\ CoordinatorUnchanged

(* Variant: a turn takes one command and forgets the other.                *)
TakeOneOnly ==
    /\ At("take")
    /\ loc' = [loc EXCEPT !.start = s.ingress, !.stopping = s.stopping,
                          !.cancel = IF s.ingress = None THEN s.cancel ELSE None]
    /\ s' = [s EXCEPT !.ingress = None, !.admitting = s.ingress # None, !.cancel = None]
    /\ GotoC("admit")
    /\ UNCHANGED <<rows, token, fenced, owner, try, bound>>
    /\ CoordinatorUnchanged

Take ==
    /\ At("take")
    /\ loc' = [loc EXCEPT !.start = s.ingress, !.cancel = s.cancel, !.stopping = s.stopping]
    /\ s' = [s EXCEPT !.ingress = None, !.admitting = s.ingress # None, !.cancel = None]
    /\ GotoC("admit")
    /\ UNCHANGED <<rows, token, fenced, owner, try, bound>>
    /\ CoordinatorUnchanged

Admitted(accepted) ==
    /\ s' = [s EXCEPT !.admitting = FALSE, !.admission = loc.start, !.accepted = accepted]
    /\ GotoC("cancel")
    /\ loc' = [loc EXCEPT !.start = None]
    /\ try' = [try EXCEPT ![Coordinator] = Fresh]

(* admit: create until the answer is known.  A fenced database refuses.    *)
Admit ==
    LET o == loc.start
        unknown == try[Coordinator].unknown
        doubt(u) == UNCHANGED <<s, pc, loc>> /\ try' = [try EXCEPT ![Coordinator].unknown = u]
        refused == (Kind[o] = "metadata_sync" /\ owner) \/ fenced \/ ~CreateAllowed(o)
    IN /\ At("admit")
       /\ o # None
       /\ ~unknown
       /\ \/ Answered /\ refused /\ UNCHANGED rows /\ Admitted(FALSE)
          \/ Answered /\ ~refused /\ CreateOp(o) /\ Admitted(TRUE)
          \/ ~refused /\ Unavailable("create") /\ doubt(FALSE)
          \/ ~refused /\ Disowned("create") /\ Admitted(FALSE)
          \/ ~refused /\ Uncertain("create", CreateOp(o)) /\ doubt(TRUE)
       /\ UNCHANGED <<token, owner>>
       /\ CoordinatorUnchanged

(* Variant: an unreadable creation counts as refused.                      *)
AdmitForgets ==
    LET o == loc.start IN
    /\ At("admit")
    /\ o # None
    /\ try[Coordinator].unknown
    /\ UNCHANGED rows
    /\ \/ /\ Answered
          /\ IF op[o].state # "absent" THEN Admitted(TRUE)
             ELSE UNCHANGED <<s, pc, loc>> /\ try' = [try EXCEPT ![Coordinator] = Fresh]
       \/ Unavailable("create_readback") /\ Admitted(FALSE)
    /\ UNCHANGED <<token, owner>>
    /\ CoordinatorUnchanged

AdmitReadback ==
    LET o == loc.start IN
    /\ At("admit")
    /\ o # None
    /\ try[Coordinator].unknown
    /\ UNCHANGED rows
    /\ \/ /\ Answered
          /\ IF op[o].state # "absent" THEN Admitted(TRUE)
             ELSE UNCHANGED <<s, pc, loc>> /\ try' = [try EXCEPT ![Coordinator] = Fresh]
       \/ Unavailable("create_readback") /\ UNCHANGED <<s, pc, loc, try>>
    /\ UNCHANGED <<token, owner>>
    /\ CoordinatorUnchanged

AdmitNothing ==
    /\ At("admit")
    /\ loc.start = None
    /\ GotoC("cancel")
    /\ UNCHANGED <<rows, session, try, loc, bound>>
    /\ CoordinatorUnchanged

(* request_cancel, then cancel_all when stopping; each until answered.  A  *)
(* request for an operation that is not active is rejected, without effect.*)
CancelOne ==
    /\ At("cancel")
    /\ loc.cancel # None
    /\ \/ /\ Answered /\ RequestCancel(loc.cancel)
          /\ loc' = [loc EXCEPT !.cancel = None]
       \/ /\ Disowned("cancel")
          /\ loc' = [loc EXCEPT !.cancel = None]
       \/ /\ Unavailable("cancel") \/ Uncertain("cancel", RequestCancel(loc.cancel))
          /\ UNCHANGED loc
    /\ UNCHANGED <<s, token, owner, try, pc>>
    /\ CoordinatorUnchanged

CancelRest ==
    /\ At("cancel")
    /\ loc.cancel = None
    /\ \/ /\ Answered
          /\ IF loc.stopping THEN CancelAll ELSE UNCHANGED rows
          /\ GotoC("check")
       \/ /\ loc.stopping
          /\ Unavailable("cancel") \/ Uncertain("cancel", CancelAll)
          /\ UNCHANGED pc
    /\ UNCHANGED <<s, token, owner, try, loc>>
    /\ CoordinatorUnchanged

(* Tokens follow the durable cancel flag; a flag that cannot be read       *)
(* leaves its token alone.                                                 *)
CheckTokens ==
    LET asking == {i \in s.inflight : loc.stopping \/ op[OpOf[i]].cancel} IN
    /\ At("check")
    /\ \/ Answered /\ token' = CancelTokens(asking)
       \/ Faulty("scan") /\ UNCHANGED <<fenced, token>>
    /\ GotoC("scan")
    /\ UNCHANGED <<rows, s, owner, try, loc>>
    /\ CoordinatorUnchanged

(* ready_to_finish, leaving out operations that still have items in        *)
(* flight: the first one found is finished.                                *)
FinishScan ==
    LET ready == ReadyToFinish({OpOf[i] : i \in s.inflight}) IN
    /\ At("scan")
    /\ UNCHANGED rows
    /\ \/ /\ Answered
          /\ \E o \in ready :
                /\ cmd' = [cmd EXCEPT ![Coordinator] = FinishCommand(o)]
                /\ GotoC("persist")
          /\ UNCHANGED loc
       \/ /\ \/ Answered /\ ready = {} /\ loc' = [loc EXCEPT !.quiet = TRUE]
             \/ Unavailable("scan") /\ UNCHANGED loc
          /\ GotoC("fetch")
          /\ UNCHANGED cmd
    /\ UNCHANGED <<s, token, owner, try, work, res, intr, ran, asked>>

QueueHasRoom == Len(s.queue) < QueueCapacity

(* next_pending, then the operation's cancel flag.  Both are read before   *)
(* the lock is taken again by Push.                                        *)
Fetch ==
    LET pending == NextPending(s.inflight) IN
    /\ At("fetch")
    /\ UNCHANGED rows
    /\ \/ /\ ~QueueHasRoom
          /\ Answered
          /\ GotoC("drain")
          /\ UNCHANGED <<owner, loc>>
       \/ /\ QueueHasRoom
          /\ \E i \in pending :
                /\ owner' = (owner \/ Kind[OpOf[i]] = "metadata_sync")
                /\ \/ /\ Answered
                      /\ loc' = [loc EXCEPT !.fetched = i, !.flag = op[OpOf[i]].cancel]
                      /\ GotoC("push")
                   \/ /\ Unavailable("fetch")              \* the flag is unreadable
                      /\ Continue
       \/ /\ QueueHasRoom
          /\ \/ Answered /\ pending = {} /\ loc' = [loc EXCEPT !.empty = TRUE]
             \/ Unavailable("fetch") /\ UNCHANGED loc
          /\ GotoC("drain")
          /\ UNCHANGED owner
    /\ UNCHANGED <<s, token, try>>
    /\ CoordinatorUnchanged

(* The work was chosen without the lock: what was asked since is honoured. *)
PushToken(i) ==
    loc.stopping \/ loc.flag \/ s.stopping \/ s.cancel = OpOf[i]

Push ==
    LET i == loc.fetched IN
    /\ At("push")
    /\ IF s.done
       THEN GotoC("exit") /\ UNCHANGED <<s, token, loc>>
       ELSE /\ s' = [s EXCEPT !.inflight = @ \cup {i}, !.queue = Append(@, i)]
            /\ token' = [token EXCEPT ![i] = PushToken(i)]
            /\ Continue
    /\ UNCHANGED <<rows, fenced, owner, try, bound>>
    /\ CoordinatorUnchanged

(* Nothing pending, nothing to finish, nobody owns work, and the stop was  *)
(* seen before all that was read.                                          *)
Drained == loc.empty /\ loc.quiet /\ loc.stopping /\ s.inflight = {}

Drain ==
    /\ At("drain")
    /\ IF Drained THEN GotoC("recheck") /\ UNCHANGED loc ELSE Continue
    /\ UNCHANGED <<rows, session, try, bound>>
    /\ CoordinatorUnchanged

(* Variant: the scan is not repeated.                                      *)
RecheckNothing ==
    /\ At("recheck")
    /\ UNCHANGED rows
    /\ Answered
    /\ GotoC("cleanup")
    /\ UNCHANGED <<s, token, owner, try, loc>>
    /\ CoordinatorUnchanged

(* A worker may have released the last item of an operation after the scan *)
(* left that operation out.                                                *)
Recheck ==
    /\ At("recheck")
    /\ UNCHANGED rows
    /\ \/ Answered /\ ReadyToFinish({}) = {} /\ GotoC("cleanup") /\ UNCHANGED loc
       \/ Answered /\ ReadyToFinish({}) # {} /\ Continue
       \/ Unavailable("scan") /\ Continue
    /\ UNCHANGED <<s, token, owner, try>>
    /\ CoordinatorUnchanged

(* shutdown_cleanup: retried, or refused for good.                         *)
Cleanup ==
    /\ At("cleanup")
    /\ UNCHANGED rows
    /\ \/ /\ Answered
          /\ s' = [s EXCEPT !.done = TRUE]
          /\ GotoC("exit")
       \/ Unavailable("cleanup") /\ UNCHANGED <<s, pc>>
       \/ /\ Faulty("cleanup")
          /\ fenced' = TRUE
          /\ s' = [s EXCEPT !.failed = TRUE, !.done = TRUE]
          /\ GotoC("exit")
    /\ UNCHANGED <<token, owner, try, loc>>
    /\ CoordinatorUnchanged

CoordinatorStep ==
    \/ Startup \/ Top \/ Take \/ Admit \/ AdmitReadback \/ AdmitNothing
    \/ CancelOne \/ CancelRest \/ CheckTokens \/ FinishScan \/ Fetch \/ Push
    \/ Drain \/ Recheck \/ Cleanup \/ Persist(Coordinator)

----------------------------------------------------------------------------
(* Sessions.                                                               *)

(* The next session over the same library: after the threads were joined,  *)
(* or because the process died -- every thread, token, resource and fence  *)
(* is then gone, and only the rows are left.                               *)
Restart ==
    /\ bound.sessions < MaxSessions
    /\ bound' = [bound EXCEPT !.sessions = @ + 1]
    /\ s' = NewState
    /\ token' = [i \in Items |-> FALSE]
    /\ fenced' = FALSE
    /\ owner' = FALSE
    /\ pc' = AtEntry
    /\ cmd' = [t \in Threads |-> NoCommand]
    /\ try' = [t \in Threads |-> Fresh]
    /\ work' = Idle(None)
    /\ res' = Idle(FALSE)
    /\ intr' = Idle(FALSE)
    /\ loc' = NewTurn
    /\ UNCHANGED <<rows, ran, asked>>


Next ==
    \/ Handle
    \/ CoordinatorStep
    \/ \E w \in Workers : WorkerStep(w) \/ CompensateLost(w) \/ Panic(w)
    \/ Restart

Spec == Init /\ [][Next]_vars

(* The threads are scheduled; executors return; compensate() and settle()  *)
(* eventually succeed.                                                     *)
Fairness ==
    /\ WF_vars(CoordinatorStep)
    /\ \A w \in Workers : WF_vars(WorkerStep(w))

FairSpec == Spec /\ Fairness

----------------------------------------------------------------------------
Points == {"startup", "top", "take", "admit", "cancel", "check", "scan", "fetch", "push", "drain",
           "recheck", "cleanup", "idle", "start", "execute", "compensate", "settle", "release",
           "persist", "escalate", "reconcile", "exit"}

States == [ready: BOOLEAN, stopping: BOOLEAN, done: BOOLEAN, failed: BOOLEAN,
           ingress: Ops \cup {None}, admitting: BOOLEAN, admission: Ops \cup {None},
           accepted: BOOLEAN, cancel: Ops \cup {None}, queue: Seq(Items),
           inflight: SUBSET Items]
Turns == [start: Ops \cup {None}, cancel: Ops \cup {None}, stopping: BOOLEAN,
          quiet: BOOLEAN, empty: BOOLEAN, fetched: Items \cup {None}, flag: BOOLEAN]
Tries == [unknown: BOOLEAN, writes: Nat, reads: Nat]
Bounds == [faults: Nat, panics: Nat, sessions: Nat]

TypeOK ==
    /\ RowsType
    /\ s \in States
    /\ Len(s.queue) <= QueueCapacity
    /\ token \in [Items -> BOOLEAN]
    /\ fenced \in BOOLEAN
    /\ owner \in BOOLEAN
    /\ pc \in [Threads -> Points]
    /\ cmd \in [Threads -> Commands \cup {NoCommand}]
    /\ try \in [Threads -> Tries]
    /\ work \in [Workers -> Items \cup {None}]
    /\ res \in [Workers -> BOOLEAN]
    /\ intr \in [Workers -> BOOLEAN]
    /\ loc \in Turns
    /\ ran \in [Items -> Nat]
    /\ asked \in [offered: SUBSET Ops, cancelled: SUBSET Ops]
    /\ bound \in Bounds

(* No item's effect is ever executed twice, whatever was retried, lost or  *)
(* restarted in between.                                                   *)
ExecutedAtMostOnce == \A i \in Items : ran[i] <= 1

(* An accepted cancellation is never lost on its way to the row; and it,   *)
(* like a shutdown, reaches every in-flight item, also one that was being  *)
(* fetched while it was asked.                                             *)
CancelIsRecorded ==
    /\ \A o \in asked.cancelled :
          s.ready /\ Active(o) => op[o].cancel \/ s.cancel = o \/ loc.cancel = o
    /\ \A i \in s.inflight : s.stopping \/ OpOf[i] \in asked.cancelled => token[i]

(* Resources are settled only against a durable outcome: the item's own    *)
(* report, or the interruption of its operation.                           *)
SettlementIsDurable ==
    \A w \in Workers : pc[w] = "settle" =>
        IF intr[w]
        THEN op[OpOf[work[w]]].state = "interrupted" /\ item[work[w]] \in ItemEnds
        ELSE item[work[w]] = cmd[w].state

(* drained (status()): the session ended without failure only when no      *)
(* operation is left active, nothing is in flight and no offered start was *)
(* dropped.                                                                *)
DrainedIsQuiescent ==
    s.done /\ ~s.failed =>
        /\ \A o \in Ops : ~Active(o)
        /\ s.inflight = {} /\ s.queue = <<>>
        /\ s.ingress = None /\ ~s.admitting

(* The acknowledgement the UI takes says whether the operation exists.     *)
AdmissionIsTrue ==
    s.admission # None => (s.accepted <=> op[s.admission].state # "absent")

----------------------------------------------------------------------------
(* The rows of every session history are a legal operation log; the        *)
(* counter completed_items is implementation detail.                       *)
Log == INSTANCE OperationLog WITH
    status <- [o \in Ops |-> op[o].state],
    asked <- {o \in Ops : op[o].cancel},
    outcome <- item

ImplementsLog == Log!Spec

(* A requested stop drains: the coordinator certifies it and all threads   *)
(* can be joined.                                                          *)
StopDrains == s.stopping ~> \A t \in Threads : pc[t] = "exit"

(* Admitted work ends without anyone asking again.                         *)
WorkEnds == \A o \in Ops : Active(o) /\ s.ready ~> ~Active(o)
============================================================================
