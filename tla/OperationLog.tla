---------------------------- MODULE OperationLog ----------------------------
(***************************************************************************)
(* What the job system promises about durable operations, without threads, *)
(* queues, counters, retries or crashes: the legal histories of an         *)
(* operation and its items.  JobSession implements it.                     *)
(***************************************************************************)
EXTENDS OperationPolicy

VARIABLES
    status,     \* of each operation
    asked,      \* operations whose cancellation is on record
    outcome     \* of each item

log == <<status, asked, outcome>>

Open(o) == status[o] \in ActiveStates
Over(o) == \A i \in ItemsOf(o) : outcome[i] \in ItemEnds

Init ==
    /\ status = [o \in Ops |-> "absent"]
    /\ asked = {}
    /\ outcome = [i \in Items |-> "absent"]

(* An operation appears whole, with the outcomes its preflight decided;    *)
(* metadata refreshes exclude each other.                                  *)
Create(o) ==
    /\ status[o] = "absent"
    /\ Kind[o] = "metadata_sync" => \A p \in Ops : Kind[p] = "metadata_sync" => ~Open(p)
    /\ status' = [status EXCEPT ![o] = "queued"]
    /\ outcome' = [i \in Items |-> IF OpOf[i] = o THEN Planned[i] ELSE outcome[i]]
    /\ UNCHANGED asked

Start(i) ==
    /\ Open(OpOf[i])
    /\ outcome[i] = "pending"
    /\ status' = [status EXCEPT ![OpOf[i]] = "running"]
    /\ outcome' = [outcome EXCEPT ![i] = "running"]
    /\ UNCHANGED asked

(* Only an item that was started is ever reported.                         *)
Complete(i, end) ==
    /\ status[OpOf[i]] = "running"
    /\ outcome[i] = "running"
    /\ outcome' = [outcome EXCEPT ![i] = end]
    /\ UNCHANGED <<status, asked>>

(* An operation ends when its last item did, with the result its items add *)
(* up to.                                                                  *)
Finish(o) ==
    /\ Open(o)
    /\ Over(o)
    /\ status' = [status EXCEPT ![o] = TerminalResult(o, outcome)]
    /\ UNCHANGED <<asked, outcome>>

(* Or it is cut short as a whole; reported items keep their outcome.       *)
Interrupt(O) ==
    /\ \A o \in O : Open(o)
    /\ status' = [o \in Ops |-> IF o \in O THEN "interrupted" ELSE status[o]]
    /\ outcome' = [i \in Items |-> IF OpOf[i] \in O /\ outcome[i] \notin ItemEnds
                                   THEN "interrupted" ELSE outcome[i]]
    /\ UNCHANGED asked

Cancel(O) ==
    /\ \A o \in O : Open(o)
    /\ asked' = asked \cup O
    /\ UNCHANGED <<status, outcome>>

Next ==
    \/ \E o \in Ops : Create(o) \/ Finish(o)
    \/ \E i \in Items : Start(i) \/ \E end \in Reported : Complete(i, end)
    \/ \E O \in SUBSET Ops : Interrupt(O) \/ Cancel(O)

Spec == Init /\ [][Next]_log

----------------------------------------------------------------------------
TypeOK ==
    /\ status \in [Ops -> OpStates]
    /\ asked \subseteq Ops
    /\ outcome \in [Items -> ItemStates]

(* An operation that ended leaves no item behind that a later session      *)
(* could fetch, start or report: next_pending and the recovery look at     *)
(* active operations only.                                                 *)
EndedLeavesNothing ==
    \A i \in Items : status[OpOf[i]] \in EndStates => outcome[i] \in ItemEnds

(* The recorded result of an operation that was not interrupted is the one *)
(* its items' outcomes add up to, for ever.                                *)
ResultMatchesItems ==
    \A o \in Ops : status[o] \in EndStates \ {"interrupted"}
                     => status[o] = TerminalResult(o, outcome)

(* At most one metadata refresh is queued or running.                      *)
OneRefresh ==
    \A o, p \in Ops : /\ Kind[o] = "metadata_sync" /\ Kind[p] = "metadata_sync"
                      /\ Open(o) /\ Open(p)
                      => o = p

(* History is final: no step rewrites an operation that ended or an item   *)
(* that was reported, nor withdraws a cancellation.                        *)
HistoryIsFinal ==
    [][/\ \A o \in Ops : status[o] \in EndStates => status'[o] = status[o]
       /\ \A i \in Items : outcome[i] \in ItemEnds => outcome'[i] = outcome[i]
       /\ asked \subseteq asked']_log
============================================================================
