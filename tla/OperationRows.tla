--------------------------- MODULE OperationRows ---------------------------
(***************************************************************************)
(* The tables file_operations and file_operation_items, and the            *)
(* transactions the job store runs on them                                 *)
(* (crates/librairii-storage/src/operations_repository: jobs.rs,           *)
(* policy.rs, creation.rs, recovery.rs).                                   *)
(*                                                                         *)
(* Every action here is the body of one committed SQLite transaction; who  *)
(* calls it, and what the caller learns of the outcome, is JobSession.     *)
(***************************************************************************)
EXTENDS OperationPolicy

VARIABLES
    op,     \* file_operations: status, completed_items, cancel_requested
    item    \* file_operation_items: status

rows == <<op, item>>

Absent == [state |-> "absent", completed |-> 0, cancel |-> FALSE]

Ended(o) == {i \in ItemsOf(o) : item[i] \in ItemEnds}
Active(o) == op[o].state \in ActiveStates

RowsInit ==
    /\ op = [o \in Ops |-> Absent]
    /\ item = [i \in Items |-> "absent"]

RowsType ==
    /\ op \in [Ops -> [state: OpStates, completed: Nat, cancel: BOOLEAN]]
    /\ item \in [Items -> ItemStates]

----------------------------------------------------------------------------
(* Writes.                                                                 *)

(* TerminalRepository::create: one metadata refresh at a time; an          *)
(* operation that already exists is left as it is (same id and time).      *)
CreateAllowed(o) ==
    ~(Kind[o] = "metadata_sync"
        /\ \E p \in Ops \ {o} : Kind[p] = "metadata_sync" /\ Active(p))

(* Variant: items decided by the preflight are not counted.                *)
CreateUncounted(o) ==
    IF op[o].state = "absent"
    THEN /\ op' = [op EXCEPT ![o].state = "queued"]
         /\ item' = [i \in Items |-> IF OpOf[i] = o THEN Planned[i] ELSE item[i]]
    ELSE UNCHANGED rows

CreateOp(o) ==
    IF op[o].state = "absent"
    THEN /\ op' = [op EXCEPT ![o] =
                     [state |-> "queued",
                      completed |-> Cardinality({i \in ItemsOf(o) : Planned[i] # "pending"}),
                      cancel |-> FALSE]]
         /\ item' = [i \in Items |-> IF OpOf[i] = o THEN Planned[i] ELSE item[i]]
    ELSE UNCHANGED rows

(* start_item.                                                             *)
StartAllowed(i) == item[i] = "running" \/ (Active(OpOf[i]) /\ item[i] = "pending")

StartItem(i) ==
    IF item[i] = "running"
    THEN UNCHANGED rows
    ELSE /\ op' = [op EXCEPT ![OpOf[i]].state = "running"]
         /\ item' = [item EXCEPT ![i] = "running"]

RequestCancel(o) ==
    /\ op' = [op EXCEPT ![o].cancel = @ \/ Active(o)]
    /\ UNCHANGED item

CancelAll ==
    /\ op' = [o \in Ops |-> [op[o] EXCEPT !.cancel = @ \/ Active(o)]]
    /\ UNCHANGED item

----------------------------------------------------------------------------
(* The three terminal commands, their inspection and their writes.         *)

CompleteCommand(i, state) == [do |-> "complete", op |-> OpOf[i], item |-> {i}, state |-> state]
FinishCommand(o) == [do |-> "finish", op |-> o, item |-> {}, state |-> TerminalResult(o, item)]
InterruptCommand(o) == [do |-> "interrupt", op |-> o, item |-> {}, state |-> "interrupted"]

Commands ==
    [do: {"complete", "finish", "interrupt"}, op: Ops, item: SUBSET Items,
     state: Reported \cup EndStates]

(* inspect: what the rows say of a command.  Two interruptions differ in   *)
(* finished_at only, and every caller treats a foreign one like its own.   *)
Inspect(c) ==
    LET matching == IF c.do = "complete"
                    THEN \A i \in c.item : item[i] = c.state
                    ELSE op[c.op].completed = Total(c.op) /\ op[c.op].state = c.state
    IN CASE op[c.op].state = "absent" \/ op[c.op].completed # Cardinality(Ended(c.op)) -> "unknown"
         [] OTHER -> IF matching THEN "matching"
                     ELSE IF ~Active(c.op) \/ \E i \in c.item : item[i] \in ItemEnds
                     THEN "conflict"
                     ELSE "unapplied"

(* An exactly_one() that fails rolls the whole transaction back.           *)
WriteAllowed(c) ==
    /\ Active(c.op)
    /\ c.do = "complete" => /\ op[c.op].completed < Total(c.op)
                            /\ \A i \in c.item : item[i] \in {"pending", "running"}
    /\ c.do = "finish" => op[c.op].completed = Total(c.op)

(* Variant: an interruption that also overwrites items that ended.         *)
InterruptedAll(O) ==
    /\ op' = [o \in Ops |-> IF o \in O
                            THEN [op[o] EXCEPT !.state = "interrupted", !.completed = Total(o)]
                            ELSE op[o]]
    /\ item' = [i \in Items |-> IF OpOf[i] \in O THEN "interrupted" ELSE item[i]]

Interrupted(O) ==
    /\ op' = [o \in Ops |-> IF o \in O
                            THEN [op[o] EXCEPT !.state = "interrupted", !.completed = Total(o)]
                            ELSE op[o]]
    /\ item' = [i \in Items |-> IF OpOf[i] \in O /\ item[i] \in {"pending", "running"}
                                THEN "interrupted" ELSE item[i]]

Write(c) ==
    CASE c.do = "complete" ->
           /\ op' = [op EXCEPT ![c.op].completed = @ + 1]
           /\ item' = [i \in Items |-> IF i \in c.item THEN c.state ELSE item[i]]
      [] c.do = "finish" ->
           /\ op' = [op EXCEPT ![c.op].state = c.state]
           /\ UNCHANGED item
      [] c.do = "interrupt" -> Interrupted({c.op})

(* recover_operation_startup: whatever a previous session left unfinished  *)
(* is interrupted before new work is admitted; an operation whose counter  *)
(* disagrees with its items refuses the whole recovery.                    *)
RecoverAllowed == \A o \in Ops : Active(o) => op[o].completed = Cardinality(Ended(o))

(* Variant: what was running is run again.                                 *)
RecoverRequeues ==
    /\ item' = [i \in Items |-> IF item[i] = "running" THEN "pending" ELSE item[i]]
    /\ UNCHANGED op

RecoverStartup == Interrupted({o \in Ops : Active(o)})

(* Variant: a cancelled operation is not finished.                         *)
ReadyUnlessCancelled(excluded) ==
    {o \in Ops \ excluded : Active(o) /\ op[o].completed = Total(o) /\ ~op[o].cancel}

(* ready_to_finish, next_pending: the candidates.  The ORDER BY of both    *)
(* starts with created_at, which is wall-clock text, so the candidates of  *)
(* any operation can be first; the order of the items of one operation is  *)
(* left open, which allows more than the code does.                        *)
ReadyToFinish(excluded) ==
    {o \in Ops \ excluded : Active(o) /\ op[o].completed = Total(o)}

NextPending(excluded) ==
    {i \in Items \ excluded : Active(OpOf[i]) /\ item[i] = "pending"}
============================================================================
