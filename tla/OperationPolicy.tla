-------------------------- MODULE OperationPolicy --------------------------
(***************************************************************************)
(* crates/librairii-core/src/operations: the states of an operation and of *)
(* its items, and the pure policy on them.                                 *)
(***************************************************************************)
EXTENDS Naturals, FiniteSets

CONSTANTS
    Ops,        \* operation identifiers
    Items,      \* operation item identifiers
    OpOf,       \* the operation an item belongs to
    Kind,       \* "import", "export" or "metadata_sync"
    Planned     \* the state an item is created in: "pending", or the outcome
                \* its preflight already decided

Kinds == {"import", "export", "metadata_sync"}

ActiveStates == {"queued", "running"}
EndStates == {"succeeded", "partially_succeeded", "failed", "cancelled", "interrupted"}
OpStates == {"absent"} \cup ActiveStates \cup EndStates

(* Outcomes a report can carry.  "interrupted" stands for the row          *)
(* status='cancelled' written by an interruption: its outcome code and     *)
(* message tell it apart from every reported cancellation.                 *)
Reported == {"succeeded", "skipped", "conflicted", "failed", "cancelled"}
ItemEnds == Reported \cup {"interrupted"}
ItemStates == {"absent", "pending", "running"} \cup ItemEnds

(* A metadata refresh has exactly one item, and no operation is empty      *)
(* (Start::new).                                                           *)
ASSUME PolicyAssumption ==
    /\ IsFiniteSet(Items)
    /\ OpOf \in [Items -> Ops]
    /\ Kind \in [Ops -> Kinds]
    /\ Planned \in [Items -> {"pending"} \cup Reported]
    /\ \A o \in Ops : Kind[o] = "metadata_sync"
          => \A i, j \in Items : OpOf[i] = o /\ OpOf[j] = o => i = j

ItemsOf(o) == {i \in Items : OpOf[i] = o}
Total(o) == Cardinality(ItemsOf(o))

(* What CompletionAggregate says of an operation all of whose items ended, *)
(* by which kinds of ends occur: outcome[i] is how item i ended.           *)
TerminalResult(o, outcome) ==
    LET Some(S) == \E i \in ItemsOf(o) : outcome[i] \in S
        export == Kind[o] = "export"
        success == Some(IF export THEN {"succeeded"} ELSE {"succeeded", "skipped"})
        left_out == export /\ Some({"skipped", "conflicted"})
        cancelled == Some({"cancelled", "interrupted"})
        failure == Some(IF export THEN {"failed"} ELSE {"failed", "conflicted"})
    IN CASE ~failure /\ ~cancelled /\ ~left_out -> "succeeded"
         [] success /\ (failure \/ cancelled \/ left_out) /\ Kind[o] # "metadata_sync"
              -> "partially_succeeded"
         [] ~failure /\ cancelled /\ (Kind[o] = "metadata_sync" \/ ~success) -> "cancelled"
         [] OTHER -> "failed"
============================================================================
