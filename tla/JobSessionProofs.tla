-------------------------- MODULE JobSessionProofs --------------------------
(***************************************************************************)
(* The job session for any operations, items, workers, queue and budget,   *)
(* any faults of the store, panics and restarts.                           *)
(*                                                                         *)
(* The inductive invariant has a part on the rows alone, and one part for  *)
(* each protocol of the session: admission, ownership of items, execution, *)
(* the reports, cancellation and the drain.                                *)
(***************************************************************************)
EXTENDS JobSession, FiniteSetTheorems, TLAPS

(* The rows of an operation appear together, end together, and the counter *)
(* recovery and inspection compare is the number of items that ended.      *)
RowsAgree ==
    /\ \A o \in Ops : op[o].state = "absent" => ~op[o].cancel
    /\ \A o \in Ops : op[o].state # "absent" => op[o].completed = Cardinality(Ended(o))
    /\ \A i \in Items : op[OpOf[i]].state = "absent" <=> item[i] = "absent"
    /\ \A i \in Items : op[OpOf[i]].state \in EndStates => item[i] \in ItemEnds
    /\ \A i \in Items : item[i] = "running" => op[OpOf[i]].state # "queued"

WorkerPoints == {"idle", "start", "check", "execute", "compensate", "persist", "escalate",
                 "reconcile", "settle", "release", "exit"}
Reporting == {"compensate", "persist", "escalate", "reconcile", "settle"}
Started == Reporting \cup {"check", "execute", "release"}
CoordinatorPoints == Points \ {"idle", "start", "execute", "compensate", "settle", "release"}

(* Where the threads are, and what that says of the session and the turn.  *)
Placed ==
    /\ \A w \in Workers : pc[w] \in WorkerPoints
    /\ pc[Coordinator] \in CoordinatorPoints
    /\ pc[Coordinator] \notin {"startup", "exit"} => s.ready
    /\ pc[Coordinator] = "startup" => ~s.ready
    /\ ~s.ready => s.inflight = {} /\ s.ingress = None
    /\ pc[Coordinator] = "push" => loc.fetched \in Items \ s.inflight /\ QueueHasRoom
    /\ loc.cancel # None => pc[Coordinator] \in {"admit", "cancel"}
    /\ loc.empty => pc[Coordinator] \in {"drain", "recheck", "cleanup", "exit"}
    /\ loc.stopping => s.stopping /\ s.ingress = None

(* An offered start is in one place: the ingress slot, the coordinator's   *)
(* hands, or the acknowledgement; only the coordinator creates it.         *)
Admissions ==
    /\ \A o \in Ops : o \notin asked.offered => op[o].state = "absent"
    /\ s.ingress # None =>
          /\ ~s.admitting /\ s.admission = None
          /\ s.ingress \in asked.offered /\ op[s.ingress].state = "absent"
    /\ s.admitting <=> loc.start # None
    /\ loc.start # None =>
          /\ pc[Coordinator] = "admit" /\ s.admission = None
          /\ loc.start \in asked.offered
          /\ ~try[Coordinator].unknown => op[loc.start].state = "absent"
    /\ AdmissionIsTrue

(* An item is in flight from the push until its release, and in one place: *)
(* once in the queue, or with one worker.                                  *)
Ownership ==
    /\ \A w \in Workers : pc[w] = "idle" => work[w] = None
    /\ \A w \in Workers : pc[w] \in Started \cup {"start"} => work[w] # None
    /\ \A w \in Workers : work[w] # None => work[w] \in s.inflight
    /\ \A v, w \in Workers : work[v] # None /\ work[v] = work[w] => v = w
    /\ \A n \in 1..Len(s.queue) : s.queue[n] \in s.inflight
    /\ \A n \in 1..Len(s.queue), w \in Workers : s.queue[n] # work[w]
    /\ \A m, n \in 1..Len(s.queue) : s.queue[m] = s.queue[n] => m = n

(* What runs is in flight, what was started is never pending again, and    *)
(* what is released has ended.                                             *)
Progress ==
    /\ \A i \in Items : item[i] = "running" /\ s.ready => i \in s.inflight
    /\ \A w \in Workers : pc[w] \in Started => item[work[w]] \notin {"absent", "pending"}
    /\ \A w \in Workers : pc[w] = "release" => item[work[w]] \in ItemEnds

(* An item on its way to an executor has not been there.                   *)
Executions ==
    /\ ExecutedAtMostOnce
    /\ \A i \in Items : item[i] \in {"absent", "pending"} => ran[i] = 0
    /\ \A w \in Workers : pc[w] \in {"start", "check"} => ran[work[w]] = 0
    /\ \A n \in 1..Len(s.queue) : ran[s.queue[n]] = 0
    /\ pc[Coordinator] = "push" => ran[loc.fetched] = 0

(* A worker reports its own item; the coordinator finishes an operation    *)
(* all of whose items ended, with the result they still add up to.         *)
Reports ==
    /\ \A w \in Workers : pc[w] \in Reporting =>
          \E end \in Reported : cmd[w] = CompleteCommand(work[w], end)
    /\ pc[Coordinator] \in {"persist", "escalate", "reconcile"} =>
          \E o \in Ops : /\ cmd[Coordinator] = FinishCommand(o)
                         /\ op[o].state # "absent"
                         /\ Ended(o) = ItemsOf(o)
    /\ SettlementIsDurable

(* The library was disowned under a request: the database is fenced, and   *)
(* the coordinator drops what it was asked.                                *)
Disowning == "cancel" \in FaultyCalls /\ fenced

(* An accepted cancellation is in the slot, in the coordinator's hands, on *)
(* record, or without an operation it could still be about.                *)
Cancellations ==
    /\ asked.cancelled \subseteq asked.offered
    /\ s.cancel # None => s.cancel \in asked.offered
    /\ loc.cancel # None => loc.cancel \in asked.offered \ {s.ingress}
    /\ s.stopping => \A i \in s.inflight : token[i]
    /\ ~Disowning =>
          /\ \A o \in asked.cancelled :
                s.ready /\ (Active(o) \/ s.ingress = o \/ loc.start = o)
                   => op[o].cancel \/ s.cancel = o \/ loc.cancel = o
          /\ pc[Coordinator] = "push" /\ OpOf[loc.fetched] \in asked.cancelled
                => loc.flag \/ s.cancel = OpOf[loc.fetched]
          /\ \A i \in s.inflight : OpOf[i] \in asked.cancelled => token[i]

(* From the fetch that found nothing on, nothing is pending but what is in *)
(* flight; from the last scan on, nothing is active.                       *)
Draining ==
    /\ pc[Coordinator] = "drain" /\ loc.empty =>
          \A i \in Items : item[i] = "pending" => i \in s.inflight
    /\ pc[Coordinator] = "recheck" =>
          loc.stopping /\ s.inflight = {} /\ \A i \in Items : item[i] # "pending"
    /\ pc[Coordinator] = "cleanup" =>
          loc.stopping /\ s.inflight = {} /\ \A o \in Ops : ~Active(o)
    /\ s.done /\ ~s.failed => pc[Coordinator] = "exit"
    /\ DrainedIsQuiescent

SessionInv ==
    /\ TypeOK /\ RowsAgree /\ Placed /\ Admissions /\ Ownership /\ Progress
    /\ Executions /\ Reports /\ Cancellations /\ Draining

----------------------------------------------------------------------------
(* The rows.  What a step of the session can do to them, and for whom.     *)

Creates(o) ==
    /\ pc[Coordinator] = "admit" /\ loc.start = o
    /\ op[o].state = "absent" /\ CreateAllowed(o)
    /\ CreateOp(o)
    /\ loc'.start = None \/ try'[Coordinator].unknown

Starts(w) ==
    /\ pc[w] = "start"
    /\ Active(OpOf[work[w]]) /\ item[work[w]] = "pending"
    /\ StartItem(work[w])

Completes(i, end) ==
    /\ Active(OpOf[i]) /\ item[i] = "running"
    /\ Write(CompleteCommand(i, end))

Finishes(o) ==
    /\ Active(o) /\ Ended(o) = ItemsOf(o)
    /\ Write(FinishCommand(o))

Interrupts(O) == (\A o \in O : Active(o)) /\ Interrupted(O)

Cancels(O) ==
    /\ \A o \in O : Active(o)
    /\ op' = [o \in Ops |-> [op[o] EXCEPT !.cancel = @ \/ o \in O]]
    /\ UNCHANGED item

RowStep ==
    \/ UNCHANGED rows
    \/ \E o \in Ops : Creates(o) \/ Finishes(o)
    \/ \E w \in Workers : work[w] \in Items /\ Starts(w)
    \/ \E i \in Items, end \in Reported : Completes(i, end)
    \/ \E O \in SUBSET Ops : Interrupts(O) \/ Cancels(O)

LEMMA StatesApart ==
    /\ ActiveStates \cap EndStates = {}
    /\ "absent" \notin ActiveStates \cup EndStates
    /\ OpStates = {"absent"} \cup ActiveStates \cup EndStates
    /\ "interrupted" \in EndStates /\ "queued" \in ActiveStates /\ "running" \in ActiveStates
    /\ ItemStates = {"absent", "pending", "running"} \cup ItemEnds
    /\ ItemEnds \cap {"absent", "pending", "running"} = {}
    /\ "interrupted" \in ItemEnds /\ Reported \subseteq ItemEnds
    BY DEF ActiveStates, EndStates, OpStates, ItemEnds, Reported, ItemStates

(* A result is a terminal state, and never the one an interruption leaves. *)
LEMMA ResultIsTerminal ==
    ASSUME NEW o \in Ops, NEW f
    PROVE  TerminalResult(o, f) \in EndStates \ {"interrupted"}
    BY DEF TerminalResult, EndStates

(* CompletionAggregate looks at the items of the operation only.           *)
LEMMA ResultIsLocal ==
    ASSUME NEW o \in Ops, NEW f, NEW g, \A i \in ItemsOf(o) : f[i] = g[i]
    PROVE  TerminalResult(o, f) = TerminalResult(o, g)
<1> DEFINE SomeF(S) == \E i \in ItemsOf(o) : f[i] \in S
           SomeG(S) == \E i \in ItemsOf(o) : g[i] \in S
<1>1. \A S : SomeF(S) <=> SomeG(S)
    OBVIOUS
<1> HIDE DEF SomeF, SomeG
<1>2. /\ SomeF({"succeeded"}) <=> SomeG({"succeeded"})
      /\ SomeF({"succeeded", "skipped"}) <=> SomeG({"succeeded", "skipped"})
      /\ SomeF({"skipped", "conflicted"}) <=> SomeG({"skipped", "conflicted"})
      /\ SomeF({"cancelled", "interrupted"}) <=> SomeG({"cancelled", "interrupted"})
      /\ SomeF({"failed"}) <=> SomeG({"failed"})
      /\ SomeF({"failed", "conflicted"}) <=> SomeG({"failed", "conflicted"})
    BY <1>1
<1> QED
    BY <1>2 DEF TerminalResult, SomeF, SomeG

(* The items of an operation, and those of them that ended, are finite in  *)
(* number; the counter reaches the total when, and only when, all ended.   *)
LEMMA EndedIsFinite ==
    ASSUME RowsType, NEW o \in Ops
    PROVE  /\ IsFiniteSet(ItemsOf(o)) /\ IsFiniteSet(Ended(o)) /\ Ended(o) \subseteq ItemsOf(o)
           /\ Cardinality(Ended(o)) \in Nat /\ Total(o) \in Nat
           /\ Cardinality(Ended(o)) = Total(o) <=> Ended(o) = ItemsOf(o)
<1>1. IsFiniteSet(ItemsOf(o))
    <2>1. ItemsOf(o) \in SUBSET Items BY DEF ItemsOf
    <2> QED BY <2>1, PolicyAssumption, FS_Subset
<1>2. Ended(o) \in SUBSET ItemsOf(o)
    BY DEF Ended
<1>3. IsFiniteSet(Ended(o)) /\ (Cardinality(ItemsOf(o)) = Cardinality(Ended(o)) => ItemsOf(o) = Ended(o))
    BY <1>1, <1>2, FS_Subset
<1>4. Cardinality(Ended(o)) \in Nat /\ Cardinality(ItemsOf(o)) \in Nat
    BY <1>1, <1>3, FS_CardinalityType
<1> QED
    BY <1>1, <1>2, <1>3, <1>4 DEF Total

(* What each kind of step does, row by row.                                *)
LEMMA CreateEffect ==
    ASSUME RowsType, NEW o \in Ops, Creates(o)
    PROVE  /\ \A p \in Ops \ {o} : op'[p] = op[p]
           /\ op[o].state = "absent" /\ op'[o].state = "queued" /\ ~op'[o].cancel
           /\ op'[o].completed = Cardinality({i \in ItemsOf(o) : Planned[i] # "pending"})
           /\ \A i \in Items : item'[i] = IF OpOf[i] = o THEN Planned[i] ELSE item[i]
    BY DEF Creates, CreateOp, RowsType

LEMMA StartEffect ==
    ASSUME RowsType, NEW i \in Items, Active(OpOf[i]), item[i] = "pending", StartItem(i)
    PROVE  /\ \A p \in Ops \ {OpOf[i]} : op'[p] = op[p]
           /\ op'[OpOf[i]].state = "running"
           /\ op'[OpOf[i]].cancel = op[OpOf[i]].cancel
           /\ op'[OpOf[i]].completed = op[OpOf[i]].completed
           /\ item'[i] = "running" /\ \A j \in Items \ {i} : item'[j] = item[j]
<1>1. OpOf[i] \in Ops
    BY PolicyAssumption
<1>2. op' = [op EXCEPT ![OpOf[i]].state = "running"] /\ item' = [item EXCEPT ![i] = "running"]
    BY DEF StartItem
<1> QED
    BY <1>1, <1>2 DEF RowsType

LEMMA CompleteEffect ==
    ASSUME RowsType, NEW i \in Items, NEW end \in Reported, Completes(i, end)
    PROVE  /\ \A o \in Ops : op'[o].state = op[o].state /\ op'[o].cancel = op[o].cancel
           /\ \A o \in Ops \ {OpOf[i]} : op'[o] = op[o]
           /\ op'[OpOf[i]].completed = op[OpOf[i]].completed + 1
           /\ item'[i] = end /\ \A j \in Items \ {i} : item'[j] = item[j]
<1>1. OpOf[i] \in Ops
    BY PolicyAssumption
<1>2. /\ op' = [op EXCEPT ![OpOf[i]].completed = @ + 1]
      /\ item' = [j \in Items |-> IF j = i THEN end ELSE item[j]]
    BY DEF Completes, Write, CompleteCommand
<1> QED
    BY <1>1, <1>2 DEF RowsType

LEMMA FinishEffect ==
    ASSUME RowsType, NEW o \in Ops, Finishes(o)
    PROVE  /\ \A p \in Ops \ {o} : op'[p] = op[p]
           /\ op'[o].state = TerminalResult(o, item)
           /\ op'[o].completed = op[o].completed /\ op'[o].cancel = op[o].cancel
           /\ item' = item
    BY DEF Finishes, Write, FinishCommand, RowsType

LEMMA InterruptEffect ==
    ASSUME RowsType, NEW O \in SUBSET Ops, Interrupts(O)
    PROVE  /\ \A o \in Ops \ O : op'[o] = op[o]
           /\ \A o \in O : /\ op'[o].state = "interrupted" /\ op'[o].completed = Total(o)
                           /\ op'[o].cancel = op[o].cancel
           /\ \A j \in Items : item'[j] = IF OpOf[j] \in O /\ item[j] \in {"pending", "running"}
                                          THEN "interrupted" ELSE item[j]
<1>1. ASSUME NEW o \in Ops \ O PROVE op'[o] = op[o]
    BY DEF Interrupts, Interrupted
<1>2. ASSUME NEW o \in O
      PROVE  /\ op'[o].state = "interrupted" /\ op'[o].completed = Total(o)
             /\ op'[o].cancel = op[o].cancel
    BY DEF Interrupts, Interrupted, RowsType
<1>3. ASSUME NEW j \in Items
      PROVE  item'[j] = IF OpOf[j] \in O /\ item[j] \in {"pending", "running"}
                        THEN "interrupted" ELSE item[j]
    BY DEF Interrupts, Interrupted
<1> QED
    BY <1>1, <1>2, <1>3

LEMMA CancelEffect ==
    ASSUME RowsType, NEW O \in SUBSET Ops, Cancels(O)
    PROVE  /\ \A o \in Ops : /\ op'[o].state = op[o].state
                             /\ op'[o].completed = op[o].completed
                             /\ op'[o].cancel <=> op[o].cancel \/ o \in O
           /\ item' = item
    BY DEF Cancels, RowsType

LEMMA RowsTyped == ASSUME RowsType, RowStep PROVE RowsType'
<1> DEFINE Row == [state: OpStates, completed: Nat, cancel: BOOLEAN]
<1>0. /\ {"queued", "running", "interrupted"} \cup EndStates \subseteq OpStates
      /\ {"pending", "running", "interrupted"} \cup Reported \subseteq ItemStates
    BY StatesApart
<1>1. CASE \E o \in Ops : Creates(o)
    <2>1. PICK o \in Ops : Creates(o) BY <1>1
    <2> DEFINE n == Cardinality({i \in ItemsOf(o) : Planned[i] # "pending"})
    <2>2. n \in Nat
        <3>1. {i \in ItemsOf(o) : Planned[i] # "pending"} \in SUBSET ItemsOf(o) OBVIOUS
        <3> QED BY <3>1, EndedIsFinite, FS_Subset, FS_CardinalityType
    <2>3. op' = [op EXCEPT ![o] = [state |-> "queued", completed |-> n, cancel |-> FALSE]]
        BY <2>1 DEF Creates, CreateOp
    <2> HIDE DEF n
    <2>4. op' \in [Ops -> Row]
        BY <2>2, <2>3, <1>0 DEF RowsType
    <2>5. item' \in [Items -> ItemStates]
        BY <2>1, <1>0, PolicyAssumption DEF Creates, CreateOp, RowsType
    <2> QED
        BY <2>4, <2>5 DEF RowsType
<1>2. CASE \E o \in Ops : Finishes(o)
    BY <1>0, <1>2, ResultIsTerminal DEF Finishes, Write, FinishCommand, RowsType
<1>3. CASE \E w \in Workers : work[w] \in Items /\ Starts(w)
    <2>1. PICK w \in Workers : work[w] \in Items /\ Starts(w) BY <1>3
    <2>2. OpOf[work[w]] \in Ops BY <2>1, PolicyAssumption
    <2> QED
        BY <2>1, <2>2, <1>0 DEF Starts, StartItem, RowsType
<1>4. CASE \E i \in Items, end \in Reported : Completes(i, end)
    <2>1. PICK i \in Items, end \in Reported : Completes(i, end) BY <1>4
    <2>2. OpOf[i] \in Ops BY PolicyAssumption
    <2>3. /\ op' = [op EXCEPT ![OpOf[i]].completed = @ + 1]
          /\ item' = [j \in Items |-> IF j = i THEN end ELSE item[j]]
        BY <2>1 DEF Completes, Write, CompleteCommand
    <2> QED
        BY <2>2, <2>3, <1>0 DEF RowsType
<1>5. CASE \E O \in SUBSET Ops : Interrupts(O)
    <2>1. PICK O \in SUBSET Ops : Interrupts(O) BY <1>5
    <2>2. \A o \in Ops : Total(o) \in Nat BY EndedIsFinite
    <2> QED
        BY <2>1, <2>2, <1>0 DEF Interrupts, Interrupted, RowsType
<1>6. CASE \E O \in SUBSET Ops : Cancels(O)
    BY ZenonT(60), <1>6 DEF Cancels, RowsType
<1>7. CASE UNCHANGED rows
    BY <1>7 DEF rows, RowsType
<1> QED
    BY <1>1, <1>2, <1>3, <1>4, <1>5, <1>6, <1>7 DEF RowStep

(* What every step leaves of the rows: ends are final, nothing goes back,  *)
(* only the coordinator's start creates and only a worker's start runs.    *)
RowsKeep ==
    /\ \A o \in Ops : op[o].state \in EndStates => op'[o].state = op[o].state
    /\ \A o \in Ops : op[o].state # "absent" => op'[o].state # "absent"
    /\ \A o \in Ops : op[o].state = "absent" /\ op'[o].state # "absent" =>
          /\ pc[Coordinator] = "admit" /\ loc.start = o
          /\ loc'.start = None \/ try'[Coordinator].unknown
    /\ \A o \in Ops : op[o].cancel => op'[o].cancel
    /\ \A i \in Items : item[i] \in ItemEnds => item'[i] = item[i]
    /\ \A i \in Items : item[i] = "running" => item'[i] \notin {"absent", "pending"}
    /\ \A i \in Items : item[i] = "pending" => item'[i] # "absent"
    /\ \A i \in Items : item[i] = "absent" /\ item'[i] # "absent" => pc[Coordinator] = "admit"
    /\ \A i \in Items : item'[i] = "running" /\ item[i] # "running" =>
          \E w \in Workers : pc[w] = "start" /\ work[w] = i

LEMMA RowStepKeeps == ASSUME RowsType, RowsAgree, RowStep PROVE RowsKeep
<1> USE StatesApart
<1>0. OpOf \in [Items -> Ops] /\ \A i \in Items : Planned[i] # "running"
    BY PolicyAssumption DEF Reported
<1>1. CASE \E o \in Ops : Creates(o)
    <2>1. PICK o \in Ops : Creates(o) BY <1>1
    <2>2. /\ pc[Coordinator] = "admit" /\ loc.start = o /\ ~op[o].cancel
          /\ loc'.start = None \/ try'[Coordinator].unknown
          /\ \A i \in Items : OpOf[i] = o => item[i] = "absent"
        BY <2>1 DEF Creates, RowsAgree
    <2>3. /\ \A p \in Ops \ {o} : op'[p] = op[p]
          /\ op[o].state = "absent"
          /\ \A i \in Items : OpOf[i] # o => item'[i] = item[i]
          /\ \A i \in Items : OpOf[i] = o => item'[i] # "running"
        <3>1. /\ \A p \in Ops \ {o} : op'[p] = op[p]
              /\ op[o].state = "absent"
              /\ \A i \in Items : item'[i] = IF OpOf[i] = o THEN Planned[i] ELSE item[i]
            BY <2>1, CreateEffect
        <3> QED
            BY <3>1, <1>0
    <2> QED
        BY <2>2, <2>3, <1>0 DEF RowsKeep
<1>2. CASE \E o \in Ops : Finishes(o)
    BY <1>2, FinishEffect, ResultIsTerminal DEF RowsKeep, Finishes, Active
<1>3. CASE \E w \in Workers : work[w] \in Items /\ Starts(w)
    <2>1. PICK w \in Workers : work[w] \in Items /\ Starts(w) BY <1>3
    <2>2. pc[w] = "start" /\ Active(OpOf[work[w]]) /\ item[work[w]] = "pending"
        BY <2>1 DEF Starts
    <2> QED
        BY <2>1, <2>2, <1>0, StartEffect DEF RowsKeep, Starts, Active
<1>4. CASE \E i \in Items, end \in Reported : Completes(i, end)
    BY <1>4, CompleteEffect DEF RowsKeep, Completes
<1>5. CASE \E O \in SUBSET Ops : Interrupts(O)
    BY <1>5, InterruptEffect DEF RowsKeep, Interrupts, Active
<1>6. CASE \E O \in SUBSET Ops : Cancels(O)
    BY <1>6, CancelEffect DEF RowsKeep
<1>7. CASE UNCHANGED rows
    BY <1>7 DEF rows, RowsKeep
<1> QED
    BY <1>1, <1>2, <1>3, <1>4, <1>5, <1>6, <1>7 DEF RowStep

(* A step that ends one item raises the number of those that ended by one. *)
LEMMA OneMoreEnded ==
    ASSUME RowsType, NEW i \in Items, item[i] \notin ItemEnds, item'[i] \in ItemEnds,
           \A j \in Items \ {i} : item'[j] = item[j]
    PROVE  /\ Cardinality(Ended(OpOf[i])') = Cardinality(Ended(OpOf[i])) + 1
           /\ \A o \in Ops \ {OpOf[i]} : Ended(o)' = Ended(o)
<1>0. OpOf[i] \in Ops BY PolicyAssumption
<1>1. Ended(OpOf[i])' = Ended(OpOf[i]) \cup {i} /\ i \notin Ended(OpOf[i])
    BY DEF Ended, ItemsOf
<1>2. \A o \in Ops \ {OpOf[i]} : Ended(o)' = Ended(o)
    BY DEF Ended, ItemsOf
<1> QED
    BY <1>0, <1>1, <1>2, EndedIsFinite, FS_AddElement

LEMMA RowsStayAgreed == ASSUME RowsType, RowsAgree, RowStep PROVE RowsAgree'
<1> USE StatesApart
<1>0. /\ OpOf \in [Items -> Ops]
      /\ \A i \in Items : Planned[i] \in {"pending"} \cup Reported
    BY PolicyAssumption
<1>00. \A i \in Items : /\ Planned[i] # "pending" <=> Planned[i] \in ItemEnds
                        /\ Planned[i] \notin {"absent", "running"}
    BY <1>0
<1>1. CASE \E o \in Ops : Creates(o)
    <2>1. PICK o \in Ops : Creates(o) BY <1>1
    <2>2. /\ \A p \in Ops \ {o} : op'[p] = op[p]
          /\ op'[o].state = "queued"
          /\ op'[o].completed = Cardinality({i \in ItemsOf(o) : Planned[i] # "pending"})
          /\ \A i \in Items : item'[i] = IF OpOf[i] = o THEN Planned[i] ELSE item[i]
        BY <2>1, CreateEffect
    <2>3. Ended(o)' = {i \in ItemsOf(o) : Planned[i] # "pending"}
        BY <2>2, <1>00 DEF Ended, ItemsOf
    <2>4. \A p \in Ops \ {o} : Ended(p)' = Ended(p)
        BY <2>2 DEF Ended, ItemsOf
    <2>5. \A p \in Ops : op'[p].state # "absent" => op'[p].completed = Cardinality(Ended(p)')
        <3> SUFFICES ASSUME NEW p \in Ops, op'[p].state # "absent"
                     PROVE  op'[p].completed = Cardinality(Ended(p)')
            OBVIOUS
        <3>1. CASE p = o BY <3>1, <2>2, <2>3
        <3>2. CASE p # o BY <3>2, <2>2, <2>4 DEF RowsAgree
        <3> QED BY <3>1, <3>2
    <2> QED
        BY <2>2, <2>5, <1>0, <1>00 DEF RowsAgree
<1>2. CASE \E o \in Ops : Finishes(o)
    <2>1. PICK o \in Ops : Finishes(o) BY <1>2
    <2>2. \A p \in Ops : Ended(p)' = Ended(p) BY <2>1, FinishEffect DEF Ended
    <2>3. \A i \in Items : OpOf[i] = o => item[i] \in ItemEnds
        BY <2>1 DEF Finishes, Ended, ItemsOf
    <2> QED
        BY <2>1, <2>2, <2>3, <1>0, FinishEffect, ResultIsTerminal
        DEF RowsAgree, Finishes, Active
<1>3. CASE \E w \in Workers : work[w] \in Items /\ Starts(w)
    <2>1. PICK w \in Workers : work[w] \in Items /\ Starts(w) BY <1>3
    <2>2. Active(OpOf[work[w]]) /\ item[work[w]] = "pending" /\ StartItem(work[w])
        BY <2>1 DEF Starts
    <2>3. \A p \in Ops : Ended(p)' = Ended(p)
        BY <2>1, <2>2, StartEffect DEF Ended, ItemsOf
    <2> QED
        BY <2>1, <2>2, <2>3, <1>0, StartEffect DEF RowsAgree, Active
<1>4. CASE \E i \in Items, end \in Reported : Completes(i, end)
    <2>1. PICK i \in Items, end \in Reported : Completes(i, end) BY <1>4
    <2>2. Active(OpOf[i]) /\ item[i] = "running" BY <2>1 DEF Completes
    <2>3. /\ Cardinality(Ended(OpOf[i])') = Cardinality(Ended(OpOf[i])) + 1
          /\ \A o \in Ops \ {OpOf[i]} : Ended(o)' = Ended(o)
        BY <2>1, <2>2, CompleteEffect, OneMoreEnded
    <2>4. \A o \in Ops : op'[o].state # "absent" => op'[o].completed = Cardinality(Ended(o)')
        BY <2>1, <2>3, <1>0, CompleteEffect DEF RowsAgree
    <2> QED
        BY <2>1, <2>2, <2>4, <1>0, CompleteEffect DEF RowsAgree, Active
<1>5. CASE \E O \in SUBSET Ops : Interrupts(O)
    <2>1. PICK O \in SUBSET Ops : Interrupts(O) BY <1>5
    <2>2. \A o \in O : Active(o) BY <2>1 DEF Interrupts
    <2>3. \A j \in Items : OpOf[j] \in O => item'[j] \in ItemEnds
        BY <2>1, <2>2, <1>0, InterruptEffect DEF RowsAgree, RowsType, Active
    <2>4. /\ \A o \in O : Ended(o)' = ItemsOf(o)
          /\ \A o \in Ops \ O : Ended(o)' = Ended(o)
        BY <2>1, <2>3, InterruptEffect DEF Ended, ItemsOf
    <2>5. \A o \in Ops : op'[o].state # "absent" => op'[o].completed = Cardinality(Ended(o)')
        BY <2>1, <2>4, InterruptEffect DEF RowsAgree, Total
    <2> QED
        BY <2>1, <2>2, <2>3, <2>5, <1>0, InterruptEffect DEF RowsAgree, Active
<1>6. CASE \E O \in SUBSET Ops : Cancels(O)
    <2>1. PICK O \in SUBSET Ops : Cancels(O) BY <1>6
    <2>2. \A p \in Ops : Ended(p)' = Ended(p) BY <2>1, CancelEffect DEF Ended
    <2>3. \A o \in O : Active(o) BY <2>1 DEF Cancels
    <2>4. /\ \A o \in Ops : op'[o].state = op[o].state /\ op'[o].completed = op[o].completed
          /\ \A o \in Ops : op[o].state = "absent" => (op'[o].cancel <=> op[o].cancel)
          /\ item' = item
        BY <2>1, <2>3, CancelEffect DEF Active
    <2> QED
        BY <2>2, <2>4, <1>0 DEF RowsAgree
<1>7. CASE UNCHANGED rows
    BY <1>7 DEF rows, RowsAgree, Ended
<1> QED
    BY <1>1, <1>2, <1>3, <1>4, <1>5, <1>6, <1>7 DEF RowStep

----------------------------------------------------------------------------
(* Types.                                                                  *)

LEMMA CommandsTyped ==
    /\ \A i \in Items, end \in Reported : CompleteCommand(i, end) \in Commands
    /\ \A o \in Ops : FinishCommand(o) \in Commands
<1>1. ASSUME NEW i \in Items, NEW end \in Reported PROVE CompleteCommand(i, end) \in Commands
    <2>1. OpOf[i] \in Ops /\ {i} \in SUBSET Items BY PolicyAssumption
    <2> QED BY <2>1 DEF CompleteCommand, Commands
<1>2. ASSUME NEW o \in Ops PROVE FinishCommand(o) \in Commands
    BY ResultIsTerminal DEF FinishCommand, Commands
<1> QED
    BY <1>1, <1>2

LEMMA TypesInit == Init => TypeOK
<1> SUFFICES ASSUME Init PROVE TypeOK OBVIOUS
<1>1. RowsType
    BY StatesApart DEF Init, RowsInit, Absent, RowsType
<1>2. /\ pc \in [Threads -> Points] /\ cmd \in [Threads -> Commands \cup {NoCommand}]
      /\ try \in [Threads -> Tries]
    BY DEF Init, AtEntry, Points, Fresh, Tries
<1>3. s \in States /\ Len(s.queue) <= QueueCapacity
    BY SessionAssumption DEF Init, NewState, States
<1>4. loc \in Turns /\ bound \in Bounds
    BY DEF Init, NewTurn, Turns, Bounds
<1> QED
    BY <1>1, <1>2, <1>3, <1>4 DEF Init, TypeOK, Idle

LEMMA CountersTyped ==
    /\ \A r \in Tries, u \in BOOLEAN : [r EXCEPT !.writes = @ + 1, !.unknown = u] \in Tries
    /\ \A r \in Tries : [r EXCEPT !.reads = @ + 1] \in Tries
    /\ \A r \in Tries, u \in BOOLEAN : [r EXCEPT !.unknown = u] \in Tries
    /\ \A b \in Bounds : /\ [b EXCEPT !.faults = @ + 1] \in Bounds
                         /\ [b EXCEPT !.panics = @ + 1] \in Bounds
                         /\ [b EXCEPT !.sessions = @ + 1] \in Bounds
<1>1. /\ \A r \in Tries : r.writes + 1 \in Nat /\ r.reads + 1 \in Nat
      /\ \A b \in Bounds : b.faults + 1 \in Nat /\ b.panics + 1 \in Nat /\ b.sessions + 1 \in Nat
    BY DEF Tries, Bounds
<1>2. ASSUME NEW r \in Tries, NEW n \in Nat, NEW u \in BOOLEAN
      PROVE  /\ [r EXCEPT !.writes = n, !.unknown = u] \in Tries
             /\ [r EXCEPT !.reads = n] \in Tries
             /\ [r EXCEPT !.unknown = u] \in Tries
    BY DEF Tries
<1>3. ASSUME NEW b \in Bounds, NEW n \in Nat
      PROVE  /\ [b EXCEPT !.faults = n] \in Bounds
             /\ [b EXCEPT !.panics = n] \in Bounds
             /\ [b EXCEPT !.sessions = n] \in Bounds
    BY DEF Bounds
<1> QED
    BY <1>1, <1>2, <1>3

LEMMA RestartTyped == ASSUME TypeOK, Restart PROVE TypeOK'
<1>1. RowsType'
    BY DEF Restart, rows, RowsType, TypeOK
<1>2. /\ pc' \in [Threads -> Points] /\ cmd' \in [Threads -> Commands \cup {NoCommand}]
      /\ try' \in [Threads -> Tries]
    BY DEF Restart, AtEntry, Points, Fresh, Tries
<1>3. s' \in States /\ Len(s'.queue) <= QueueCapacity
    BY SessionAssumption DEF Restart, NewState, States
<1>4. loc' \in Turns
    BY DEF Restart, NewTurn, Turns
<1>5. bound' \in Bounds
    BY CountersTyped DEF Restart, TypeOK
<1> QED
    BY <1>1, <1>2, <1>3, <1>4, <1>5 DEF Restart, TypeOK, Idle

LEMMA HandleTyped == ASSUME TypeOK, Handle PROVE TypeOK'
<1> USE DEF rows, locals, RowsType, TypeOK
<1>1. ASSUME NEW o \in Ops, try_start(o) PROVE TypeOK'
    BY <1>1 DEF try_start, States
<1>2. CASE take_admission
    BY <1>2 DEF take_admission, States
<1>3. ASSUME NEW o \in Ops, cancel(o) PROVE TypeOK'
    BY <1>3 DEF cancel, CancelTokens, States
<1>4. CASE shutdown
    BY <1>4 DEF shutdown, CancelTokens, States
<1> QED
    BY <1>1, <1>2, <1>3, <1>4 DEF Handle

(* However a call of the store ends.                                       *)
LEMMA AnswerTyped ==
    ASSUME TypeOK, NEW call,
           Answered \/ (Faulty(call) /\ fenced' \in {fenced, TRUE})
    PROVE  fenced' \in BOOLEAN /\ bound' \in Bounds
    BY CountersTyped DEF Answered, Faulty, TypeOK

LEMMA PersistedTyped ==
    ASSUME TypeOK, NEW t \in Threads, NEW b \in BOOLEAN, Persisted(t, b)
    PROVE  /\ pc' \in [Threads -> Points] /\ cmd' \in [Threads -> Commands \cup {NoCommand}]
           /\ try' \in [Threads -> Tries] /\ intr' \in [Workers -> BOOLEAN] /\ loc' \in Turns
<1>1. Fresh \in Tries /\ NewTurn \in Turns
    BY DEF Fresh, Tries, NewTurn, Turns
<1> QED
    BY <1>1 DEF Persisted, Goto, TypeOK, Points

LEMMA AgainTyped ==
    ASSUME TypeOK, NEW t \in Threads, NEW next \in Tries, Again(t, next)
    PROVE  /\ pc' \in [Threads -> Points] /\ try' \in [Threads -> Tries]
           /\ cmd' = cmd /\ intr' = intr /\ loc' = loc
    BY DEF Again, Goto, TypeOK, Points

LEMMA PersistTyped == ASSUME TypeOK, RowsType', NEW t \in Threads, Persist(t) PROVE TypeOK'
<1>0. try[t] \in Tries
    BY DEF TypeOK
<1>1. CASE PersistWrite(t)
    <2> DEFINE next(u) == [try[t] EXCEPT !.writes = @ + 1, !.unknown = u]
    <2>1. next(TRUE) \in Tries /\ next(FALSE) \in Tries
        BY <1>0, CountersTyped
    <2>2. \/ Persisted(t, FALSE) \/ Persisted(t, TRUE)
          \/ Again(t, next(TRUE)) \/ Again(t, next(FALSE))
        BY <1>1 DEF PersistWrite
    <2>3. fenced' \in BOOLEAN /\ bound' \in Bounds
        <3>1. \/ Answered
              \/ \E call : Faulty(call) /\ fenced' \in {fenced, TRUE}
            BY <1>1 DEF PersistWrite, Unavailable, Uncertain
        <3> QED BY <3>1, AnswerTyped
    <2>4. UNCHANGED <<s, token, owner, work, res, ran, asked>>
        BY <1>1 DEF PersistWrite
    <2> HIDE DEF next
    <2> QED
        BY <2>1, <2>2, <2>3, <2>4, PersistedTyped, AgainTyped DEF TypeOK
<1>2. CASE PersistRead(t)
    <2>1. /\ [try[t] EXCEPT !.reads = @ + 1] \in Tries
          /\ [try[t] EXCEPT !.unknown = FALSE] \in Tries
        BY <1>0, CountersTyped
    <2>2. \/ Persisted(t, FALSE) \/ Persisted(t, TRUE)
          \/ \E next \in Tries : Again(t, next)
        BY <1>2, <2>1 DEF PersistRead
    <2>3. fenced' \in BOOLEAN /\ bound' \in Bounds
        <3>1. Answered \/ (Faulty("readback") /\ fenced' \in {fenced, TRUE})
            BY <1>2 DEF PersistRead, Unavailable
        <3> QED BY <3>1, AnswerTyped
    <2>4. UNCHANGED <<s, token, owner, work, res, ran, asked>>
        BY <1>2 DEF PersistRead
    <2> QED
        BY <2>2, <2>3, <2>4, PersistedTyped, AgainTyped DEF TypeOK
<1>3. CASE Escalate(t)
    <2>1. Fresh \in Tries BY DEF Fresh, Tries
    <2> QED
        BY <1>3, <2>1 DEF Escalate, CancelTokens, Goto, TypeOK, Points
<1>4. CASE Reconcile(t)
    <2>1. \A u \in BOOLEAN : [try[t] EXCEPT !.unknown = u] \in Tries
        BY <1>0, CountersTyped
    <2>2. \/ Persisted(t, TRUE)
          \/ /\ \E u \in BOOLEAN : try' = [try EXCEPT ![t].unknown = u]
             /\ UNCHANGED <<pc, cmd, intr, loc>>
        BY <1>4 DEF Reconcile, TypeOK, Tries
    <2>3. fenced' \in BOOLEAN /\ bound' \in Bounds
        <3>1. \/ Answered
              \/ \E call : Faulty(call) /\ fenced' \in {fenced, TRUE}
            BY <1>4 DEF Reconcile, Unavailable, Uncertain
        <3> QED BY <3>1, AnswerTyped
    <2>4. UNCHANGED <<s, token, owner, work, res, ran, asked>>
        BY <1>4 DEF Reconcile
    <2>5. CASE Persisted(t, TRUE)
        BY <2>3, <2>4, <2>5, PersistedTyped DEF TypeOK
    <2>6. CASE /\ \E u \in BOOLEAN : try' = [try EXCEPT ![t].unknown = u]
               /\ UNCHANGED <<pc, cmd, intr, loc>>
        BY <2>1, <2>3, <2>4, <2>6 DEF TypeOK
    <2> QED
        BY <2>2, <2>5, <2>6
<1> QED
    BY <1>1, <1>2, <1>3, <1>4 DEF Persist

(* The answer of one store call, whichever the disjunct.                   *)
LEMMA StoreTyped ==
    ASSUME TypeOK, NEW call, NEW E,
           Answered \/ Unavailable(call) \/ Disowned(call) \/ Uncertain(call, E)
           \/ (Faulty(call) /\ UNCHANGED fenced) \/ (Faulty(call) /\ fenced' = TRUE)
    PROVE  fenced' \in BOOLEAN /\ bound' \in Bounds
    BY AnswerTyped DEF Unavailable, Disowned, Uncertain

LEMMA TriesTyped ==
    /\ Fresh \in Tries
    /\ \A t \in Tries, u \in BOOLEAN : [t EXCEPT !.unknown = u] \in Tries
<1>1. Fresh \in Tries
    BY CountersTyped DEF Fresh, Tries
<1>2. ASSUME NEW t \in Tries, NEW u \in BOOLEAN PROVE [t EXCEPT !.unknown = u] \in Tries
    BY <1>2 DEF Tries
<1> QED
    BY <1>1, <1>2

LEMMA WorkerTyped ==
    ASSUME TypeOK, RowsType', Ownership, NEW w \in Workers,
           WorkerStep(w) \/ CompensateLost(w) \/ Panic(w)
    PROVE  TypeOK'
<1> USE DEF Threads, Goto
<1>0. Fresh \in Tries /\ (\A u \in BOOLEAN : [try[w] EXCEPT !.unknown = u] \in Tries)
    BY TriesTyped DEF TypeOK
<1>1. CASE Pop(w)
    <2>1. s.queue \in Seq(Items) /\ s.queue # <<>>
        BY <1>1 DEF Pop, TypeOK, States
    <2>2. Head(s.queue) \in Items /\ Tail(s.queue) \in Seq(Items) /\ Len(Tail(s.queue)) = Len(s.queue) - 1
        BY <2>1
    <2>3. s' \in States /\ s'.queue = Tail(s.queue)
        BY <1>1, <2>2 DEF Pop, TypeOK, States
    <2>4. Len(s'.queue) <= QueueCapacity
        BY <2>1, <2>2, <2>3, SessionAssumption DEF TypeOK
    <2> QED
        BY <1>1, <2>2, <2>3, <2>4 DEF Pop, WorkerUnchanged, CancelTokens, TypeOK, Points
<1>2. CASE WorkerExit(w)
    BY <1>2 DEF WorkerExit, WorkerUnchanged, TypeOK, Points
<1>3. CASE Start(w)
    <2>1. fenced' \in BOOLEAN /\ bound' \in Bounds
        BY <1>3, StoreTyped DEF Start
    <2>2. \/ pc' = [pc EXCEPT ![w] = "check"] /\ try' = [try EXCEPT ![w] = Fresh]
          \/ pc' = pc /\ \E u \in BOOLEAN : try' = [try EXCEPT ![w].unknown = u]
        BY <1>3 DEF Start
    <2>3. pc' \in [Threads -> Points]
        BY <2>2 DEF TypeOK, Points
    <2>4. try' \in [Threads -> Tries]
        BY SMTT(30), <1>0, <2>2 DEF TypeOK
    <2> QED
        BY <1>3, <2>1, <2>3, <2>4 DEF Start, WorkerUnchanged, TypeOK
<1>4. CASE StartReadback(w)
    <2>1. fenced' \in BOOLEAN /\ bound' \in Bounds
        BY <1>4, StoreTyped DEF StartReadback
    <2>2. \/ UNCHANGED <<pc, try>>
          \/ /\ \E point \in {"release", "check", "start"} : pc' = [pc EXCEPT ![w] = point]
             /\ try' = [try EXCEPT ![w] = Fresh]
        BY <1>4 DEF StartReadback
    <2>3. pc' \in [Threads -> Points]
        BY <2>2 DEF TypeOK, Points
    <2>4. try' \in [Threads -> Tries]
        BY <1>0, <2>2 DEF TypeOK
    <2> QED
        BY <1>4, <2>1, <2>3, <2>4 DEF StartReadback, WorkerUnchanged, TypeOK
<1>5. CASE pc[w] \in {"check", "execute"} /\ work[w] \in Items
    <2>1. \A end \in Reported : CompleteCommand(work[w], end) \in Commands
        BY <1>5, CommandsTyped
    <2>2. CASE SkipCancelled(w)
        BY <2>1, <2>2 DEF SkipCancelled, session, TypeOK, Points, Reported
    <2>3. CASE Execute(w)
        BY <1>5, <2>3 DEF Execute, session, TypeOK, Points
    <2>4. ASSUME NEW state \in Reported, NEW resources \in BOOLEAN, Executed(w, state, resources)
          PROVE  TypeOK'
        BY <2>1, <2>4 DEF Executed, session, TypeOK, Points
    <2>5. CASE ExecutedCompensating(w)
        BY <2>1, <2>5 DEF ExecutedCompensating, session, TypeOK, Points, Reported
    <2>6. CASE CompensateLost(w)
        <3>1. bound' \in Bounds
            BY <2>6, CountersTyped DEF CompensateLost, TypeOK
        <3>2. s' \in States /\ s'.queue = s.queue
            BY <2>6 DEF CompensateLost, TypeOK, States
        <3> QED
            BY <2>6, <3>1, <3>2 DEF CompensateLost, TypeOK, Points
    <2>7. CASE Panic(w)
        <3>1. bound' \in Bounds
            BY <2>7, CountersTyped DEF Panic, TypeOK
        <3>2. s' \in States /\ s'.queue = s.queue
            BY <2>7 DEF Panic, TypeOK, States
        <3> QED
            BY <2>7, <3>1, <3>2 DEF Panic, CancelTokens, TypeOK, Points
    <2> QED
        BY <1>5, <2>2, <2>3, <2>4, <2>5, <2>6, <2>7
        DEF WorkerStep, Pop, WorkerExit, Start, StartReadback, Compensate, Persist, PersistWrite,
            PersistRead, Escalate, Reconcile, Settle, Release
<1>6. CASE Compensate(w)
    BY <1>6 DEF Compensate, session, TypeOK, Points
<1>7. CASE Settle(w)
    BY <1>7 DEF Settle, session, TypeOK, Points
<1>8. CASE Release(w)
    <2>1. s' \in States /\ s'.queue = s.queue
        BY <1>8 DEF Release, TypeOK, States
    <2> QED
        BY <1>8, <2>1 DEF Release, TypeOK, Points
<1>9. CASE Persist(w)
    BY <1>9, PersistTyped
<1>10. pc[w] \in {"check", "execute"} => work[w] \in Items
    BY DEF Ownership, Started, Reporting, TypeOK
<1>11. CASE pc[w] \notin {"check", "execute"}
    BY <1>1, <1>2, <1>3, <1>4, <1>6, <1>7, <1>8, <1>9, <1>11
    DEF WorkerStep, SkipCancelled, Execute, Executed, ExecutedCompensating, CompensateLost, Panic
<1> QED
    BY <1>5, <1>10, <1>11

LEMMA CoordinatorTyped ==
    ASSUME TypeOK, RowsType', Placed, CoordinatorStep PROVE TypeOK'
<1> USE DEF Threads, Goto, GotoC, CoordinatorUnchanged
<1>0. /\ Fresh \in Tries /\ NewTurn \in Turns
      /\ \A u \in BOOLEAN : [try[Coordinator] EXCEPT !.unknown = u] \in Tries
    <2>1. NewTurn \in Turns
        BY DEF NewTurn, Turns
    <2>2. try[Coordinator] \in Tries
        BY DEF TypeOK
    <2> QED
        BY <2>1, <2>2, TriesTyped
<1>1. CASE Startup
    <2>1. fenced' \in BOOLEAN /\ bound' \in Bounds
        BY <1>1, StoreTyped DEF Startup
    <2>2. s' \in States /\ s'.queue = s.queue
        BY ZenonT(60), <1>1 DEF Startup, TypeOK, States
    <2> QED
        BY <1>1, <2>1, <2>2 DEF Startup, TypeOK, Points
<1>2. CASE Top \/ Drain
    BY <1>0, <1>2 DEF Top, Drain, Continue, session, TypeOK, Points
<1>3. CASE Take
    <2>1. s' \in States /\ s'.queue = s.queue /\ loc' \in Turns
        BY ZenonT(60), <1>3 DEF Take, TypeOK, States, Turns
    <2> QED
        BY <1>3, <2>1 DEF Take, TypeOK, Points
<1>4. ASSUME NEW accepted \in BOOLEAN, Admitted(accepted)
      PROVE  /\ s' \in States /\ s'.queue = s.queue /\ loc' \in Turns
             /\ pc' \in [Threads -> Points] /\ try' \in [Threads -> Tries]
    <2>1. s' \in States /\ s'.queue = s.queue
        BY <1>4 DEF Admitted, TypeOK, States, Turns
    <2>2. loc' \in Turns
        BY <1>4 DEF Admitted, TypeOK, Turns
    <2> QED
        BY <1>0, <1>4, <2>1, <2>2 DEF Admitted, TypeOK, Points
<1>5. CASE Admit
    <2>1. fenced' \in BOOLEAN /\ bound' \in Bounds
        BY <1>5, StoreTyped DEF Admit
    <2>2. \/ Admitted(TRUE) \/ Admitted(FALSE)
          \/ /\ UNCHANGED <<s, pc, loc>>
             /\ \E u \in BOOLEAN : try' = [try EXCEPT ![Coordinator].unknown = u]
        BY <1>5 DEF Admit
    <2>3. /\ s' \in States /\ s'.queue = s.queue /\ loc' \in Turns
          /\ pc' \in [Threads -> Points] /\ try' \in [Threads -> Tries]
        BY ZenonT(60), <1>0, <1>4, <2>2 DEF TypeOK
    <2> QED
        BY <1>5, <2>1, <2>3 DEF Admit, TypeOK
<1>6. CASE AdmitReadback
    <2>1. fenced' \in BOOLEAN /\ bound' \in Bounds
        BY <1>6, StoreTyped DEF AdmitReadback
    <2>2. \/ Admitted(TRUE)
          \/ /\ UNCHANGED <<s, pc, loc>>
             /\ try' = try \/ try' = [try EXCEPT ![Coordinator] = Fresh]
        BY <1>6 DEF AdmitReadback
    <2>3. /\ s' \in States /\ s'.queue = s.queue /\ loc' \in Turns
          /\ pc' \in [Threads -> Points] /\ try' \in [Threads -> Tries]
        BY ZenonT(60), <1>0, <1>4, <2>2 DEF TypeOK
    <2> QED
        BY <1>6, <2>1, <2>3 DEF AdmitReadback, TypeOK
<1>7. CASE AdmitNothing
    BY <1>7 DEF AdmitNothing, session, TypeOK, Points
<1>8. CASE CancelOne
    <2>1. fenced' \in BOOLEAN /\ bound' \in Bounds
        BY <1>8, StoreTyped DEF CancelOne
    <2>2. loc' \in Turns
        BY <1>8 DEF CancelOne, TypeOK, Turns
    <2> QED
        BY <1>8, <2>1, <2>2 DEF CancelOne, TypeOK
<1>9. CASE CancelRest
    <2>1. fenced' \in BOOLEAN /\ bound' \in Bounds
        BY <1>9, StoreTyped DEF CancelRest
    <2> QED
        BY <1>9, <2>1 DEF CancelRest, TypeOK, Points
<1>10. CASE CheckTokens
    <2>1. fenced' \in BOOLEAN /\ bound' \in Bounds
        BY <1>10, StoreTyped DEF CheckTokens
    <2> QED
        BY <1>10, <2>1 DEF CheckTokens, CancelTokens, TypeOK, Points
<1>11. CASE FinishScan
    <2>1. fenced' \in BOOLEAN /\ bound' \in Bounds
        BY <1>11, StoreTyped DEF FinishScan
    <2>2. loc' \in Turns
        BY <1>11 DEF FinishScan, TypeOK, Turns
    <2>3. cmd' \in [Threads -> Commands \cup {NoCommand}]
        BY <1>11, CommandsTyped DEF FinishScan, ReadyToFinish, TypeOK
    <2> QED
        BY <1>11, <2>1, <2>2, <2>3 DEF FinishScan, TypeOK, Points
<1>12. CASE Fetch
    <2>1. fenced' \in BOOLEAN /\ bound' \in Bounds
        BY <1>12, StoreTyped DEF Fetch
    <2>2. loc' \in Turns
        <3>1. ASSUME NEW i \in Items, loc' = [loc EXCEPT !.fetched = i, !.flag = op[OpOf[i]].cancel]
              PROVE  loc' \in Turns
            <4>1. op[OpOf[i]].cancel \in BOOLEAN BY PolicyAssumption DEF TypeOK, RowsType
            <4> QED BY <3>1, <4>1 DEF TypeOK, Turns
        <3>2. CASE loc' = loc \/ loc' = [loc EXCEPT !.empty = TRUE]
            BY <3>2 DEF TypeOK, Turns
        <3> QED
            BY <1>0, <1>12, <3>1, <3>2 DEF Fetch, Continue, NextPending
    <2>3. owner' \in BOOLEAN
        BY <1>12 DEF Fetch, TypeOK
    <2> QED
        BY <1>12, <2>1, <2>2, <2>3 DEF Fetch, Continue, TypeOK, Points
<1>13. CASE Push
    <2>1. CASE s.done
        BY <1>13, <2>1 DEF Push, TypeOK, Points
    <2>2. CASE ~s.done
        <3>1. /\ loc.fetched \in Items /\ s.queue \in Seq(Items)
              /\ Len(s.queue) < QueueCapacity
            BY <1>13 DEF Push, At, Placed, QueueHasRoom, TypeOK, States
        <3>2. /\ Append(s.queue, loc.fetched) \in Seq(Items)
              /\ Len(Append(s.queue, loc.fetched)) = Len(s.queue) + 1
            BY <3>1
        <3>3. s' \in States /\ s'.queue = Append(s.queue, loc.fetched)
            <4> DEFINE q == Append(s.queue, loc.fetched)
                       f == s.inflight \cup {loc.fetched}
            <4>1. s' = [s EXCEPT !.inflight = f, !.queue = q]
                BY <1>13, <2>2 DEF Push
            <4>2. q \in Seq(Items) /\ f \in SUBSET Items /\ s \in States
                BY <3>1, <3>2 DEF TypeOK, States
            <4> HIDE DEF q, f
            <4>3. s' \in States /\ s'.queue = q
                BY <4>1, <4>2 DEF States
            <4> QED
                BY <4>3 DEF q
        <3>4. Len(s'.queue) <= QueueCapacity
            BY <3>1, <3>2, <3>3, SessionAssumption
        <3>5. token' \in [Items -> BOOLEAN]
            BY <1>13, <2>2, <3>1 DEF Push, PushToken, TypeOK
        <3> QED
            BY <1>0, <1>13, <2>2, <3>3, <3>4, <3>5 DEF Push, Continue, TypeOK, Points
    <2> QED
        BY <2>1, <2>2
<1>14. CASE Recheck
    <2>1. fenced' \in BOOLEAN /\ bound' \in Bounds
        BY <1>14, StoreTyped DEF Recheck
    <2> QED
        BY <1>0, <1>14, <2>1 DEF Recheck, Continue, TypeOK, Points
<1>15. CASE Cleanup
    <2>1. fenced' \in BOOLEAN /\ bound' \in Bounds
        BY <1>15, StoreTyped DEF Cleanup
    <2>2. s' \in States /\ s'.queue = s.queue
        BY ZenonT(60), <1>15 DEF Cleanup, TypeOK, States
    <2> QED
        BY <1>15, <2>1, <2>2 DEF Cleanup, TypeOK, Points
<1>16. CASE Persist(Coordinator)
    BY <1>16, PersistTyped
<1> QED
    BY <1>1, <1>2, <1>3, <1>5, <1>6, <1>7, <1>8, <1>9, <1>10, <1>11, <1>12, <1>13, <1>14,
       <1>15, <1>16
    DEF CoordinatorStep

----------------------------------------------------------------------------
(* Every step of the session is a step of the rows.                        *)

(* A worker at its report has an item that runs or has ended.              *)
LEMMA ReportOf ==
    ASSUME TypeOK, Ownership, Progress, Reports, NEW w \in Workers, pc[w] \in Reporting
    PROVE  /\ work[w] \in Items /\ item[work[w]] \notin {"absent", "pending"}
           /\ OpOf[work[w]] \in Ops /\ cmd[w].op = OpOf[work[w]]
           /\ \E end \in Reported : cmd[w] = CompleteCommand(work[w], end)
<1>1. work[w] \in Items /\ item[work[w]] \notin {"absent", "pending"}
    BY DEF Ownership, Progress, Started, TypeOK
<1>2. \E end \in Reported : cmd[w] = CompleteCommand(work[w], end)
    BY DEF Reports
<1>3. cmd[w].op = OpOf[work[w]]
    BY <1>2 DEF CompleteCommand
<1>4. OpOf[work[w]] \in Ops
    BY <1>1, PolicyAssumption
<1> QED
    BY <1>1, <1>2, <1>3, <1>4

LEMMA WriteIsRowStep ==
    ASSUME TypeOK, Ownership, Progress, Reports, NEW t \in Threads, pc[t] = "persist",
           WriteAllowed(cmd[t]), Write(cmd[t])
    PROVE  RowStep
<1>1. CASE t = Coordinator
    <2>1. PICK o \in Ops : cmd[t] = FinishCommand(o) /\ Ended(o) = ItemsOf(o)
        BY <1>1 DEF Reports
    <2>2. Active(o)
        BY <2>1 DEF WriteAllowed, FinishCommand
    <2> QED
        BY <2>1, <2>2 DEF RowStep, Finishes
<1>2. CASE t \in Workers
    <2>1. pc[t] \in Reporting BY DEF Reporting
    <2>2. PICK end \in Reported : cmd[t] = CompleteCommand(work[t], end)
        BY <1>2, <2>1, ReportOf
    <2>3. work[t] \in Items /\ item[work[t]] \notin {"absent", "pending"}
        BY <1>2, <2>1, ReportOf
    <2>4. Active(OpOf[work[t]]) /\ item[work[t]] = "running"
        BY <2>2, <2>3 DEF WriteAllowed, CompleteCommand
    <2> QED
        BY <2>2, <2>3, <2>4 DEF RowStep, Completes
<1> QED
    BY <1>1, <1>2 DEF Threads

LEMMA InterruptIsRowStep ==
    ASSUME NEW o \in Ops, WriteAllowed(InterruptCommand(o)), Write(InterruptCommand(o))
    PROVE  RowStep
<1>1. Active(o) /\ Interrupted({o})
    BY DEF WriteAllowed, Write, InterruptCommand
<1> QED
    BY <1>1 DEF RowStep, Interrupts

LEMMA CancelIsRowStep ==
    ASSUME RowsType, (\E o \in Ops : RequestCancel(o)) \/ CancelAll
    PROVE  RowStep
<1>1. ASSUME NEW o \in Ops, RequestCancel(o) PROVE Cancels({p \in {o} : Active(p)})
    BY <1>1 DEF RequestCancel, Cancels, RowsType
<1>2. ASSUME CancelAll PROVE Cancels({p \in Ops : Active(p)})
    BY <1>2 DEF CancelAll, Cancels
<1> QED
    BY <1>1, <1>2 DEF RowStep

LEMMA PersistIsRowStep ==
    ASSUME TypeOK, Ownership, Progress, Reports, NEW t \in Threads, Persist(t)
    PROVE  RowStep
<1>1. CASE PersistWrite(t)
    <2>1. pc[t] = "persist" BY <1>1 DEF PersistWrite
    <2>2. (WriteAllowed(cmd[t]) /\ Write(cmd[t])) \/ UNCHANGED rows
        BY <1>1 DEF PersistWrite, Unavailable, Uncertain, rows
    <2> QED
        BY <2>1, <2>2, WriteIsRowStep DEF RowStep
<1>2. CASE PersistRead(t) \/ Escalate(t)
    BY <1>2 DEF PersistRead, Unavailable, Escalate, rows, RowStep
<1>3. CASE Reconcile(t)
    <2>1. cmd[t].op \in Ops
        <3>1. CASE t = Coordinator
            <4>1. PICK o \in Ops : cmd[t] = FinishCommand(o)
                BY <1>3, <3>1 DEF Reports, Reconcile
            <4> QED BY <4>1 DEF FinishCommand
        <3>2. CASE t \in Workers
            BY <1>3, <3>2, ReportOf DEF Reconcile, Reporting
        <3> QED BY <3>1, <3>2 DEF Threads
    <2> DEFINE c == InterruptCommand(cmd[t].op)
    <2>2. (WriteAllowed(c) /\ Write(c)) \/ UNCHANGED rows
        BY <1>3 DEF Reconcile, Unavailable, Uncertain, rows
    <2> QED
        BY <2>1, <2>2, InterruptIsRowStep DEF RowStep
<1> QED
    BY <1>1, <1>2, <1>3 DEF Persist

LEMMA WorkerIsRowStep ==
    ASSUME TypeOK, Ownership, Progress, Reports, NEW w \in Workers,
           WorkerStep(w) \/ CompensateLost(w) \/ Panic(w)
    PROVE  RowStep
<1>1. CASE Start(w)
    <2>1. pc[w] = "start" /\ work[w] \in Items
        BY <1>1 DEF Start, Ownership, TypeOK
    <2>2. (StartAllowed(work[w]) /\ StartItem(work[w])) \/ UNCHANGED rows
        BY <1>1 DEF Start, Unavailable, Uncertain, rows
    <2>3. CASE item[work[w]] = "running"
        BY <2>2, <2>3 DEF StartItem, RowStep
    <2>4. CASE item[work[w]] # "running"
        BY <2>1, <2>2, <2>4 DEF StartAllowed, RowStep, Starts
    <2> QED
        BY <2>3, <2>4
<1>2. CASE Persist(w)
    BY <1>2, PersistIsRowStep DEF Threads
<1>3. CASE ~Start(w) /\ ~Persist(w)
    BY <1>3 DEF WorkerStep, Pop, WorkerExit, StartReadback, SkipCancelled, Execute, Executed,
       ExecutedCompensating, Compensate, Settle, Release, CompensateLost, Panic, RowStep
<1> QED
    BY <1>1, <1>2, <1>3

LEMMA CoordinatorIsRowStep ==
    ASSUME TypeOK, RowsAgree, Ownership, Progress, Reports, Admissions, CoordinatorStep
    PROVE  RowStep
<1>1. CASE Startup
    <2>1. Interrupted({o \in Ops : Active(o)}) \/ UNCHANGED rows
        BY <1>1 DEF Startup, Unavailable, Uncertain, RecoverStartup, rows
    <2> QED
        BY <2>1 DEF RowStep, Interrupts
<1>2. CASE Admit
    <2>1. /\ pc[Coordinator] = "admit" /\ loc.start \in Ops
          /\ op[loc.start].state = "absent"
        BY <1>2 DEF Admit, At, Admissions, TypeOK, Turns
    <2>2. (CreateAllowed(loc.start) /\ CreateOp(loc.start)) \/ UNCHANGED rows
        BY <1>2 DEF Admit, Unavailable, Disowned, Uncertain, rows
    <2>3. UNCHANGED rows \/ loc'.start = None \/ try'[Coordinator].unknown
        BY <1>2 DEF Admit, Admitted, Unavailable, Disowned, Uncertain, rows, TypeOK, Threads, Turns, Tries
    <2> QED
        BY <2>1, <2>2, <2>3 DEF RowStep, Creates
<1>3. CASE CancelOne
    <2>1. loc.cancel \in Ops
        BY <1>3 DEF CancelOne, TypeOK, Turns
    <2>2. RequestCancel(loc.cancel) \/ UNCHANGED rows
        BY <1>3 DEF CancelOne, Unavailable, Disowned, Uncertain, rows
    <2> QED
        BY <2>1, <2>2, CancelIsRowStep DEF RowStep, TypeOK
<1>4. CASE CancelRest
    <2>1. CancelAll \/ UNCHANGED rows
        BY <1>4 DEF CancelRest, Unavailable, Uncertain, rows
    <2> QED
        BY <2>1, CancelIsRowStep DEF RowStep, TypeOK
<1>5. CASE Persist(Coordinator)
    BY <1>5, PersistIsRowStep DEF Threads
<1>6. CASE UNCHANGED rows
    BY <1>6 DEF RowStep
<1> QED
    BY <1>1, <1>2, <1>3, <1>4, <1>5, <1>6
    DEF CoordinatorStep, Top, Take, AdmitReadback, AdmitNothing, CheckTokens, FinishScan, Fetch,
        Push, Drain, Recheck, Cleanup

----------------------------------------------------------------------------
(* What a step of one thread leaves to the others.                         *)

(* A worker: nothing of the turn, the slots or the other threads; it only  *)
(* takes from the queue and lets go of what has ended; tokens and fences   *)
(* are never taken back; who it stops, it cancels.                         *)
WorkerFrame(w) ==
    /\ loc' = loc /\ asked' = asked
    /\ \A t \in Threads \ {w} : pc'[t] = pc[t] /\ cmd'[t] = cmd[t] /\ try'[t] = try[t]
    /\ \A v \in Workers \ {w} : work'[v] = work[v] /\ intr'[v] = intr[v]
    /\ s'.ready <=> s.ready
    /\ s'.admitting <=> s.admitting
    /\ s'.accepted <=> s.accepted
    /\ s'.ingress = s.ingress /\ s'.admission = s.admission /\ s'.cancel = s.cancel
    /\ s'.inflight \subseteq s.inflight /\ Len(s'.queue) <= Len(s.queue)
    /\ \A i \in s.inflight \ s'.inflight : item[i] \in ItemEnds
    /\ fenced => fenced'
    /\ \A i \in Items : token[i] => token'[i]
    /\ s.stopping => s'.stopping
    /\ s'.stopping => s.stopping \/ \A i \in s.inflight : token'[i]
    /\ s'.done /\ ~s'.failed => s.done /\ ~s.failed

LEMMA PersistFrame ==
    ASSUME TypeOK, NEW t \in Threads, Persist(t)
    PROVE  /\ s' = s /\ asked' = asked /\ work' = work /\ ran' = ran
           /\ \A r \in Threads \ {t} : pc'[r] = pc[r] /\ cmd'[r] = cmd[r] /\ try'[r] = try[r]
           /\ \A v \in Workers \ {t} : intr'[v] = intr[v]
           /\ t # Coordinator => loc' = loc
           /\ \A i \in Items : token[i] => token'[i]
           /\ fenced => fenced'
<1>1. /\ s' = s /\ asked' = asked /\ work' = work /\ ran' = ran
      /\ \A i \in Items : token[i] => token'[i]
    BY DEF Persist, PersistWrite, PersistRead, Escalate, Reconcile, CancelTokens
<1>2. /\ \A r \in Threads \ {t} : pc'[r] = pc[r] /\ cmd'[r] = cmd[r] /\ try'[r] = try[r]
      /\ \A v \in Workers \ {t} : intr'[v] = intr[v]
      /\ t # Coordinator => loc' = loc
    BY ZenonT(60) DEF Persist, PersistWrite, PersistRead, Escalate, Reconcile, Persisted, Again, Goto, TypeOK
<1>3. fenced => fenced'
    BY DEF Persist, PersistWrite, PersistRead, Escalate, Reconcile, Answered, Unavailable,
           Uncertain
<1> QED
    BY <1>1, <1>2, <1>3

LEMMA WorkerFrames ==
    ASSUME TypeOK, Ownership, Progress, NEW w \in Workers,
           WorkerStep(w) \/ CompensateLost(w) \/ Panic(w)
    PROVE  WorkerFrame(w)
<1> USE DEF WorkerFrame, Threads, Goto
<1>1. CASE Pop(w)
    <2>1. Len(Tail(s.queue)) <= Len(s.queue)
        BY <1>1 DEF Pop, TypeOK, States
    <2> QED
        BY <1>1, <2>1 DEF Pop, WorkerUnchanged, CancelTokens, TypeOK, States
<1>2. CASE WorkerExit(w)
    BY <1>2 DEF WorkerExit, WorkerUnchanged, TypeOK, States
<1>3. CASE Start(w) \/ StartReadback(w)
    BY <1>3 DEF Start, StartReadback, WorkerUnchanged, Answered, Unavailable, Uncertain, TypeOK, States
<1>4. CASE \/ SkipCancelled(w) \/ Execute(w) \/ ExecutedCompensating(w) \/ Compensate(w)
           \/ Settle(w) \/ \E state \in Reported, resources \in BOOLEAN : Executed(w, state, resources)
    BY <1>4 DEF SkipCancelled, Execute, ExecutedCompensating, Compensate, Settle, Executed, session,
                TypeOK, States
<1>5. CASE CompensateLost(w)
    BY <1>5 DEF CompensateLost, TypeOK, States
<1>6. CASE Panic(w)
    <2>1. /\ s'.ready = s.ready /\ s'.ingress = s.ingress /\ s'.admitting = s.admitting
          /\ s'.admission = s.admission /\ s'.accepted = s.accepted /\ s'.cancel = s.cancel
          /\ s'.inflight = s.inflight /\ s'.queue = s.queue /\ s'.failed /\ s'.stopping
          /\ Len(s.queue) \in Nat
        BY <1>6 DEF Panic, TypeOK, States
    <2>2. /\ \A i \in Items : token[i] => token'[i]
          /\ \A i \in s.inflight : token'[i]
        BY <1>6 DEF Panic, CancelTokens, TypeOK, States
    <2> QED
        BY <1>6, <2>1, <2>2 DEF Panic, TypeOK
<1>7. CASE Release(w)
    BY <1>7 DEF Release, Progress, TypeOK, States
<1>8. CASE Persist(w)
    BY <1>8, PersistFrame, SessionAssumption DEF TypeOK, States
<1> QED
    BY <1>1, <1>2, <1>3, <1>4, <1>5, <1>6, <1>7, <1>8 DEF WorkerStep

(* The coordinator: nothing of the workers.  Only Push puts an item in     *)
(* flight.                                                                 *)
CoordinatorFrame ==
    /\ asked' = asked /\ work' = work /\ ran' = ran
    /\ \A w \in Workers : pc'[w] = pc[w] /\ cmd'[w] = cmd[w] /\ intr'[w] = intr[w]
    /\ s'.stopping <=> s.stopping
    /\ s.ready => s'.ready
    /\ fenced => fenced'
    /\ \A i \in s.inflight : token[i] => token'[i]

LEMMA CoordinatorFrames ==
    ASSUME TypeOK, Placed, CoordinatorStep
    PROVE  /\ CoordinatorFrame
           /\ ~Push => s'.inflight = s.inflight /\ s'.queue = s.queue
<1> USE SessionAssumption DEF CoordinatorFrame, Threads, Goto, GotoC, CoordinatorUnchanged, TypeOK, States
<1>1. CASE Startup
    <2>1. fenced => fenced'
        BY <1>1 DEF Startup, Answered, Unavailable, Uncertain
    <2>2. /\ s'.stopping = s.stopping /\ s'.inflight = s.inflight /\ s'.queue = s.queue
          /\ s.ready => s'.ready
        BY ZenonT(60), <1>1 DEF Startup
    <2> QED
        BY <1>1, <2>1, <2>2 DEF Startup
<1>2. CASE Top \/ Drain \/ AdmitNothing
    BY <1>2 DEF Top, Drain, AdmitNothing, Continue, session
<1>3. CASE Take
    BY <1>3 DEF Take
<1>4. CASE Admit \/ AdmitReadback
    <2>1. fenced => fenced'
        BY <1>4 DEF Admit, AdmitReadback, Answered, Unavailable, Uncertain, Disowned
    <2>2. Admitted(TRUE) \/ Admitted(FALSE) \/ UNCHANGED <<s, pc>>
        BY <1>4 DEF Admit, AdmitReadback
    <2>3. /\ s'.stopping = s.stopping /\ s'.inflight = s.inflight /\ s'.queue = s.queue
          /\ s.ready => s'.ready
          /\ \A w \in Workers : pc'[w] = pc[w]
        <3>1. CASE UNCHANGED <<s, pc>>
            BY <3>1
        <3>2. ASSUME NEW b \in BOOLEAN, Admitted(b)
              PROVE  /\ s'.stopping = s.stopping /\ s'.inflight = s.inflight
                     /\ s'.queue = s.queue /\ s'.ready = s.ready
                     /\ \A w \in Workers : pc'[w] = pc[w]
            BY <3>2 DEF Admitted
        <3> QED
            BY <2>2, <3>1, <3>2
    <2> QED
        BY <1>4, <2>1, <2>3 DEF Admit, AdmitReadback
<1>5. CASE CancelOne \/ CancelRest
    BY <1>5 DEF CancelOne, CancelRest, Answered, Unavailable, Uncertain, Disowned
<1>6. CASE CheckTokens
    BY <1>6 DEF CheckTokens, CancelTokens, Answered
<1>7. CASE FinishScan \/ Fetch
    BY ZenonT(60), <1>7 DEF FinishScan, Fetch, Continue, Answered, Unavailable
<1>8. CASE Push
    BY ZenonT(60), <1>8 DEF Push, At, Continue, Placed
<1>9. CASE Recheck \/ Cleanup
    BY ZenonT(60), <1>9 DEF Recheck, Cleanup, Continue, Answered, Unavailable
<1>10. CASE Persist(Coordinator)
    BY <1>10, PersistFrame
<1> QED
    BY <1>1, <1>2, <1>3, <1>4, <1>5, <1>6, <1>7, <1>8, <1>9, <1>10 DEF CoordinatorStep

----------------------------------------------------------------------------
(* Steps of a worker.                                                      *)

LEMMA WorkerGoes ==
    ASSUME TypeOK, NEW w \in Workers, WorkerStep(w) \/ CompensateLost(w) \/ Panic(w)
    PROVE  pc'[w] \in WorkerPoints
<1> USE DEF Goto, WorkerPoints, TypeOK, Threads
<1>1. CASE Persist(w)
    BY ZenonT(60), <1>1, SessionAssumption
    DEF Persist, PersistWrite, PersistRead, Escalate, Reconcile, Persisted, Again
<1>2. CASE ~Persist(w)
    BY <1>2 DEF WorkerStep, Pop, WorkerExit, Start, StartReadback, SkipCancelled, Execute, Executed,
       ExecutedCompensating, Compensate, Settle, Release, CompensateLost, Panic
<1> QED
    BY <1>1, <1>2

(* An operation all of whose items ended keeps them, and its result.       *)
LEMMA ResultStays ==
    ASSUME RowsKeep, NEW o \in Ops, Ended(o) = ItemsOf(o)
    PROVE  Ended(o)' = ItemsOf(o) /\ FinishCommand(o)' = FinishCommand(o)
<1>1. \A i \in ItemsOf(o) : item[i] \in ItemEnds /\ item'[i] = item[i]
    BY DEF RowsKeep, Ended, ItemsOf
<1>2. TerminalResult(o, item') = TerminalResult(o, item)
    BY <1>1, ResultIsLocal
<1> QED
    BY <1>1, <1>2 DEF Ended, ItemsOf, FinishCommand

(* What no worker touches stays as it was.                                 *)
LEMMA WorkerKeepsTurn ==
    ASSUME SessionInv, RowsKeep, NEW w \in Workers, WorkerFrame(w), TypeOK',
           pc'[w] \in WorkerPoints
    PROVE  Placed' /\ Admissions' /\ Cancellations' /\ Draining'
<1>0. /\ pc'[Coordinator] = pc[Coordinator] /\ try'[Coordinator] = try[Coordinator]
      /\ \A v \in Workers \ {w} : pc'[v] = pc[v]
      /\ loc' = loc /\ asked' = asked
    BY SessionAssumption DEF Threads, WorkerFrame
<1>1. Placed'
    <2>1. Len(s'.queue) <= Len(s.queue) /\ Len(s.queue) \in Nat /\ Len(s'.queue) \in Nat
        BY DEF WorkerFrame, SessionInv, TypeOK, States
    <2>2. QueueHasRoom => QueueHasRoom'
        BY <2>1, SessionAssumption DEF QueueHasRoom
    <2>3. \A v \in Workers : pc'[v] \in WorkerPoints
        BY <1>0 DEF SessionInv, Placed
    <2> QED
        BY <1>0, <2>2, <2>3 DEF SessionInv, Placed, WorkerFrame
<1>2. Admissions'
    <2>1. \A o \in Ops : o \notin asked'.offered => op'[o].state = "absent"
        BY <1>0, SessionAssumption DEF SessionInv, Admissions, RowsKeep, TypeOK, States
    <2>2. s'.ingress # None =>
          /\ ~s'.admitting /\ s'.admission = None
          /\ s'.ingress \in asked'.offered /\ op'[s'.ingress].state = "absent"
        BY <1>0 DEF SessionInv, Admissions, RowsKeep, WorkerFrame, TypeOK, States
    <2>3. s'.admitting <=> loc'.start # None
        BY <1>0 DEF SessionInv, Admissions, WorkerFrame
    <2>4. loc'.start # None =>
          /\ pc'[Coordinator] = "admit" /\ s'.admission = None
          /\ loc'.start \in asked'.offered
          /\ ~try'[Coordinator].unknown => op'[loc'.start].state = "absent"
        BY <1>0 DEF SessionInv, Admissions, WorkerFrame, RowsKeep, TypeOK, Turns
    <2>5. AdmissionIsTrue'
        BY <1>0 DEF SessionInv, Admissions, AdmissionIsTrue, RowsKeep, WorkerFrame, TypeOK, States
    <2> QED
        BY <2>1, <2>2, <2>3, <2>4, <2>5 DEF Admissions
<1>3. Cancellations'
    <2>1. /\ asked'.cancelled \subseteq asked'.offered
          /\ s'.cancel # None => s'.cancel \in asked'.offered
          /\ loc'.cancel # None => loc'.cancel \in asked'.offered \ {s'.ingress}
        BY <1>0 DEF SessionInv, Cancellations, WorkerFrame
    <2>2. s'.stopping => \A i \in s'.inflight : token'[i]
        BY <1>0 DEF SessionInv, Cancellations, WorkerFrame, TypeOK, States
    <2>3. Disowning => Disowning'
        BY DEF Disowning, WorkerFrame
    <2>4. ASSUME ~Disowning, NEW o \in asked.cancelled,
                 s'.ready, Active(o)' \/ s'.ingress = o \/ loc'.start = o
          PROVE  op'[o].cancel \/ s'.cancel = o \/ loc'.cancel = o
        <3>1. o \in Ops BY DEF SessionInv, TypeOK
        <3>2. Active(o) \/ s.ingress = o \/ loc.start = o
            BY ZenonT(60), <1>0, <2>4, <3>1, StatesApart
            DEF Active, RowsKeep, SessionInv, TypeOK, RowsType, WorkerFrame
        <3> QED
            BY <1>0, <2>4, <3>1, <3>2 DEF SessionInv, Cancellations, RowsKeep, WorkerFrame
    <2>5. ~Disowning => (pc'[Coordinator] = "push" /\ OpOf[loc'.fetched] \in asked'.cancelled
                            => loc'.flag \/ s'.cancel = OpOf[loc'.fetched])
        BY <1>0 DEF SessionInv, Cancellations, WorkerFrame
    <2>6. ~Disowning => \A i \in s'.inflight : OpOf[i] \in asked'.cancelled => token'[i]
        BY <1>0 DEF SessionInv, Cancellations, WorkerFrame, TypeOK, States
    <2> QED
        BY <1>0, <2>1, <2>2, <2>3, <2>4, <2>5, <2>6 DEF Cancellations
<1>4. Draining'
    <2>1. \A i \in Items : item'[i] = "pending" /\ pc[Coordinator] # "admit" => item[i] = "pending"
        BY StatesApart DEF RowsKeep, SessionInv, TypeOK, RowsType
    <2>2. \A o \in Ops : Active(o)' /\ pc[Coordinator] # "admit" => Active(o)
        BY ZenonT(60), StatesApart DEF Active, RowsKeep, SessionInv, TypeOK, RowsType
    <2>3. pc'[Coordinator] = "drain" /\ loc'.empty =>
             \A i \in Items : item'[i] = "pending" => i \in s'.inflight
        BY <1>0, <2>1, StatesApart DEF SessionInv, Draining, WorkerFrame
    <2>4. /\ pc'[Coordinator] = "recheck" =>
               loc'.stopping /\ s'.inflight = {} /\ \A i \in Items : item'[i] # "pending"
          /\ pc'[Coordinator] = "cleanup" =>
               loc'.stopping /\ s'.inflight = {} /\ \A o \in Ops : ~Active(o)'
        BY <1>0, <2>1, <2>2 DEF SessionInv, Draining, WorkerFrame
    <2>5. s'.done /\ ~s'.failed => s.done /\ ~s.failed
        BY DEF WorkerFrame
    <2>6. DrainedIsQuiescent'
        <3> SUFFICES ASSUME s'.done, ~s'.failed
                     PROVE  /\ \A o \in Ops : ~Active(o)'
                            /\ s'.inflight = {} /\ s'.queue = <<>>
                            /\ s'.ingress = None /\ ~s'.admitting
            BY DEF DrainedIsQuiescent
        <3>1. pc[Coordinator] = "exit" /\ DrainedIsQuiescent
            BY <2>5 DEF SessionInv, Draining
        <3>2. s'.queue = <<>>
            <4>1. Len(s'.queue) <= Len(s.queue) /\ s.queue = <<>> /\ s'.queue \in Seq(Items)
                BY <2>5, <3>1 DEF WorkerFrame, DrainedIsQuiescent, TypeOK, States
            <4> QED BY <4>1
        <3> QED
            BY <2>2, <2>5, <3>1, <3>2 DEF DrainedIsQuiescent, WorkerFrame
    <2> QED
        BY <1>0, <2>3, <2>4, <2>5, <2>6 DEF SessionInv, Draining
<1> QED
    BY <1>1, <1>2, <1>3, <1>4

(* Only Pop and Release change who owns what; every other step continues   *)
(* with the same item or leaves.                                           *)
LEMMA WorkerMoves ==
    ASSUME TypeOK, NEW w \in Workers, WorkerStep(w) \/ CompensateLost(w) \/ Panic(w),
           ~Pop(w), ~Release(w)
    PROVE  /\ work' = work /\ s'.inflight = s.inflight /\ s'.queue = s.queue
           /\ pc'[w] # "idle"
           /\ pc'[w] \in Started \cup {"start"} => pc[w] \in Started \cup {"start"}
           /\ pc'[w] = "start" => pc[w] = "start"
<1> USE DEF Goto, TypeOK, Threads, States, Started, Reporting
<1>1. CASE Persist(w)
    <2>1. s' = s /\ work' = work
        BY <1>1, PersistFrame
    <2>2. /\ pc[w] \in {"persist", "escalate", "reconcile"}
          /\ pc'[w] \in {"persist", "escalate", "reconcile", "settle"}
        BY ZenonT(60), <1>1, SessionAssumption
        DEF Persist, PersistWrite, PersistRead, Escalate, Reconcile, Persisted, Again
    <2> QED
        BY <2>1, <2>2
<1>2. CASE CompensateLost(w) \/ Panic(w)
    BY ZenonT(60), <1>2 DEF CompensateLost, Panic
<1>3. CASE WorkerStep(w) /\ ~Persist(w)
    BY <1>3 DEF WorkerStep, WorkerExit, Start, StartReadback, SkipCancelled, Execute, Executed,
       ExecutedCompensating, Compensate, Settle, WorkerUnchanged, session
<1> QED
    BY <1>1, <1>2, <1>3

LEMMA WorkerOwnership ==
    ASSUME SessionInv, NEW w \in Workers, WorkerFrame(w), TypeOK',
           WorkerStep(w) \/ CompensateLost(w) \/ Panic(w)
    PROVE  Ownership'
<1>0. TypeOK /\ Ownership /\ \A v \in Workers \ {w} : pc'[v] = pc[v] /\ work'[v] = work[v]
    BY DEF SessionInv, WorkerFrame, Threads
<1>1. CASE Pop(w)
    <2> DEFINE q == s.queue
    <2>1. /\ q \in Seq(Items) /\ q # <<>> /\ s'.queue = Tail(q) /\ s'.inflight = s.inflight
          /\ work'[w] = Head(q) /\ pc'[w] = "start"
        BY <1>0, <1>1 DEF Pop, Goto, TypeOK, States, Threads
    <2>2. /\ Len(q) \in Nat \ {0} /\ Len(Tail(q)) = Len(q) - 1
          /\ \A n \in 1..Len(Tail(q)) : n + 1 \in 1..Len(q) /\ n + 1 # 1 /\ Tail(q)[n] = q[n + 1]
          /\ 1 \in 1..Len(q) /\ Head(q) = q[1] /\ Head(q) \in Items
        BY <2>1
    <2>3. /\ \A n \in 1..Len(q) : q[n] \in s.inflight
          /\ \A n \in 1..Len(q), v \in Workers : q[n] # work[v]
          /\ \A m, n \in 1..Len(q) : q[m] = q[n] => m = n
        BY <1>0 DEF Ownership
    <2> HIDE DEF q
    <2>4. \A n \in 1..Len(Tail(q)) : Tail(q)[n] \in s.inflight /\ Tail(q)[n] # Head(q)
        BY <2>2, <2>3
    <2>5. \A n \in 1..Len(Tail(q)), v \in Workers : Tail(q)[n] # work'[v]
        BY <1>0, <2>1, <2>2, <2>3, <2>4
    <2>6. \A m, n \in 1..Len(Tail(q)) : Tail(q)[m] = Tail(q)[n] => m = n
        <3> SUFFICES ASSUME NEW m \in 1..Len(Tail(q)), NEW n \in 1..Len(Tail(q)), Tail(q)[m] = Tail(q)[n]
                     PROVE  m = n
            OBVIOUS
        <3>1. m + 1 = n + 1
            BY <2>2, <2>3
        <3> QED BY <3>1
    <2>7. /\ \A v \in Workers : work'[v] # None => work'[v] \in s.inflight
          /\ \A v, u \in Workers : work'[v] # None /\ work'[v] = work'[u] => v = u
        BY <1>0, <2>1, <2>2, <2>3 DEF Ownership
    <2>8. Head(q) # None
        BY <2>2, SessionAssumption
    <2> QED
        BY <1>0, <2>1, <2>4, <2>5, <2>6, <2>7, <2>8 DEF Ownership, Started, Reporting
<1>2. CASE Release(w)
    <2>1. /\ s'.queue = s.queue /\ s'.inflight = s.inflight \ {work[w]}
          /\ work'[w] = None /\ pc'[w] = "idle" /\ work[w] # None
        BY <1>0, <1>2 DEF Release, Goto, TypeOK, States, Threads, Ownership, Started
    <2>2. /\ \A n \in 1..Len(s.queue) : s.queue[n] \in s'.inflight
          /\ \A n \in 1..Len(s.queue), v \in Workers : s.queue[n] # work'[v]
        <3>1. \A n \in 1..Len(s.queue) : s.queue[n] \in Items
            BY <1>0 DEF TypeOK, States
        <3> QED
            BY <1>0, <2>1, <3>1, SessionAssumption DEF Ownership
    <2> QED
        BY <1>0, <2>1, <2>2 DEF Ownership, Started, Reporting
<1>3. CASE ~Pop(w) /\ ~Release(w)
    BY <1>0, <1>3, WorkerMoves DEF Ownership
<1> QED
    BY <1>1, <1>2, <1>3

(* What is settled has ended.                                              *)
LEMMA SettledHasEnded ==
    ASSUME SessionInv, NEW w \in Workers, pc[w] = "settle"
    PROVE  item[work[w]] \in ItemEnds
<1>1. PICK end \in Reported : cmd[w] = CompleteCommand(work[w], end)
    BY DEF SessionInv, Reports, Reporting
<1>2. cmd[w].state \in ItemEnds
    BY <1>1, StatesApart DEF CompleteCommand
<1> QED
    BY <1>2 DEF SessionInv, Reports, SettlementIsDurable

(* A start is known to have happened, or the item has ended.               *)
LEMMA StartOutcome ==
    ASSUME SessionInv, NEW w \in Workers, Start(w) \/ StartReadback(w)
    PROVE  /\ pc[w] = "start" /\ work[w] \in Items /\ ran' = ran
           /\ pc'[w] \in {"start", "check", "release"}
           /\ pc'[w] = "check" => item'[work[w]] = "running"
           /\ pc'[w] = "release" => item[work[w]] \in ItemEnds
<1>0. TypeOK /\ work[w] \in Items /\ OpOf[work[w]] \in Ops /\ pc[w] = "start"
    BY PolicyAssumption DEF SessionInv, Ownership, TypeOK, Start, StartReadback
<1>1. CASE Start(w)
    <2>1. pc'[w] = "start" \/ (pc'[w] = "check" /\ StartItem(work[w]))
        BY <1>0, <1>1 DEF Start, Goto, TypeOK, Threads
    <2>2. StartItem(work[w]) => item'[work[w]] = "running"
        BY <1>0 DEF StartItem, rows, TypeOK, RowsType
    <2> QED
        BY <1>0, <1>1, <2>1, <2>2 DEF Start, WorkerUnchanged
<1>2. CASE StartReadback(w)
    <2>1. \/ pc'[w] = "start"
          \/ pc'[w] = "release" /\ op[OpOf[work[w]]].state = "interrupted"
          \/ pc'[w] = "check" /\ item[work[w]] = "running"
        BY <1>0, <1>2 DEF StartReadback, Goto, TypeOK, Threads
    <2>2. op[OpOf[work[w]]].state = "interrupted" => item[work[w]] \in ItemEnds
        BY <1>0, StatesApart DEF SessionInv, RowsAgree
    <2>3. item' = item /\ ran' = ran
        BY <1>2 DEF StartReadback, rows, WorkerUnchanged
    <2> QED
        BY <1>0, <2>1, <2>2, <2>3
<1> QED
    BY <1>1, <1>2

(* The points a worker reaches, and from where.                            *)
LEMMA WorkerPath ==
    ASSUME TypeOK, NEW w \in Workers, WorkerStep(w) \/ CompensateLost(w) \/ Panic(w),
           ~Start(w), ~StartReadback(w)
    PROVE  /\ pc'[w] \in Started => pc[w] \in Started
           /\ pc'[w] = "release" => pc[w] = "settle"
           /\ pc'[w] \notin {"check", "execute"} \/ (Execute(w) /\ pc'[w] = "execute")
           /\ ran' = ran \/ (Execute(w) /\ ran' = [ran EXCEPT ![work[w]] = @ + 1])
<1> USE DEF Goto, TypeOK, Threads, Started, Reporting
<1>1. CASE Persist(w)
    <2>1. ran' = ran
        BY <1>1, PersistFrame
    <2>2. /\ pc[w] \in {"persist", "escalate", "reconcile"}
          /\ pc'[w] \in {"persist", "escalate", "reconcile", "settle"}
        BY ZenonT(60), <1>1, SessionAssumption
        DEF Persist, PersistWrite, PersistRead, Escalate, Reconcile, Persisted, Again
    <2> QED
        BY <2>1, <2>2
<1>2. CASE CompensateLost(w) \/ Panic(w)
    BY <1>2 DEF CompensateLost, Panic
<1>3. CASE WorkerStep(w) /\ ~Persist(w)
    BY <1>3 DEF WorkerStep, Pop, WorkerExit, SkipCancelled, Execute, Executed,
       ExecutedCompensating, Compensate, Settle, Release, WorkerUnchanged
<1> QED
    BY <1>1, <1>2, <1>3

LEMMA WorkerProgress ==
    ASSUME SessionInv, RowsKeep, NEW w \in Workers, WorkerFrame(w), TypeOK', Ownership',
           WorkerStep(w) \/ CompensateLost(w) \/ Panic(w)
    PROVE  Progress'
<1>0. /\ TypeOK /\ Ownership /\ Progress
      /\ \A v \in Workers \ {w} : pc'[v] = pc[v] /\ work'[v] = work[v]
    BY DEF SessionInv, WorkerFrame, Threads
<1>1. \A i \in Items : item'[i] = "running" /\ s'.ready => i \in s'.inflight
    <2> SUFFICES ASSUME NEW i \in Items, item'[i] = "running", s'.ready PROVE i \in s'.inflight
        OBVIOUS
    <2>1. item[i] \notin ItemEnds
        BY StatesApart DEF RowsKeep
    <2>2. i \in s.inflight
        BY <1>0, SessionAssumption DEF RowsKeep, Ownership, Progress, WorkerFrame
    <2> QED
        BY <2>1, <2>2 DEF WorkerFrame
<1>2. \A v \in Workers : pc[v] \in Started /\ work'[v] = work[v]
          => item'[work'[v]] \notin {"absent", "pending"}
    <2> SUFFICES ASSUME NEW v \in Workers, pc[v] \in Started
                 PROVE  item'[work[v]] \notin {"absent", "pending"}
        OBVIOUS
    <2>1. work[v] \in Items /\ item[work[v]] \in {"running"} \cup ItemEnds
        BY <1>0, StatesApart DEF Ownership, Progress, TypeOK, RowsType
    <2> QED
        BY <2>1, StatesApart DEF RowsKeep
<1>3. ASSUME pc'[w] \in Started PROVE item'[work'[w]] \notin {"absent", "pending"}
    <2>1. work'[w] = work[w]
        <3>1. CASE Pop(w) BY <1>0, <1>3, <3>1 DEF Pop, Goto, Started, Reporting, TypeOK, Threads
        <3>2. CASE Release(w) BY <1>0, <1>3, <3>2 DEF Release, Goto, Started, Reporting, TypeOK, Threads
        <3> QED BY <1>0, <3>1, <3>2, WorkerMoves
    <2>2. CASE Start(w) \/ StartReadback(w)
        BY <1>3, <2>1, <2>2, StartOutcome, StatesApart DEF RowsKeep, Started, Reporting
    <2>3. CASE ~Start(w) /\ ~StartReadback(w)
        BY <1>0, <1>2, <1>3, <2>1, <2>3, WorkerPath
    <2> QED BY <2>2, <2>3
<1>4. ASSUME pc'[w] = "release" PROVE item'[work'[w]] \in ItemEnds
    <2>1. work'[w] = work[w]
        <3>1. CASE Pop(w) BY <1>0, <1>4, <3>1 DEF Pop, Goto, TypeOK, Threads
        <3>2. CASE Release(w) BY <1>0, <1>4, <3>2 DEF Release, Goto, TypeOK, Threads
        <3> QED BY <1>0, <3>1, <3>2, WorkerMoves
    <2>2. work[w] \in Items
        BY <1>4, <2>1 DEF Ownership, TypeOK, Started
    <2>3. item[work[w]] \in ItemEnds
        <3>1. CASE Start(w) \/ StartReadback(w)
            BY <1>4, <3>1, StartOutcome
        <3>2. CASE ~Start(w) /\ ~StartReadback(w)
            BY <1>0, <1>4, <3>2, WorkerPath, SettledHasEnded
        <3> QED BY <3>1, <3>2
    <2> QED BY <2>1, <2>2, <2>3 DEF RowsKeep
<1>5. ASSUME NEW v \in Workers \ {w}, pc[v] = "release" PROVE item'[work[v]] \in ItemEnds
    <2>1. work[v] \in Items /\ item[work[v]] \in ItemEnds
        BY <1>0, <1>5 DEF Ownership, Progress, TypeOK, Started
    <2> QED
        BY <2>1 DEF RowsKeep
<1> QED
    BY <1>0, <1>1, <1>2, <1>3, <1>4, <1>5 DEF Progress

LEMMA WorkerExecutions ==
    ASSUME SessionInv, RowsKeep, NEW w \in Workers, WorkerFrame(w), TypeOK', Ownership',
           WorkerStep(w) \/ CompensateLost(w) \/ Panic(w)
    PROVE  Executions'
<1>0. /\ TypeOK /\ Ownership /\ Progress /\ Executions /\ Placed
      /\ \A v \in Workers \ {w} : pc'[v] = pc[v] /\ work'[v] = work[v]
      /\ pc'[Coordinator] = pc[Coordinator] /\ loc' = loc
    BY SessionAssumption DEF SessionInv, WorkerFrame, Threads
<1>1. \A i \in Items : item'[i] \in {"absent", "pending"} => item[i] \in {"absent", "pending"}
    BY <1>0, StatesApart DEF RowsKeep, TypeOK, RowsType
<1>2. CASE Execute(w)
    <2>1. /\ ran' = [ran EXCEPT ![work[w]] = @ + 1] /\ work' = work /\ s' = s
          /\ pc[w] = "check" /\ pc'[w] = "execute" /\ work[w] \in Items
        BY <1>0, <1>2 DEF Execute, Goto, session, TypeOK, Threads, Ownership, Started
    <2>2. /\ ran[work[w]] = 0 /\ item[work[w]] \notin {"absent", "pending"}
          /\ work[w] \in s.inflight
        BY <1>0, <2>1, SessionAssumption DEF Executions, Progress, Started, Ownership
    <2>3. /\ ran'[work[w]] = 1 /\ \A i \in Items \ {work[w]} : ran'[i] = ran[i]
        BY <1>0, <2>1, <2>2 DEF TypeOK
    <2>4. ExecutedAtMostOnce'
        BY <1>0, <2>3 DEF Executions, ExecutedAtMostOnce
    <2>5. \A i \in Items : item'[i] \in {"absent", "pending"} => ran'[i] = 0
        BY <1>0, <1>1, <2>2, <2>3 DEF Executions
    <2>6. \A v \in Workers : pc'[v] \in {"start", "check"} => ran'[work'[v]] = 0
        <3> SUFFICES ASSUME NEW v \in Workers, pc'[v] \in {"start", "check"} PROVE ran'[work[v]] = 0
            BY <2>1
        <3>1. v # w /\ pc[v] \in {"start", "check"}
            BY <1>0, <2>1
        <3>2. work[v] \in Items /\ work[v] # work[w]
            BY <1>0, <2>1, <3>1 DEF Ownership, Started, TypeOK
        <3> QED BY <1>0, <2>3, <3>1, <3>2 DEF Executions
    <2>7. \A n \in 1..Len(s.queue) : ran'[s.queue[n]] = 0
        <3> SUFFICES ASSUME NEW n \in 1..Len(s.queue) PROVE ran'[s.queue[n]] = 0
            OBVIOUS
        <3>1. s.queue[n] \in Items /\ s.queue[n] # work[w] /\ ran[s.queue[n]] = 0
            BY ZenonT(60), <1>0 DEF Ownership, TypeOK, States, Executions
        <3> QED BY <2>3, <3>1
    <2>8. pc[Coordinator] = "push" => ran'[loc.fetched] = 0
        BY <1>0, <2>2, <2>3 DEF Placed, Executions
    <2> QED
        BY <1>0, <2>1, <2>4, <2>5, <2>6, <2>7, <2>8 DEF Executions
<1>3. CASE ~Execute(w)
    <2>1. ran' = ran
        BY <1>0, <1>3, StartOutcome, WorkerPath
    <2>2. CASE Pop(w)
        <3> DEFINE q == s.queue
        <3>1. /\ q \in Seq(Items) /\ q # <<>> /\ s'.queue = Tail(q)
              /\ work'[w] = Head(q) /\ pc'[w] = "start"
            BY <1>0, <2>2 DEF Pop, Goto, TypeOK, States, Threads
        <3>2. /\ \A n \in 1..Len(Tail(q)) : n + 1 \in 1..Len(q) /\ Tail(q)[n] = q[n + 1]
              /\ 1 \in 1..Len(q) /\ Head(q) = q[1]
            BY <3>1
        <3>3. \A n \in 1..Len(q) : ran[q[n]] = 0
            BY <1>0 DEF Executions
        <3> HIDE DEF q
        <3>4. (\A n \in 1..Len(Tail(q)) : ran[Tail(q)[n]] = 0) /\ ran[Head(q)] = 0
            BY <3>2, <3>3
        <3> QED
            BY <1>0, <1>1, <2>1, <3>1, <3>4 DEF Executions, ExecutedAtMostOnce
    <2>3. CASE Release(w)
        <3>1. s'.queue = s.queue /\ pc'[w] = "idle"
            BY <1>0, <2>3 DEF Release, Goto, TypeOK, States, Threads
        <3> QED
            BY <1>0, <1>1, <2>1, <3>1 DEF Executions, ExecutedAtMostOnce
    <2>4. CASE ~Pop(w) /\ ~Release(w)
        <3>1. s'.queue = s.queue /\ work' = work
            BY <1>0, <2>4, WorkerMoves
        <3>2. pc'[w] \in {"start", "check"} => pc[w] \in {"start", "check"}
            BY <1>0, <1>3, <2>4, WorkerMoves, WorkerPath, StartOutcome
        <3> QED
            BY <1>0, <1>1, <2>1, <3>1, <3>2 DEF Executions, ExecutedAtMostOnce
    <2> QED
        BY <2>2, <2>3, <2>4
<1> QED
    BY <1>2, <1>3

(* What persist leaves a worker with: its own report on record, or the     *)
(* interruption of its operation.                                          *)
LEMMA PersistOutcome ==
    ASSUME SessionInv, NEW w \in Workers, Persist(w)
    PROVE  /\ cmd'[w] = cmd[w]
           /\ pc'[w] = "settle" =>
                IF intr'[w]
                THEN op'[OpOf[work[w]]].state = "interrupted" /\ item'[work[w]] \in ItemEnds
                ELSE item'[work[w]] = cmd[w].state
<1> DEFINE i == work[w]
           o == OpOf[work[w]]
           Own == item'[i] = cmd[w].state
           Foreign == op'[o].state = "interrupted" /\ item'[i] \in ItemEnds
<1>0. TypeOK /\ w \in Threads /\ w # Coordinator /\ pc[w] \in Reporting
    BY SessionAssumption
    DEF SessionInv, Threads, Persist, PersistWrite, PersistRead, Escalate, Reconcile, Reporting
<1>1. PICK end \in Reported : cmd[w] = CompleteCommand(i, end)
    BY <1>0, ReportOf DEF SessionInv
<1>2. i \in Items /\ o \in Ops /\ cmd[w].op = o /\ cmd[w].do = "complete" /\ cmd[w].item = {i}
    BY <1>0, <1>1, ReportOf DEF SessionInv, CompleteCommand
<1>3. op[o].state = "interrupted" => item[i] \in ItemEnds
    BY <1>2, StatesApart DEF SessionInv, RowsAgree
<1>4. Persisted(w, FALSE) => pc'[w] = "settle" /\ ~intr'[w] /\ cmd'[w] = cmd[w]
    BY <1>0 DEF Persisted, Goto, TypeOK
<1>5. Persisted(w, TRUE) => pc'[w] = "settle" /\ intr'[w] /\ cmd'[w] = cmd[w]
    BY <1>0 DEF Persisted, Goto, TypeOK
<1>6. \A next : Again(w, next) => pc'[w] # "settle" /\ cmd'[w] = cmd[w]
    BY <1>0 DEF Again, Goto, TypeOK
<1>7. UNCHANGED rows /\ Inspect(cmd[w]) = "matching" => Own
    BY <1>2 DEF Inspect, rows
<1>8. UNCHANGED rows /\ ConflictInterrupted(cmd[w]) => Foreign
    BY <1>2, <1>3 DEF ConflictInterrupted, rows
<1>9. Write(cmd[w]) => Own
    BY <1>2 DEF Write
<1>10. ASSUME WriteAllowed(InterruptCommand(o)), Write(InterruptCommand(o)) PROVE Foreign
    <2>1. Interrupts({o}) /\ Active(o)
        BY <1>10 DEF InterruptCommand, Write, WriteAllowed, Interrupts
    <2>2. item[i] \in {"pending", "running"} \cup ItemEnds
        BY <1>0, <1>2, StatesApart, ReportOf DEF SessionInv, TypeOK, RowsType
    <2>3. op'[o].state = "interrupted"
        BY <1>0, <1>2, <2>1, InterruptEffect DEF TypeOK
    <2>4. item'[i] = IF item[i] \in {"pending", "running"} THEN "interrupted" ELSE item[i]
        BY <1>0, <1>2, <2>1, InterruptEffect DEF TypeOK
    <2> QED
        BY <2>2, <2>3, <2>4, StatesApart
<1> HIDE DEF Own, Foreign
<1>11. CASE PersistWrite(w)
    <2>1. \/ Persisted(w, FALSE) /\ (Write(cmd[w]) \/ (UNCHANGED rows /\ Inspect(cmd[w]) = "matching"))
          \/ Persisted(w, TRUE) /\ UNCHANGED rows /\ ConflictInterrupted(cmd[w])
          \/ \E next : Again(w, next)
        BY <1>11 DEF PersistWrite
    <2> QED
        BY <2>1, <1>4, <1>5, <1>6, <1>7, <1>8, <1>9 DEF Own, Foreign
<1>12. CASE PersistRead(w)
    <2>1. \/ Persisted(w, FALSE) /\ UNCHANGED rows /\ Inspect(cmd[w]) = "matching"
          \/ Persisted(w, TRUE) /\ UNCHANGED rows /\ ConflictInterrupted(cmd[w])
          \/ \E next : Again(w, next)
        BY <1>12 DEF PersistRead
    <2> QED
        BY <2>1, <1>4, <1>5, <1>6, <1>7, <1>8 DEF Own, Foreign
<1>13. CASE Escalate(w)
    BY <1>0, <1>13 DEF Escalate, Goto, TypeOK
<1>14. CASE Reconcile(w)
    <2>1. \/ /\ Persisted(w, TRUE)
             /\ \/ WriteAllowed(InterruptCommand(o)) /\ Write(InterruptCommand(o))
                \/ UNCHANGED rows /\ op[o].state = "interrupted"
          \/ UNCHANGED <<pc, cmd>> /\ pc[w] = "reconcile"
        BY <1>2, <1>14 DEF Reconcile, InterruptCommand
    <2>2. UNCHANGED rows /\ op[o].state = "interrupted" => Foreign
        BY <1>3 DEF Foreign, rows
    <2> QED
        BY <2>1, <2>2, <1>5, <1>10 DEF Foreign
<1> QED
    BY <1>11, <1>12, <1>13, <1>14 DEF Persist

(* A worker that did not move keeps its report, and what it settles        *)
(* against is final.                                                       *)
LEMMA ReportStays ==
    ASSUME SessionInv, RowsKeep, NEW v \in Workers,
           pc'[v] = pc[v], cmd'[v] = cmd[v], work'[v] = work[v], intr'[v] = intr[v]
    PROVE  /\ pc'[v] \in Reporting => \E end \in Reported : cmd'[v] = CompleteCommand(work'[v], end)
           /\ pc'[v] = "settle" =>
                IF intr'[v]
                THEN op'[OpOf[work'[v]]].state = "interrupted" /\ item'[work'[v]] \in ItemEnds
                ELSE item'[work'[v]] = cmd'[v].state
<1>1. pc[v] \in Reporting => \E end \in Reported : cmd[v] = CompleteCommand(work[v], end)
    BY DEF SessionInv, Reports
<1>2. ASSUME pc[v] = "settle"
      PROVE  /\ item'[work[v]] = item[work[v]] /\ item[work[v]] \in ItemEnds
             /\ op[OpOf[work[v]]].state = "interrupted" => op'[OpOf[work[v]]].state = "interrupted"
    <2>1. work[v] \in Items /\ item[work[v]] \in ItemEnds
        BY <1>2, SettledHasEnded DEF SessionInv, Ownership, TypeOK, Started, Reporting
    <2>2. OpOf[work[v]] \in Ops
        BY <2>1, PolicyAssumption
    <2> QED
        BY <2>1, <2>2, StatesApart DEF RowsKeep
<1>3. pc[v] = "settle" => IF intr[v] THEN op[OpOf[work[v]]].state = "interrupted"
                          ELSE item[work[v]] = cmd[v].state
    BY DEF SessionInv, Reports, SettlementIsDurable
<1> QED
    BY <1>1, <1>2, <1>3

LEMMA WorkerReports ==
    ASSUME SessionInv, RowsKeep, NEW w \in Workers, WorkerFrame(w), TypeOK',
           WorkerStep(w) \/ CompensateLost(w) \/ Panic(w)
    PROVE  Reports'
<1>0. /\ TypeOK /\ Reports
      /\ pc'[Coordinator] = pc[Coordinator] /\ cmd'[Coordinator] = cmd[Coordinator]
      /\ \A v \in Workers \ {w} : /\ pc'[v] = pc[v] /\ cmd'[v] = cmd[v]
                                  /\ work'[v] = work[v] /\ intr'[v] = intr[v]
    BY SessionAssumption DEF SessionInv, WorkerFrame, Threads
<1>1. pc[Coordinator] \in {"persist", "escalate", "reconcile"} =>
          \E o \in Ops : /\ cmd'[Coordinator] = FinishCommand(o)'
                         /\ op'[o].state # "absent"
                         /\ Ended(o)' = ItemsOf(o)
    <2> SUFFICES ASSUME pc[Coordinator] \in {"persist", "escalate", "reconcile"}
                 PROVE  \E o \in Ops : /\ cmd'[Coordinator] = FinishCommand(o)'
                                       /\ op'[o].state # "absent"
                                       /\ Ended(o)' = ItemsOf(o)
        OBVIOUS
    <2>1. PICK o \in Ops : /\ cmd[Coordinator] = FinishCommand(o)
                           /\ op[o].state # "absent" /\ Ended(o) = ItemsOf(o)
        BY <1>0 DEF Reports
    <2>2. Ended(o)' = ItemsOf(o) /\ FinishCommand(o)' = FinishCommand(o)
        BY <2>1, ResultStays
    <2> QED
        BY <1>0, <2>1, <2>2 DEF RowsKeep
<1>2. ASSUME pc'[w] \in Reporting
      PROVE  \E end \in Reported : cmd'[w] = CompleteCommand(work'[w], end)
    <2>1. work'[w] = work[w]
        <3>1. CASE Pop(w) BY <1>0, <1>2, <3>1 DEF Pop, Goto, Reporting, TypeOK, Threads
        <3>2. CASE Release(w) BY <1>0, <1>2, <3>2 DEF Release, Goto, Reporting, TypeOK, Threads
        <3> QED BY <1>0, <3>1, <3>2, WorkerMoves
    <2>2. CASE SkipCancelled(w) \/ ExecutedCompensating(w)
        BY <1>0, <2>1, <2>2 DEF SkipCancelled, ExecutedCompensating, Reported, TypeOK, Threads
    <2>3. ASSUME NEW state \in Reported, NEW resources \in BOOLEAN, Executed(w, state, resources)
          PROVE  \E end \in Reported : cmd'[w] = CompleteCommand(work'[w], end)
        BY <1>0, <2>1, <2>3 DEF Executed, TypeOK, Threads
    <2>4. CASE Compensate(w)
        BY <1>0, <2>1, <2>4 DEF Compensate, Reports, Reporting
    <2>5. CASE Persist(w)
        <3>1. pc[w] \in Reporting
            BY <2>5 DEF Persist, PersistWrite, PersistRead, Escalate, Reconcile, Reporting
        <3> QED
            BY <1>0, <2>1, <2>5, <3>1, PersistOutcome DEF Reports
    <2>6. CASE ~Start(w) /\ ~StartReadback(w)
        BY <1>0, <1>2, <2>2, <2>3, <2>4, <2>5, <2>6
        DEF WorkerStep, Pop, WorkerExit, Execute, Settle, Release, CompensateLost, Panic,
            Goto, Reporting, TypeOK, Threads
    <2>7. CASE Start(w) \/ StartReadback(w)
        BY <1>2, <2>7, StartOutcome DEF Reporting
    <2> QED
        BY <2>6, <2>7
<1>3. ASSUME pc'[w] = "settle"
      PROVE  IF intr'[w]
             THEN op'[OpOf[work'[w]]].state = "interrupted" /\ item'[work'[w]] \in ItemEnds
             ELSE item'[work'[w]] = cmd'[w].state
    <2>1. Persist(w)
        <3>1. ~Start(w) /\ ~StartReadback(w)
            BY <1>3, StartOutcome
        <3> QED
            BY <1>0, <1>3, <3>1
            DEF WorkerStep, Pop, WorkerExit, SkipCancelled, Execute, Executed, ExecutedCompensating,
                Compensate, Settle, Release, CompensateLost, Panic, Goto, TypeOK, Threads
    <2>2. work' = work
        BY <1>0, <2>1, PersistFrame DEF Threads
    <2> QED
        BY <1>3, <2>1, <2>2, PersistOutcome
<1>4. ASSUME NEW v \in Workers \ {w}
      PROVE  /\ pc'[v] \in Reporting => \E end \in Reported : cmd'[v] = CompleteCommand(work'[v], end)
             /\ pc'[v] = "settle" =>
                  IF intr'[v]
                  THEN op'[OpOf[work'[v]]].state = "interrupted" /\ item'[work'[v]] \in ItemEnds
                  ELSE item'[work'[v]] = cmd'[v].state
    BY <1>0, ReportStays
<1>5. ASSUME NEW v \in Workers
      PROVE  /\ pc'[v] \in Reporting => \E end \in Reported : cmd'[v] = CompleteCommand(work'[v], end)
             /\ pc'[v] = "settle" =>
                  IF intr'[v]
                  THEN op'[OpOf[work'[v]]].state = "interrupted" /\ item'[work'[v]] \in ItemEnds
                  ELSE item'[work'[v]] = cmd'[v].state
    BY <1>2, <1>3, <1>4
<1> QED
    BY <1>0, <1>1, <1>5 DEF Reports, SettlementIsDurable, CompleteCommand

LEMMA WorkerInductive ==
    ASSUME SessionInv, NEW w \in Workers, WorkerStep(w) \/ CompensateLost(w) \/ Panic(w)
    PROVE  SessionInv'
<1>1. RowStep
    BY WorkerIsRowStep DEF SessionInv
<1>2. RowsType' /\ RowsAgree' /\ RowsKeep
    BY <1>1, RowsTyped, RowsStayAgreed, RowStepKeeps DEF SessionInv, TypeOK
<1>3. TypeOK' /\ WorkerFrame(w) /\ pc'[w] \in WorkerPoints
    BY <1>2, WorkerTyped, WorkerFrames, WorkerGoes DEF SessionInv
<1>4. Ownership'
    BY <1>3, WorkerOwnership
<1>5. Placed' /\ Admissions' /\ Cancellations' /\ Draining'
    BY <1>2, <1>3, WorkerKeepsTurn
<1>6. Progress' /\ Executions' /\ Reports'
    BY <1>2, <1>3, <1>4, WorkerProgress, WorkerExecutions, WorkerReports
<1> QED
    BY <1>2, <1>3, <1>4, <1>5, <1>6 DEF SessionInv

----------------------------------------------------------------------------
(* Steps of the UI, restarts, and stuttering.                              *)

(* The parts that speak of the workers follow when nothing they name has   *)
(* changed.                                                                *)
LEMMA WorkersKept ==
    ASSUME SessionInv, UNCHANGED <<op, item, pc, cmd, work, intr, loc, ran>>,
           s'.queue = s.queue, s'.inflight = s.inflight, s'.ready <=> s.ready
    PROVE  RowsAgree' /\ Ownership' /\ Progress' /\ Executions' /\ Reports'
<1>1. RowsAgree'
    BY DEF SessionInv, RowsAgree, Ended
<1>2. Ownership' /\ Progress' /\ Executions'
    BY DEF SessionInv, Ownership, Progress, Executions, ExecutedAtMostOnce
<1>3. Reports'
    BY DEF SessionInv, Reports, SettlementIsDurable, CompleteCommand, FinishCommand, Ended
<1> QED
    BY <1>1, <1>2, <1>3

LEMMA HandleInductive == ASSUME SessionInv, Handle PROVE SessionInv'
<1>0. /\ TypeOK' /\ TypeOK
      /\ UNCHANGED <<op, item, fenced, pc, cmd, try, work, intr, loc, ran>>
    BY HandleTyped DEF SessionInv, Handle, try_start, take_admission, cancel, shutdown, rows, locals
<1>1. /\ s'.queue = s.queue /\ s'.inflight = s.inflight
      /\ s'.ready <=> s.ready
      /\ s'.done <=> s.done
      /\ s'.failed <=> s.failed
      /\ s'.admitting <=> s.admitting
    <2>1. \/ \E o \in Ops : s' = [s EXCEPT !.ingress = o] \/ s' = [s EXCEPT !.cancel = o]
          \/ s' = [s EXCEPT !.admission = None, !.accepted = FALSE]
          \/ s' = [s EXCEPT !.stopping = TRUE]
        BY DEF Handle, try_start, take_admission, cancel, shutdown
    <2>2. s \in States
        BY <1>0 DEF TypeOK
    <2>3. CASE \E o \in Ops : s' = [s EXCEPT !.ingress = o] \/ s' = [s EXCEPT !.cancel = o]
        BY <2>2, <2>3 DEF States
    <2>4. CASE s' = [s EXCEPT !.admission = None, !.accepted = FALSE]
        BY <2>2, <2>4 DEF States
    <2>5. CASE s' = [s EXCEPT !.stopping = TRUE]
        BY <2>2, <2>5 DEF States
    <2> QED
        BY <2>1, <2>3, <2>4, <2>5
<1>2. RowsAgree' /\ Ownership' /\ Progress' /\ Executions' /\ Reports'
    BY <1>0, <1>1, WorkersKept
<1> DEFINE Rest == Placed' /\ Admissions' /\ Cancellations' /\ Draining'
<1>3. ASSUME NEW o \in Ops, try_start(o) PROVE Rest
    <2>1. /\ o \notin asked.offered /\ s.ready /\ ~s.stopping /\ ~s.done /\ ~s.admitting
          /\ s.admission = None /\ s.ingress = None
        BY <1>3 DEF try_start
    <2>2. /\ s'.ingress = o /\ s'.admission = s.admission /\ s'.cancel = s.cancel
          /\ s'.stopping <=> s.stopping
          /\ asked'.offered = asked.offered \cup {o} /\ asked'.cancelled = asked.cancelled
          /\ token' = token
        BY <1>0, <1>3 DEF try_start, TypeOK, States
    <2>3. o # None
        BY SessionAssumption
    <2>4. Placed'
        BY <1>0, <1>1, <2>1, <2>2 DEF SessionInv, Placed, QueueHasRoom
    <2>5. Admissions'
        BY <1>0, <1>1, <2>1, <2>2, <2>3 DEF SessionInv, Admissions, AdmissionIsTrue
    <2>6. Cancellations'
        <3>1. o \notin asked.cancelled /\ loc.cancel # o /\ s.cancel # o
            BY <2>1, <2>3 DEF SessionInv, Cancellations
        <3> QED
            BY <1>0, <1>1, <2>1, <2>2, <2>3, <3>1 DEF SessionInv, Cancellations, Disowning, Active
    <2>7. Draining'
        BY <1>0, <1>1, <2>1, <2>2 DEF SessionInv, Draining, DrainedIsQuiescent, Active
    <2> QED BY <2>4, <2>5, <2>6, <2>7
<1>4. ASSUME take_admission PROVE Rest
    <2>1. /\ s'.ingress = s.ingress /\ s'.admission = None /\ s'.cancel = s.cancel
          /\ s'.stopping <=> s.stopping
          /\ asked' = asked /\ token' = token
        BY <1>0, <1>4 DEF take_admission, TypeOK, States
    <2>2. Placed' /\ Admissions'
        BY <1>0, <1>1, <2>1 DEF SessionInv, Placed, QueueHasRoom, Admissions, AdmissionIsTrue
    <2>3. Cancellations'
        BY <1>0, <1>1, <2>1 DEF SessionInv, Cancellations, Disowning, Active
    <2>4. Draining'
        BY <1>0, <1>1, <2>1 DEF SessionInv, Draining, DrainedIsQuiescent, Active
    <2> QED BY <2>2, <2>3, <2>4
<1>5. ASSUME NEW o \in Ops, cancel(o) PROVE Rest
    <2>1. o \in asked.offered /\ ~s.stopping /\ ~s.done /\ s.cancel = None
        BY <1>5 DEF cancel
    <2>2. /\ s'.ingress = s.ingress /\ s'.admission = s.admission /\ s'.cancel = o
          /\ s'.stopping <=> s.stopping
          /\ s'.accepted <=> s.accepted
          /\ asked'.offered = asked.offered /\ asked'.cancelled = asked.cancelled \cup {o}
          /\ \A i \in s.inflight : token'[i] <=> token[i] \/ OpOf[i] = o
        BY <1>0, <1>5 DEF cancel, CancelTokens, InflightOf, TypeOK, States
    <2>3. o # None
        BY SessionAssumption
    <2>4. Placed' /\ Admissions'
        BY <1>0, <1>1, <2>2 DEF SessionInv, Placed, QueueHasRoom, Admissions, AdmissionIsTrue
    <2>5. Cancellations'
        <3>1. \A p \in asked.cancelled : p \in Ops
            BY <1>0 DEF TypeOK
        <3> QED
            BY <1>0, <1>1, <2>1, <2>2, <2>3, <3>1, SessionAssumption
            DEF SessionInv, Cancellations, Disowning, Active
    <2>6. Draining'
        BY <1>0, <1>1, <2>1, <2>2 DEF SessionInv, Draining, DrainedIsQuiescent, Active
    <2> QED BY <2>4, <2>5, <2>6
<1>6. ASSUME shutdown PROVE Rest
    <2>1. /\ s'.ingress = s.ingress /\ s'.admission = s.admission /\ s'.cancel = s.cancel
          /\ s'.stopping
          /\ s'.accepted <=> s.accepted
          /\ asked' = asked
          /\ \A i \in s.inflight : token'[i]
        BY <1>0, <1>6 DEF shutdown, CancelTokens, TypeOK, States
    <2>2. Placed' /\ Admissions'
        BY <1>0, <1>1, <2>1 DEF SessionInv, Placed, QueueHasRoom, Admissions, AdmissionIsTrue
    <2>3. Cancellations'
        BY <1>0, <1>1, <2>1 DEF SessionInv, Cancellations, Disowning, Active
    <2>4. Draining'
        BY <1>0, <1>1, <2>1 DEF SessionInv, Draining, DrainedIsQuiescent, Active
    <2> QED BY <2>2, <2>3, <2>4
<1>7. Rest
    BY <1>3, <1>4, <1>5, <1>6 DEF Handle
<1> QED
    BY <1>0, <1>2, <1>7 DEF SessionInv

(* A session that starts: nobody owns anything, and the rows are what the  *)
(* last one left.                                                          *)
Entry ==
    /\ TypeOK /\ RowsAgree /\ ExecutedAtMostOnce
    /\ \A i \in Items : item[i] \in {"absent", "pending"} => ran[i] = 0
    /\ \A o \in Ops : o \notin asked.offered => op[o].state = "absent"
    /\ asked.cancelled \subseteq asked.offered
    /\ s = NewState /\ pc = AtEntry /\ work = Idle(None) /\ loc = NewTurn

LEMMA EntryInv == Entry => SessionInv
<1> SUFFICES ASSUME Entry PROVE SessionInv OBVIOUS
<1> USE DEF Entry
<1>1. /\ s.queue = <<>> /\ s.inflight = {} /\ ~s.ready /\ ~s.stopping /\ ~s.done /\ ~s.admitting
      /\ s.ingress = None /\ s.admission = None /\ s.cancel = None
    BY DEF NewState
<1>2. loc.start = None /\ loc.cancel = None /\ ~loc.stopping /\ ~loc.empty
    BY DEF NewTurn
<1>3. /\ pc[Coordinator] = "startup"
      /\ \A w \in Workers : pc[w] = "idle" /\ work[w] = None
    BY SessionAssumption DEF AtEntry, Threads, Idle
<1>4. Placed /\ Admissions
    BY <1>1, <1>2, <1>3 DEF Placed, WorkerPoints, CoordinatorPoints, Points, Admissions, AdmissionIsTrue
<1>5. Ownership /\ Progress /\ Executions
    <2>1. Len(s.queue) = 0
        BY <1>1
    <2> QED
        BY <1>1, <1>3, <2>1 DEF Ownership, Started, Reporting, Progress, Executions
<1>6. Reports /\ Cancellations /\ Draining
    BY <1>1, <1>2, <1>3 DEF Reports, Reporting, SettlementIsDurable, Cancellations, Draining, DrainedIsQuiescent
<1> QED
    BY <1>4, <1>5, <1>6 DEF SessionInv

LEMMA InitInv == Init => SessionInv
<1> SUFFICES ASSUME Init PROVE SessionInv OBVIOUS
<1>1. TypeOK
    BY TypesInit
<1>2. RowsAgree
    <2>1. \A o \in Ops : op[o].state = "absent" /\ ~op[o].cancel
        BY DEF Init, RowsInit, Absent
    <2>2. \A i \in Items : item[i] = "absent" /\ OpOf[i] \in Ops
        BY PolicyAssumption DEF Init, RowsInit
    <2> QED
        BY <2>1, <2>2, StatesApart DEF RowsAgree
<1>3. /\ \A i \in Items : ran[i] = 0
      /\ \A o \in Ops : op[o].state = "absent"
      /\ asked.cancelled \subseteq asked.offered
    BY DEF Init, RowsInit, Absent
<1> QED
    BY <1>1, <1>2, <1>3, EntryInv DEF Init, Entry, ExecutedAtMostOnce

LEMMA RestartInductive == ASSUME SessionInv, Restart PROVE SessionInv'
<1>1. TypeOK' /\ UNCHANGED <<op, item, ran, asked>>
    BY RestartTyped DEF SessionInv, Restart, rows
<1>2. RowsAgree'
    BY <1>1 DEF SessionInv, RowsAgree, Ended
<1>3. /\ ExecutedAtMostOnce'
      /\ \A i \in Items : item'[i] \in {"absent", "pending"} => ran'[i] = 0
      /\ \A o \in Ops : o \notin asked'.offered => op'[o].state = "absent"
      /\ asked'.cancelled \subseteq asked'.offered
    BY <1>1 DEF SessionInv, Executions, ExecutedAtMostOnce, Admissions, Cancellations
<1>4. s' = NewState /\ pc' = AtEntry /\ work' = Idle(None) /\ loc' = NewTurn
    BY DEF Restart
<1>5. Entry'
    BY <1>1, <1>2, <1>3, <1>4 DEF Entry
<1> QED
    BY <1>5, EntryInv, PTL

LEMMA StutterInductive == ASSUME SessionInv, UNCHANGED vars PROVE SessionInv'
<1>1. TypeOK'
    BY DEF vars, SessionInv, TypeOK, RowsType
<1>2. RowsAgree' /\ Ownership' /\ Progress' /\ Executions' /\ Reports'
    BY WorkersKept DEF vars
<1>3. Placed' /\ Admissions'
    BY DEF vars, SessionInv, Placed, QueueHasRoom, Admissions, AdmissionIsTrue
<1>4. Cancellations' /\ Draining'
    BY DEF vars, SessionInv, Cancellations, Disowning, Active, Draining, DrainedIsQuiescent
<1> QED
    BY <1>1, <1>2, <1>3, <1>4 DEF SessionInv

----------------------------------------------------------------------------
(* Steps of the coordinator.                                               *)

(* Outside admit and cancel the coordinator holds no command.              *)
LEMMA HoldsNothing ==
    ASSUME SessionInv
    PROVE  /\ pc[Coordinator] # "admit" => loc.start = None /\ ~s.admitting
           /\ pc[Coordinator] \notin {"admit", "cancel"} => loc.cancel = None
           /\ pc[Coordinator] # "exit" => ~s.done \/ s.failed
    BY DEF SessionInv, Admissions, Placed, Draining

(* A step that creates nothing and leaves the session as it is.            *)
LEMMA TurnKept ==
    ASSUME SessionInv, RowsKeep, TypeOK', CoordinatorFrame, s' = s,
           pc[Coordinator] \notin {"startup", "exit"},
           loc.start = None, loc'.start = None, loc'.cancel = loc.cancel,
           loc'.stopping => loc.stopping,
           pc'[Coordinator] \in CoordinatorPoints \ {"startup", "push"},
           loc'.cancel # None => pc'[Coordinator] \in {"admit", "cancel"},
           loc'.empty => pc'[Coordinator] \in {"drain", "recheck", "cleanup", "exit"}
    PROVE  /\ Placed' /\ Admissions' /\ Cancellations'
           /\ (/\ pc'[Coordinator] = "drain" /\ loc'.empty =>
                    \A i \in Items : item'[i] = "pending" => i \in s.inflight
               /\ pc'[Coordinator] = "recheck" =>
                    loc'.stopping /\ s.inflight = {} /\ \A i \in Items : item'[i] # "pending"
               /\ pc'[Coordinator] = "cleanup" =>
                    loc'.stopping /\ s.inflight = {} /\ \A o \in Ops : ~Active(o)')
              => Draining'
<1>0. \A o \in Ops : o # None
    BY SessionAssumption
<1>1. Placed'
    BY DEF SessionInv, Placed, CoordinatorFrame, QueueHasRoom
<1>2. \A o \in Ops : op[o].state = "absent" <=> op'[o].state = "absent"
    BY <1>0 DEF RowsKeep
<1>3. Admissions'
    <2>1. /\ s.ingress # None => s.ingress \in Ops
          /\ s.admission # None => s.admission \in Ops
        BY DEF SessionInv, TypeOK, States
    <2>2. s'.ingress # None =>
          /\ ~s'.admitting /\ s'.admission = None
          /\ s'.ingress \in asked'.offered /\ op'[s'.ingress].state = "absent"
        BY <1>2, <2>1 DEF SessionInv, Admissions, CoordinatorFrame
    <2>3. AdmissionIsTrue'
        BY <1>2, <2>1 DEF SessionInv, Admissions, AdmissionIsTrue
    <2>4. \A o \in Ops : o \notin asked'.offered => op'[o].state = "absent"
        BY <1>2 DEF SessionInv, Admissions, CoordinatorFrame
    <2>5. ~s'.admitting
        BY DEF SessionInv, Admissions
    <2> QED
        BY <2>2, <2>3, <2>4, <2>5 DEF Admissions
<1>4. Cancellations'
    <2>1. /\ asked'.cancelled \subseteq asked'.offered
          /\ s'.cancel # None => s'.cancel \in asked'.offered
          /\ loc'.cancel # None => loc'.cancel \in asked'.offered \ {s'.ingress}
        BY DEF SessionInv, Cancellations, CoordinatorFrame
    <2>2. s'.stopping => \A i \in s'.inflight : token'[i]
        BY DEF SessionInv, Cancellations, CoordinatorFrame
    <2>3. Disowning => Disowning'
        BY DEF Disowning, CoordinatorFrame
    <2>4. ASSUME ~Disowning, NEW o \in asked.cancelled,
                 s'.ready, Active(o)' \/ s'.ingress = o \/ loc'.start = o
          PROVE  op'[o].cancel \/ s'.cancel = o \/ loc'.cancel = o
        <3>1. o \in Ops BY DEF SessionInv, TypeOK
        <3>2. Active(o) \/ s.ingress = o \/ loc.start = o
            BY ZenonT(60), <1>2, <2>4, <3>1, StatesApart DEF Active, RowsKeep, SessionInv, TypeOK, RowsType
        <3> QED
            BY <2>4, <3>1, <3>2 DEF SessionInv, Cancellations, RowsKeep
    <2>5. ~Disowning => \A i \in s'.inflight : OpOf[i] \in asked'.cancelled => token'[i]
        BY DEF SessionInv, Cancellations, CoordinatorFrame
    <2> QED
        BY <2>1, <2>2, <2>3, <2>4, <2>5 DEF Cancellations, CoordinatorFrame
<1>5. ~s'.done \/ s'.failed
    BY HoldsNothing
<1> QED
    BY <1>1, <1>3, <1>4, <1>5 DEF Draining, DrainedIsQuiescent

(* What the coordinator's parts of the invariant come to.                  *)
CoordinatorParts == Placed' /\ Admissions' /\ Cancellations' /\ Draining'

LEMMA PersistGoes ==
    ASSUME TypeOK, Persist(Coordinator)
    PROVE  /\ pc[Coordinator] \in {"persist", "escalate", "reconcile"}
           /\ \/ /\ pc'[Coordinator] = "top" /\ loc' = NewTurn
              \/ /\ pc'[Coordinator] \in {"persist", "escalate", "reconcile"}
                 /\ loc' = loc /\ cmd' = cmd
<1> USE DEF Goto, TypeOK, Threads
<1>1. CASE PersistWrite(Coordinator) \/ PersistRead(Coordinator)
    <2>1. \/ \E b : Persisted(Coordinator, b)
          \/ \E next : Again(Coordinator, next)
        BY <1>1 DEF PersistWrite, PersistRead
    <2>2. pc[Coordinator] = "persist"
        BY <1>1 DEF PersistWrite, PersistRead
    <2> QED
        BY <2>1, <2>2 DEF Persisted, Again
<1>2. CASE Escalate(Coordinator)
    BY <1>2 DEF Escalate
<1>3. CASE Reconcile(Coordinator)
    <2>1. Persisted(Coordinator, TRUE) \/ UNCHANGED <<pc, cmd, loc>>
        BY <1>3 DEF Reconcile
    <2>2. pc[Coordinator] = "reconcile"
        BY <1>3 DEF Reconcile
    <2> QED
        BY <2>1, <2>2 DEF Persisted
<1> QED
    BY <1>1, <1>2, <1>3 DEF Persist

LEMMA NewTurnHolds ==
    /\ NewTurn.start = None /\ NewTurn.cancel = None
    /\ ~NewTurn.stopping /\ ~NewTurn.empty
    BY DEF NewTurn

(* The steps of a turn that only move on or start the next one.            *)
LEMMA PlainTurns ==
    ASSUME SessionInv, RowsKeep, TypeOK', CoordinatorFrame,
           \/ Top \/ AdmitNothing \/ CancelRest \/ CheckTokens \/ FinishScan
           \/ Persist(Coordinator)
    PROVE  CoordinatorParts
<1> USE DEF GotoC, Goto, At, CoordinatorPoints, Points, Threads, CoordinatorParts
<1>0. TypeOK /\ Coordinator \in Threads /\ pc \in [Threads -> Points] /\ loc \in Turns
    BY DEF SessionInv, TypeOK
<1>1. loc.empty => pc[Coordinator] \in {"drain", "recheck", "cleanup", "exit"}
    BY DEF SessionInv, Placed
<1>2. CASE Top
    BY <1>0, <1>1, <1>2, TurnKept, HoldsNothing DEF Top, session
<1>3. CASE AdmitNothing
    BY <1>0, <1>1, <1>3, TurnKept DEF AdmitNothing, session
<1>4. CASE CancelRest
    <2>1. pc[Coordinator] = "cancel" /\ loc' = loc /\ s' = s /\ loc.cancel = None
          /\ pc'[Coordinator] \in {"check", "cancel"}
        BY <1>0, <1>4 DEF CancelRest
    <2> QED
        BY <1>1, <2>1, TurnKept, HoldsNothing
<1>5. CASE CheckTokens
    BY <1>0, <1>1, <1>5, TurnKept, HoldsNothing DEF CheckTokens
<1>6. CASE FinishScan
    <2>1. /\ pc[Coordinator] = "scan" /\ s' = s
          /\ pc'[Coordinator] \in {"persist", "fetch"}
        BY <1>0, <1>6 DEF FinishScan
    <2>2. loc' = loc \/ loc' = [loc EXCEPT !.quiet = TRUE]
        BY <1>6 DEF FinishScan
    <2>3. /\ loc'.start = loc.start /\ loc'.cancel = loc.cancel
          /\ loc'.stopping <=> loc.stopping
          /\ loc'.empty <=> loc.empty
        BY <1>0, <2>2 DEF Turns
    <2> QED
        BY <1>1, <2>1, <2>3, TurnKept, HoldsNothing
<1>7. CASE Persist(Coordinator)
    <2>1. s' = s
        BY <1>0, <1>7, PersistFrame
    <2> QED
        BY <1>0, <1>1, <1>7, <2>1, PersistGoes, NewTurnHolds, TurnKept, HoldsNothing
<1> QED
    BY <1>2, <1>3, <1>4, <1>5, <1>6, <1>7

(* The end of a turn: what the fetch found, and what drain and recheck     *)
(* conclude from it.                                                       *)
LEMMA DrainTurns ==
    ASSUME SessionInv, RowsKeep, TypeOK', CoordinatorFrame, Drain \/ Recheck
    PROVE  CoordinatorParts
<1> USE DEF GotoC, Goto, At, Continue, CoordinatorPoints, Points, Threads, CoordinatorParts
<1>0. TypeOK /\ Coordinator \in Threads /\ pc \in [Threads -> Points] /\ loc \in Turns
    BY DEF SessionInv, TypeOK
<1>1. loc.start = None /\ loc.cancel = None /\ s' = s /\ UNCHANGED rows
    BY HoldsNothing DEF Drain, Recheck, session
<1>2. CASE pc'[Coordinator] = "top" /\ loc' = NewTurn
    BY <1>0, <1>1, <1>2, NewTurnHolds, TurnKept DEF Drain, Recheck
<1>3. CASE Drain /\ pc'[Coordinator] # "top"
    <2>1. /\ pc[Coordinator] = "drain" /\ pc'[Coordinator] = "recheck" /\ loc' = loc
          /\ loc.empty /\ loc.stopping /\ s.inflight = {}
        BY <1>0, <1>3 DEF Drain, Drained
    <2>2. \A i \in Items : item[i] # "pending"
        BY <2>1 DEF SessionInv, Draining
    <2> QED
        BY <1>1, <2>1, <2>2, TurnKept DEF rows
<1>4. CASE Recheck /\ pc'[Coordinator] # "top"
    <2>1. /\ pc[Coordinator] = "recheck" /\ pc'[Coordinator] = "cleanup" /\ loc' = loc
          /\ ReadyToFinish({}) = {}
        BY <1>0, <1>4 DEF Recheck
    <2>2. loc.stopping /\ s.inflight = {} /\ s.ready /\ \A i \in Items : item[i] # "pending"
        BY <2>1 DEF SessionInv, Draining, Placed
    <2>3. ASSUME NEW o \in Ops, Active(o) PROVE FALSE
        <3>1. op[o].completed # Total(o)
            BY <2>1, <2>3 DEF ReadyToFinish
        <3>2. Ended(o) # ItemsOf(o)
            BY <1>0, <2>3, <3>1, EndedIsFinite, StatesApart DEF SessionInv, RowsAgree, Active, TypeOK, Total
        <3>3. PICK i \in ItemsOf(o) : item[i] \notin ItemEnds
            BY <3>2 DEF Ended
        <3>4. i \in Items /\ OpOf[i] = o /\ item[i] # "absent"
            BY <2>3, StatesApart DEF ItemsOf, SessionInv, RowsAgree, Active
        <3>5. item[i] = "running"
            BY <1>0, <2>2, <3>3, <3>4, StatesApart DEF TypeOK, RowsType
        <3> QED
            BY <2>2, <3>4, <3>5 DEF SessionInv, Progress
    <2> QED
        BY <1>1, <2>1, <2>2, <2>3, TurnKept DEF rows, Active
<1> QED
    BY <1>0, <1>2, <1>3, <1>4 DEF Drain, Recheck

LEMMA FetchTurns ==
    ASSUME SessionInv, RowsKeep, TypeOK', CoordinatorFrame, Fetch
    PROVE  CoordinatorParts
<1> USE DEF GotoC, Goto, At, Continue, CoordinatorPoints, Points, Threads, CoordinatorParts
<1>0. /\ TypeOK /\ Coordinator \in Threads /\ pc \in [Threads -> Points] /\ loc \in Turns
      /\ pc[Coordinator] = "fetch" /\ s' = s /\ UNCHANGED rows
      /\ loc.start = None /\ loc.cancel = None /\ ~loc.empty /\ s.ready /\ ~s.admitting
      /\ ~s.done \/ s.failed
    BY HoldsNothing DEF SessionInv, TypeOK, Fetch, Placed
<1>1. ASSUME NEW i \in Items, item[i] = "pending" PROVE Active(OpOf[i])
    BY <1>0, <1>1, PolicyAssumption, StatesApart
    DEF SessionInv, RowsAgree, Active, TypeOK, RowsType
<1>2. CASE pc'[Coordinator] = "top" /\ loc' = NewTurn
    BY <1>0, <1>2, NewTurnHolds, TurnKept
<1>3. CASE pc'[Coordinator] = "drain"
    <2>1. \/ loc' = loc
          \/ NextPending(s.inflight) = {} /\ loc' = [loc EXCEPT !.empty = TRUE]
        BY <1>0, <1>3 DEF Fetch
    <2>2. /\ loc'.start = loc.start /\ loc'.cancel = loc.cancel
          /\ loc'.stopping <=> loc.stopping
          /\ loc'.empty => NextPending(s.inflight) = {}
        BY <1>0, <2>1 DEF Turns
    <2>3. loc'.empty => \A i \in Items : item'[i] = "pending" => i \in s.inflight
        BY <1>0, <1>1, <2>2 DEF NextPending, rows
    <2> QED
        BY <1>0, <1>3, <2>2, <2>3, TurnKept
<1>4. CASE pc'[Coordinator] = "push"
    <2>1. PICK i \in NextPending(s.inflight) :
              loc' = [loc EXCEPT !.fetched = i, !.flag = op[OpOf[i]].cancel]
        BY <1>0, <1>4 DEF Fetch
    <2>2. QueueHasRoom
        BY <1>0, <1>4 DEF Fetch
    <2>3. /\ loc'.start = loc.start /\ loc'.cancel = loc.cancel
          /\ loc'.stopping <=> loc.stopping
          /\ loc'.empty <=> loc.empty
          /\ loc'.fetched = i /\ loc'.flag = op[OpOf[i]].cancel
        BY <1>0, <2>1 DEF Turns
    <2>4. i \in Items \ s.inflight /\ Active(OpOf[i])
        BY <2>1 DEF NextPending
    <2>5. Placed'
        BY <1>0, <1>4, <2>2, <2>3, <2>4 DEF SessionInv, Placed, CoordinatorFrame, QueueHasRoom
    <2>6. Admissions'
        BY <1>0, <2>3 DEF SessionInv, Admissions, AdmissionIsTrue, CoordinatorFrame, rows
    <2>7. Cancellations'
        <3>1. ~Disowning /\ OpOf[i] \in asked.cancelled => op[OpOf[i]].cancel \/ s.cancel = OpOf[i]
            BY <1>0, <2>4, PolicyAssumption, SessionAssumption DEF SessionInv, Cancellations
        <3> QED
            BY <1>0, <2>3, <3>1 DEF SessionInv, Cancellations, CoordinatorFrame, rows, Disowning, Active
    <2>8. Draining'
        BY <1>0, <1>4 DEF Draining, DrainedIsQuiescent
    <2> QED BY <2>5, <2>6, <2>7, <2>8
<1> QED
    BY <1>0, <1>2, <1>3, <1>4 DEF Fetch

(* Recovery leaves nothing active, and nothing running.                    *)
LEMMA RecoveryEndsAll ==
    ASSUME TypeOK, RowsAgree, RecoverStartup
    PROVE  /\ \A o \in Ops : ~Active(o)'
           /\ \A i \in Items : item'[i] # "running"
<1> DEFINE O == {o \in Ops : Active(o)}
<1>1. O \in SUBSET Ops /\ Interrupts(O)
    BY DEF RecoverStartup, Interrupts
<1>2. /\ \A o \in Ops \ O : op'[o] = op[o]
      /\ \A o \in O : op'[o].state = "interrupted"
      /\ \A i \in Items : item'[i] = IF OpOf[i] \in O /\ item[i] \in {"pending", "running"}
                                     THEN "interrupted" ELSE item[i]
    BY <1>1, InterruptEffect DEF TypeOK
<1>3. \A o \in Ops : ~Active(o)'
    BY <1>2, StatesApart DEF Active
<1>4. ASSUME NEW i \in Items, item[i] = "running" PROVE OpOf[i] \in O
    BY <1>4, PolicyAssumption, StatesApart DEF RowsAgree, Active, TypeOK, RowsType
<1> QED
    BY <1>2, <1>3, <1>4

LEMMA StartupTurn ==
    ASSUME SessionInv, RowsKeep, TypeOK', CoordinatorFrame, Startup
    PROVE  CoordinatorParts /\ (s'.ready => \A i \in Items : item'[i] # "running")
<1> USE DEF GotoC, Goto, At, CoordinatorPoints, Points, Threads
<1>0. /\ TypeOK /\ s \in States /\ pc \in [Threads -> Points] /\ pc[Coordinator] = "startup"
      /\ loc.start = None /\ loc.cancel = None /\ ~loc.empty /\ ~s.admitting
      /\ ~s.done \/ s.failed
      /\ ~s.ready /\ s.inflight = {} /\ s.ingress = None
      /\ loc' = loc /\ token' = token /\ try' = try /\ asked' = asked
    BY HoldsNothing DEF SessionInv, TypeOK, Startup, Placed, CoordinatorUnchanged
<1>1. /\ s'.ingress = s.ingress /\ s'.admission = s.admission /\ s'.cancel = s.cancel
      /\ s'.queue = s.queue /\ s'.inflight = s.inflight
      /\ s'.stopping <=> s.stopping
      /\ s'.admitting <=> s.admitting
      /\ s'.accepted <=> s.accepted
      /\ ~s'.done \/ s'.failed
    BY ZenonT(60), <1>0 DEF Startup, States
<1>2. /\ s'.ready => RecoverStartup /\ pc'[Coordinator] = "top"
      /\ ~s'.ready => pc'[Coordinator] \in {"startup", "exit"}
    BY <1>0 DEF Startup, States
<1>3. s'.ready => (\A o \in Ops : ~Active(o)') /\ \A i \in Items : item'[i] # "running"
    BY <1>0, <1>2, RecoveryEndsAll DEF SessionInv
<1>4. Placed'
    BY <1>0, <1>1, <1>2 DEF SessionInv, Placed, CoordinatorFrame
<1>5. Admissions'
    <2>1. \A o \in Ops : op[o].state = "absent" <=> op'[o].state = "absent"
        BY <1>0 DEF RowsKeep
    <2>2. s.admission # None => s.admission \in Ops
        BY <1>0 DEF States
    <2>3. AdmissionIsTrue'
        BY <1>1, <2>1, <2>2 DEF SessionInv, Admissions, AdmissionIsTrue
    <2> QED
        BY <1>0, <1>1, <2>1, <2>3 DEF SessionInv, Admissions
<1>6. Cancellations'
    <2>1. \A o \in asked.cancelled : o \in Ops /\ o # None
        BY <1>0, SessionAssumption DEF TypeOK
    <2> QED
        BY <1>0, <1>1, <1>2, <1>3, <2>1 DEF SessionInv, Cancellations
<1>7. Draining'
    BY <1>0, <1>1, <1>2 DEF Draining, DrainedIsQuiescent
<1> QED
    BY <1>3, <1>4, <1>5, <1>6, <1>7 DEF CoordinatorParts

LEMMA TakeTurn ==
    ASSUME SessionInv, TypeOK', CoordinatorFrame, Take
    PROVE  CoordinatorParts
<1> USE DEF GotoC, Goto, At, CoordinatorPoints, Points, Threads
<1>0. /\ TypeOK /\ s \in States /\ loc \in Turns /\ pc[Coordinator] = "take"
      /\ pc'[Coordinator] = "admit" /\ UNCHANGED rows /\ s.ready
      /\ loc.start = None /\ loc.cancel = None /\ ~loc.empty
      /\ ~s.done \/ s.failed
      /\ token' = token /\ asked' = asked /\ fenced' = fenced
    BY HoldsNothing DEF SessionInv, TypeOK, Take, Placed, CoordinatorUnchanged
<1>1. /\ s'.ingress = None /\ s'.admission = s.admission /\ s'.cancel = None
      /\ s'.queue = s.queue /\ s'.inflight = s.inflight
      /\ s'.stopping <=> s.stopping
      /\ s'.admitting <=> s.ingress # None
      /\ s'.accepted <=> s.accepted
      /\ s'.done <=> s.done
      /\ s'.failed <=> s.failed
      /\ s'.ready <=> s.ready
    <2> DEFINE b == s.ingress # None
    <2>1. s' = [s EXCEPT !.ingress = None, !.admitting = b, !.cancel = None] /\ b \in BOOLEAN
        BY DEF Take
    <2> HIDE DEF b
    <2>2. /\ s'.ingress = None /\ s'.admission = s.admission /\ s'.cancel = None
          /\ s'.queue = s.queue /\ s'.inflight = s.inflight
          /\ s'.admitting <=> b
          /\ s'.stopping = s.stopping /\ s'.accepted = s.accepted /\ s'.done = s.done
          /\ s'.failed = s.failed /\ s'.ready = s.ready
        BY <1>0, <2>1 DEF States
    <2> QED BY <2>2 DEF b
<1>2. /\ loc'.start = s.ingress /\ loc'.cancel = s.cancel
      /\ loc'.stopping <=> s.stopping
      /\ loc'.empty <=> loc.empty
    BY <1>0 DEF Take, Turns
<1>3. Placed'
    BY <1>0, <1>1, <1>2 DEF SessionInv, Placed, CoordinatorFrame
<1>4. Admissions'
    <2>1. loc'.start # None =>
          /\ pc'[Coordinator] = "admit" /\ s'.admission = None
          /\ loc'.start \in asked'.offered
          /\ op'[loc'.start].state = "absent"
        BY <1>0, <1>1, <1>2 DEF SessionInv, Admissions, rows
    <2>2. AdmissionIsTrue' /\ \A o \in Ops : o \notin asked'.offered => op'[o].state = "absent"
        BY <1>0, <1>1 DEF SessionInv, Admissions, AdmissionIsTrue, rows
    <2> QED
        BY <1>1, <1>2, <2>1, <2>2 DEF Admissions
<1>5. Cancellations'
    <2>1. \A o \in asked.offered \cup asked.cancelled : o \in Ops /\ o # None
        BY <1>0, SessionAssumption DEF TypeOK
    <2> QED
        BY <1>0, <1>1, <1>2, <2>1 DEF SessionInv, Cancellations, Disowning, Active, rows
<1>6. Draining'
    BY <1>0, <1>1 DEF Draining, DrainedIsQuiescent
<1> QED
    BY <1>3, <1>4, <1>5, <1>6 DEF CoordinatorParts

(* What an admission can come to: the acknowledgement says what the rows   *)
(* say; without one, the answer is still open or the operation absent.     *)
LEMMA AdmitOutcome ==
    ASSUME SessionInv, RowsKeep, Admit \/ AdmitReadback
    PROVE  /\ pc[Coordinator] = "admit" /\ loc.start \in Ops /\ UNCHANGED <<token, asked>>
           /\ \/ Admitted(TRUE) /\ op'[loc.start].state # "absent"
              \/ Admitted(FALSE) /\ op'[loc.start].state = "absent"
              \/ /\ UNCHANGED <<s, pc, loc>>
                 /\ ~try'[Coordinator].unknown => op'[loc.start].state = "absent"
<1>0. /\ TypeOK /\ pc[Coordinator] = "admit" /\ loc.start \in Ops /\ UNCHANGED <<token, asked>>
      /\ try[Coordinator] \in Tries /\ Coordinator \in Threads
    BY DEF SessionInv, TypeOK, Turns, Admit, AdmitReadback, At, CoordinatorUnchanged, Threads
<1>1. ~try[Coordinator].unknown => op[loc.start].state = "absent"
    BY <1>0, SessionAssumption DEF SessionInv, Admissions
<1>2. CASE Admit
    <2>0. ~try[Coordinator].unknown /\ op[loc.start].state = "absent"
        BY <1>1, <1>2 DEF Admit
    <2>1. CreateOp(loc.start) => op'[loc.start].state # "absent"
        BY <1>0, <2>0 DEF CreateOp, TypeOK, RowsType
    <2>2. UNCHANGED rows => op'[loc.start].state = "absent"
        BY <2>0 DEF rows
    <2> DEFINE doubt(u) == UNCHANGED <<s, pc, loc>> /\ try' = [try EXCEPT ![Coordinator].unknown = u]
    <2>3. \/ UNCHANGED rows /\ Admitted(FALSE)
          \/ CreateOp(loc.start) /\ Admitted(TRUE)
          \/ UNCHANGED rows /\ doubt(FALSE)
          \/ doubt(TRUE)
        BY <1>2 DEF Admit, Unavailable, Disowned, rows
    <2>4. doubt(TRUE) => try'[Coordinator].unknown
        BY <1>0 DEF TypeOK, Tries
    <2> QED
        BY <1>0, <2>1, <2>2, <2>3, <2>4
<1>3. CASE AdmitReadback
    <2>1. op' = op /\ try[Coordinator].unknown
        BY <1>3 DEF AdmitReadback, rows
    <2>2. \/ op[loc.start].state # "absent" /\ Admitted(TRUE)
          \/ UNCHANGED <<s, pc, loc>> /\ (try' = try \/ op[loc.start].state = "absent")
        BY <1>3 DEF AdmitReadback
    <2> QED
        BY <1>0, <2>1, <2>2
<1> QED
    BY <1>2, <1>3

LEMMA AdmittedEffect ==
    ASSUME TypeOK, NEW b \in BOOLEAN, Admitted(b)
    PROVE  /\ s'.ingress = s.ingress /\ s'.admission = loc.start /\ s'.cancel = s.cancel
           /\ s'.queue = s.queue /\ s'.inflight = s.inflight /\ ~s'.admitting
           /\ s'.accepted <=> b
           /\ s'.stopping <=> s.stopping
           /\ s'.done <=> s.done
           /\ s'.failed <=> s.failed
           /\ s'.ready <=> s.ready
           /\ loc'.start = None /\ loc'.cancel = loc.cancel
           /\ loc'.stopping <=> loc.stopping
           /\ loc'.empty <=> loc.empty
           /\ pc'[Coordinator] = "cancel"
<1>1. /\ s' = [s EXCEPT !.admitting = FALSE, !.admission = loc.start, !.accepted = b]
      /\ loc' = [loc EXCEPT !.start = None] /\ pc'[Coordinator] = "cancel"
      /\ s \in States /\ loc \in Turns
    BY DEF Admitted, GotoC, Goto, Threads, TypeOK
<1>2. /\ s'.ingress = s.ingress /\ s'.admission = loc.start /\ s'.cancel = s.cancel
      /\ s'.queue = s.queue /\ s'.inflight = s.inflight /\ ~s'.admitting
      /\ s'.accepted = b /\ s'.stopping = s.stopping /\ s'.done = s.done
      /\ s'.failed = s.failed /\ s'.ready = s.ready
    BY <1>1 DEF States
<1>3. /\ loc'.start = None /\ loc'.cancel = loc.cancel
      /\ loc'.stopping = loc.stopping /\ loc'.empty = loc.empty
    BY <1>1 DEF Turns
<1> QED
    BY <1>1, <1>2, <1>3

LEMMA AdmitTurn ==
    ASSUME SessionInv, RowsKeep, TypeOK', CoordinatorFrame, Admit \/ AdmitReadback
    PROVE  CoordinatorParts
<1>0. /\ TypeOK /\ pc[Coordinator] = "admit" /\ loc.start \in Ops /\ loc.start # None
      /\ token' = token /\ asked' = asked
      /\ s.admitting /\ s.ingress = None /\ s.admission = None /\ ~loc.empty /\ s.ready
      /\ loc.start \in asked.offered
      /\ ~s.done \/ s.failed
    BY AdmitOutcome, HoldsNothing, SessionAssumption DEF SessionInv, Admissions, Placed
<1>1. \/ Admitted(TRUE) /\ op'[loc.start].state # "absent"
      \/ Admitted(FALSE) /\ op'[loc.start].state = "absent"
      \/ /\ UNCHANGED <<s, pc, loc>>
         /\ ~try'[Coordinator].unknown => op'[loc.start].state = "absent"
    BY AdmitOutcome
<1>2. \A o \in Ops : o \notin asked'.offered => op'[o].state = "absent"
    BY <1>0 DEF SessionInv, Admissions, RowsKeep
<1>3. \A o \in Ops : Active(o)' => Active(o) \/ loc.start = o
    BY <1>0, StatesApart DEF Active, RowsKeep, TypeOK, RowsType
<1>4. \A o \in asked.cancelled : o \in Ops /\ o # None
    BY <1>0, SessionAssumption DEF TypeOK
<1>5. Disowning => Disowning'
    BY DEF Disowning, CoordinatorFrame
<1>6. ASSUME ~Disowning, NEW o \in asked.cancelled, Active(o)' \/ loc.start = o
      PROVE  op'[o].cancel \/ s.cancel = o \/ loc.cancel = o
    BY <1>0, <1>3, <1>4, <1>6 DEF SessionInv, Cancellations, RowsKeep
<1>7. ASSUME NEW b \in BOOLEAN, Admitted(b), b <=> op'[loc.start].state # "absent"
      PROVE  CoordinatorParts
    <2>1. /\ s'.ingress = s.ingress /\ s'.admission = loc.start /\ s'.cancel = s.cancel
          /\ s'.queue = s.queue /\ s'.inflight = s.inflight /\ ~s'.admitting
          /\ s'.accepted <=> b
          /\ s'.stopping <=> s.stopping
          /\ s'.done <=> s.done
          /\ s'.failed <=> s.failed
          /\ s'.ready <=> s.ready
          /\ loc'.start = None /\ loc'.cancel = loc.cancel
          /\ loc'.stopping <=> loc.stopping
          /\ loc'.empty <=> loc.empty
          /\ pc'[Coordinator] = "cancel"
        BY <1>0, <1>7, AdmittedEffect
    <2>2. Placed'
        BY <1>0, <2>1 DEF SessionInv, Placed, CoordinatorFrame, CoordinatorPoints, Points
    <2>3. Admissions'
        BY <1>0, <1>2, <1>7, <2>1 DEF Admissions, AdmissionIsTrue
    <2>4. Cancellations'
        BY <1>0, <1>4, <1>5, <1>6, <2>1 DEF SessionInv, Cancellations
    <2>5. Draining'
        BY <1>0, <2>1 DEF Draining, DrainedIsQuiescent
    <2> QED
        BY <2>2, <2>3, <2>4, <2>5 DEF CoordinatorParts
<1>8. CASE /\ UNCHANGED <<s, pc, loc>>
           /\ ~try'[Coordinator].unknown => op'[loc.start].state = "absent"
    <2>1. Placed'
        BY <1>8 DEF SessionInv, Placed, QueueHasRoom
    <2>2. Admissions'
        BY <1>0, <1>2, <1>8 DEF SessionInv, Admissions, AdmissionIsTrue
    <2>3. Cancellations'
        BY <1>0, <1>4, <1>5, <1>6, <1>8 DEF SessionInv, Cancellations
    <2>4. Draining'
        BY <1>0, <1>8 DEF Draining, DrainedIsQuiescent
    <2> QED
        BY <2>1, <2>2, <2>3, <2>4 DEF CoordinatorParts
<1> QED
    BY <1>1, <1>7, <1>8

(* A request leaves the coordinator's hands only on record, for nothing it *)
(* could be about, or with the library disowned.                           *)
LEMMA CancelTurn ==
    ASSUME SessionInv, RowsKeep, TypeOK', CoordinatorFrame, CancelOne
    PROVE  CoordinatorParts
<1>0. /\ TypeOK /\ loc \in Turns /\ pc[Coordinator] = "cancel" /\ pc' = pc /\ s' = s /\ try' = try
      /\ token' = token /\ asked' = asked /\ loc.start = None /\ ~loc.empty /\ s.ready
      /\ loc.cancel \in Ops /\ loc.cancel # s.ingress
      /\ ~s.done \/ s.failed
    BY HoldsNothing
    DEF SessionInv, TypeOK, CancelOne, At, CoordinatorUnchanged, Placed, Turns, Cancellations
<1>1. \/ loc' = loc
      \/ /\ loc' = [loc EXCEPT !.cancel = None]
         /\ RequestCancel(loc.cancel) \/ Disowning'
    BY DEF CancelOne, Disowned, Faulty, Disowning
<1>2. /\ loc'.start = None
      /\ loc'.stopping <=> loc.stopping
      /\ loc'.empty <=> loc.empty
      /\ loc'.cancel = loc.cancel \/ (loc'.cancel = None /\ (RequestCancel(loc.cancel) \/ Disowning'))
    BY <1>0, <1>1 DEF Turns
<1>3. \A o \in Ops : op[o].state = "absent" <=> op'[o].state = "absent"
    BY <1>0, SessionAssumption DEF RowsKeep
<1>4. ASSUME NEW o \in Ops, RequestCancel(o), Active(o)' PROVE op'[o].cancel
    BY <1>0, <1>4 DEF RequestCancel, Active, TypeOK, RowsType
<1>5. Placed'
    BY <1>0, <1>2 DEF SessionInv, Placed, QueueHasRoom
<1>6. Admissions'
    <2>1. /\ s.ingress # None => s.ingress \in Ops
          /\ s.admission # None => s.admission \in Ops
        BY <1>0 DEF TypeOK, States
    <2>2. AdmissionIsTrue'
        BY <1>0, <1>3, <2>1 DEF SessionInv, Admissions, AdmissionIsTrue
    <2> QED
        BY <1>0, <1>2, <1>3, <2>1, <2>2 DEF SessionInv, Admissions
<1>7. Cancellations'
    <2>1. \A o \in asked.cancelled : o \in Ops /\ o # None
        BY <1>0, SessionAssumption DEF TypeOK
    <2>2. Disowning => Disowning'
        BY DEF Disowning, CoordinatorFrame
    <2>3. ASSUME ~Disowning', NEW o \in asked.cancelled, Active(o)' \/ s.ingress = o
          PROVE  op'[o].cancel \/ s.cancel = o \/ loc'.cancel = o
        <3>0. o \in Ops /\ op[o].state \in OpStates
            BY <1>0, <2>1 DEF TypeOK, RowsType
        <3>1. Active(o) \/ s.ingress = o
            BY <1>3, <2>3, <3>0, StatesApart DEF Active, RowsKeep
        <3>2. op[o].cancel \/ s.cancel = o \/ loc.cancel = o
            BY <1>0, <2>2, <2>3, <3>1 DEF SessionInv, Cancellations
        <3>3. op[o].cancel => op'[o].cancel
            BY <2>1 DEF RowsKeep
        <3> QED
            BY <1>0, <1>2, <1>4, <2>3, <3>0, <3>2, <3>3
    <2> QED
        BY <1>0, <1>2, <2>1, <2>2, <2>3 DEF SessionInv, Cancellations
<1>8. Draining'
    BY <1>0 DEF Draining, DrainedIsQuiescent
<1> QED
    BY <1>5, <1>6, <1>7, <1>8 DEF CoordinatorParts

(* The work was chosen without the lock; its token honours what was asked  *)
(* since.                                                                  *)
LEMMA PushEffect ==
    ASSUME SessionInv, Push, ~s.done
    PROVE  /\ loc.fetched \in Items \ s.inflight /\ s.ready
           /\ s'.queue = Append(s.queue, loc.fetched)
           /\ s'.inflight = s.inflight \cup {loc.fetched}
           /\ s'.ingress = s.ingress /\ s'.admission = s.admission /\ s'.cancel = s.cancel
           /\ s'.admitting <=> s.admitting
           /\ s'.accepted <=> s.accepted
           /\ s'.stopping <=> s.stopping
           /\ s'.ready <=> s.ready
           /\ ~s'.done
           /\ \A i \in Items \ {loc.fetched} : token'[i] = token[i]
           /\ token'[loc.fetched] <=> PushToken(loc.fetched)
           /\ pc'[Coordinator] = "top" /\ loc' = NewTurn
           /\ UNCHANGED <<op, item, fenced, work, cmd, intr, ran, asked>>
           /\ \A w \in Workers : pc'[w] = pc[w]
<1>0. /\ TypeOK /\ s \in States /\ pc[Coordinator] = "push"
      /\ loc.fetched \in Items \ s.inflight /\ s.ready
    BY DEF SessionInv, TypeOK, Push, At, Placed
<1>1. s' = [s EXCEPT !.inflight = @ \cup {loc.fetched}, !.queue = Append(@, loc.fetched)]
    BY DEF Push
<1>2. /\ s'.queue = Append(s.queue, loc.fetched)
      /\ s'.inflight = s.inflight \cup {loc.fetched}
      /\ s'.ingress = s.ingress /\ s'.admission = s.admission /\ s'.cancel = s.cancel
      /\ s'.admitting = s.admitting /\ s'.accepted = s.accepted /\ s'.stopping = s.stopping
      /\ s'.ready = s.ready /\ s'.done = s.done
    BY <1>0, <1>1 DEF States
<1>3. /\ \A i \in Items \ {loc.fetched} : token'[i] = token[i]
      /\ token'[loc.fetched] <=> PushToken(loc.fetched)
    <2> DEFINE b == PushToken(loc.fetched)
    <2>1. token' = [token EXCEPT ![loc.fetched] = b]
        BY DEF Push
    <2> HIDE DEF b
    <2>2. token'[loc.fetched] = b /\ \A i \in Items \ {loc.fetched} : token'[i] = token[i]
        BY <1>0, <2>1 DEF TypeOK
    <2> QED BY <2>2 DEF b
<1>4. /\ pc'[Coordinator] = "top" /\ loc' = NewTurn
      /\ UNCHANGED <<op, item, fenced, work, cmd, intr, ran, asked>>
      /\ \A w \in Workers : pc'[w] = pc[w]
    BY <1>0, SessionAssumption
    DEF Push, Continue, GotoC, Goto, CoordinatorUnchanged, rows, TypeOK, Threads
<1> QED
    BY <1>0, <1>2, <1>3, <1>4

LEMMA PushTurn ==
    ASSUME SessionInv, RowsKeep, TypeOK', CoordinatorFrame, Push
    PROVE  CoordinatorParts
<1>0. /\ TypeOK /\ pc[Coordinator] = "push" /\ s.ready
      /\ loc.start = None /\ loc.cancel = None /\ ~loc.empty /\ ~s.admitting
      /\ ~s.done \/ s.failed
    BY HoldsNothing DEF SessionInv, Push, At, Placed
<1>1. CASE s.done
    <2>1. s' = s /\ loc' = loc /\ pc'[Coordinator] = "exit"
        BY <1>0, <1>1 DEF Push, GotoC, Goto, TypeOK, Threads
    <2> QED
        BY <1>0, <2>1, TurnKept DEF CoordinatorParts, CoordinatorPoints, Points
<1>2. CASE ~s.done
    <2> DEFINE i == loc.fetched
    <2>1. /\ i \in Items \ s.inflight
          /\ s'.inflight = s.inflight \cup {i}
          /\ s'.ingress = s.ingress /\ s'.admission = s.admission /\ s'.cancel = s.cancel
          /\ s'.admitting <=> s.admitting
          /\ s'.accepted <=> s.accepted
          /\ s'.stopping <=> s.stopping
          /\ s'.ready <=> s.ready
          /\ ~s'.done
          /\ \A j \in Items \ {i} : token'[j] = token[j]
          /\ token'[i] <=> PushToken(i)
          /\ pc'[Coordinator] = "top" /\ loc' = NewTurn
          /\ UNCHANGED <<op, item, fenced, asked>>
        BY <1>2, PushEffect
    <2>2. Placed'
        BY <1>0, <2>1, NewTurnHolds DEF SessionInv, Placed, CoordinatorFrame, CoordinatorPoints, Points
    <2>3. Admissions'
        BY <1>0, <2>1, NewTurnHolds DEF SessionInv, Admissions, AdmissionIsTrue
    <2>4. Cancellations'
        <3>1. s.stopping => token'[i]
            BY <2>1 DEF PushToken
        <3>2. ~Disowning /\ OpOf[i] \in asked.cancelled => token'[i]
            BY <1>0, <2>1 DEF PushToken, SessionInv, Cancellations
        <3>3. \A o \in asked.cancelled : o \in Ops /\ o # None
            BY <1>0, SessionAssumption DEF TypeOK
        <3>4. \A j \in s.inflight : j \in Items /\ j # i
            BY <1>0, <2>1 DEF TypeOK, States
        <3> HIDE DEF i
        <3>5. s'.stopping => \A j \in s'.inflight : token'[j]
            BY <2>1, <3>1, <3>4 DEF SessionInv, Cancellations
        <3>6. ~Disowning => \A j \in s'.inflight : OpOf[j] \in asked.cancelled => token'[j]
            BY <2>1, <3>2, <3>4 DEF SessionInv, Cancellations
        <3>7. ~Disowning => \A o \in asked.cancelled :
                  s.ready /\ (Active(o) \/ s.ingress = o) => op[o].cancel \/ s.cancel = o
            BY <1>0, <3>3 DEF SessionInv, Cancellations
        <3> QED
            BY <1>0, <2>1, <3>3, <3>5, <3>6, <3>7, NewTurnHolds
            DEF SessionInv, Cancellations, Disowning, Active
    <2>5. Draining'
        BY <2>1 DEF Draining, DrainedIsQuiescent
    <2> QED
        BY <2>2, <2>3, <2>4, <2>5 DEF CoordinatorParts
<1> QED
    BY <1>1, <1>2

LEMMA CleanupTurn ==
    ASSUME SessionInv, RowsKeep, TypeOK', CoordinatorFrame, Cleanup
    PROVE  CoordinatorParts
<1>0. /\ TypeOK /\ s \in States /\ pc[Coordinator] = "cleanup" /\ s.ready /\ UNCHANGED rows
      /\ loc' = loc /\ try' = try /\ token' = token /\ asked' = asked
      /\ loc.start = None /\ loc.cancel = None /\ ~s.admitting
      /\ loc.stopping /\ s.inflight = {} /\ s.ingress = None
      /\ \A o \in Ops : ~Active(o)
      /\ ~s.done \/ s.failed
    BY HoldsNothing DEF SessionInv, TypeOK, Cleanup, At, CoordinatorUnchanged, Placed, Draining
<1>1. s.queue = <<>>
    <2>1. s.queue \in Seq(Items) /\ \A n \in 1..Len(s.queue) : FALSE
        BY <1>0 DEF States, SessionInv, Ownership
    <2>2. Len(s.queue) \in Nat /\ (Len(s.queue) # 0 => 1 \in 1..Len(s.queue))
        BY <2>1
    <2>3. Len(s.queue) = 0
        BY <2>1, <2>2
    <2> QED BY <2>1, <2>3
<1>2. \/ UNCHANGED <<s, pc>>
      \/ /\ s' = [s EXCEPT !.done = TRUE] \/ s' = [s EXCEPT !.failed = TRUE, !.done = TRUE]
         /\ pc'[Coordinator] = "exit"
    BY <1>0 DEF Cleanup, GotoC, Goto, TypeOK, Threads
<1>3. CASE UNCHANGED <<s, pc>>
    BY <1>0, <1>3, TurnKept DEF CoordinatorParts, CoordinatorPoints, Points, rows, Active
<1>4. CASE /\ s' = [s EXCEPT !.done = TRUE] \/ s' = [s EXCEPT !.failed = TRUE, !.done = TRUE]
           /\ pc'[Coordinator] = "exit"
    <2>1. /\ s'.ingress = s.ingress /\ s'.admission = s.admission /\ s'.cancel = s.cancel
          /\ s'.queue = s.queue /\ s'.inflight = s.inflight
          /\ s'.admitting <=> s.admitting
          /\ s'.accepted <=> s.accepted
          /\ s'.stopping <=> s.stopping
          /\ s'.ready <=> s.ready
        <3>1. CASE s' = [s EXCEPT !.done = TRUE]
            BY <1>0, <3>1 DEF States
        <3>2. CASE s' = [s EXCEPT !.failed = TRUE, !.done = TRUE]
            BY <1>0, <3>2 DEF States
        <3> QED BY <1>4, <3>1, <3>2
    <2>2. Placed'
        BY <1>0, <1>4, <2>1 DEF SessionInv, Placed, CoordinatorFrame, CoordinatorPoints, Points
    <2>3. Admissions'
        BY <1>0, <2>1 DEF SessionInv, Admissions, AdmissionIsTrue, rows
    <2>4. Cancellations'
        <3>1. \A o \in asked.cancelled : o \in Ops /\ o # None
            BY <1>0, SessionAssumption DEF TypeOK
        <3> QED
            BY <1>0, <1>4, <2>1, <3>1 DEF SessionInv, Cancellations, rows, Active
    <2>5. Draining'
        BY <1>0, <1>1, <1>4, <2>1 DEF Draining, DrainedIsQuiescent, rows, Active
    <2> QED
        BY <2>2, <2>3, <2>4, <2>5 DEF CoordinatorParts
<1> QED
    BY <1>2, <1>3, <1>4

(* The command the coordinator persists stays the one it chose.            *)
LEMMA CoordinatorReports ==
    ASSUME SessionInv, RowsKeep, CoordinatorFrame, CoordinatorStep
    PROVE  Reports'
<1>0. TypeOK /\ Coordinator \in Threads
    BY DEF SessionInv, Threads
<1>1. ASSUME NEW v \in Workers
      PROVE  /\ pc'[v] \in Reporting => \E end \in Reported : cmd'[v] = CompleteCommand(work'[v], end)
             /\ pc'[v] = "settle" =>
                  IF intr'[v]
                  THEN op'[OpOf[work'[v]]].state = "interrupted" /\ item'[work'[v]] \in ItemEnds
                  ELSE item'[work'[v]] = cmd'[v].state
    BY ReportStays DEF CoordinatorFrame
<1>2. ASSUME pc'[Coordinator] \in {"persist", "escalate", "reconcile"}
      PROVE  \E o \in Ops : /\ cmd'[Coordinator] = FinishCommand(o)'
                            /\ op'[o].state # "absent"
                            /\ Ended(o)' = ItemsOf(o)
    <2>1. ASSUME NEW o \in Ops, cmd'[Coordinator] = FinishCommand(o),
                 op[o].state # "absent", Ended(o) = ItemsOf(o)
          PROVE  \E p \in Ops : /\ cmd'[Coordinator] = FinishCommand(p)'
                                /\ op'[p].state # "absent"
                                /\ Ended(p)' = ItemsOf(p)
        BY <2>1, ResultStays DEF RowsKeep
    <2>2. CASE Persist(Coordinator)
        <3>1. /\ pc[Coordinator] \in {"persist", "escalate", "reconcile"}
              /\ cmd' = cmd
            BY <1>0, <1>2, <2>2, PersistGoes
        <3>2. PICK o \in Ops : /\ cmd[Coordinator] = FinishCommand(o)
                               /\ op[o].state # "absent" /\ Ended(o) = ItemsOf(o)
            BY <3>1 DEF SessionInv, Reports
        <3> QED
            BY <2>1, <3>1, <3>2
    <2>3. CASE FinishScan
        <3>1. PICK o \in ReadyToFinish({OpOf[i] : i \in s.inflight}) :
                  cmd' = [cmd EXCEPT ![Coordinator] = FinishCommand(o)]
            BY <1>0, <1>2, <2>3 DEF FinishScan, GotoC, Goto, TypeOK
        <3>2. o \in Ops /\ Active(o) /\ op[o].completed = Total(o) /\ op[o].state # "absent"
            BY <3>1, StatesApart DEF ReadyToFinish, Active
        <3>3. Ended(o) = ItemsOf(o)
            BY <1>0, <3>2, EndedIsFinite DEF SessionInv, RowsAgree, TypeOK
        <3>4. cmd'[Coordinator] = FinishCommand(o)
            BY <1>0, <3>1 DEF TypeOK
        <3> QED
            BY <2>1, <3>2, <3>3, <3>4
    <2>4. CASE Admit \/ AdmitReadback
        <3>1. pc'[Coordinator] \in {"cancel", "admit"}
            BY <1>0, <2>4, AdmitOutcome, AdmittedEffect
        <3> QED BY <1>2, <3>1
    <2>5. CASE Startup \/ Top \/ Take \/ AdmitNothing \/ CancelOne \/ CancelRest \/ CheckTokens
        BY <1>0, <1>2, <2>5
        DEF Startup, Top, Take, AdmitNothing, CancelOne, CancelRest, CheckTokens, GotoC, Goto, At, TypeOK
    <2>6. CASE Fetch \/ Push \/ Drain \/ Recheck \/ Cleanup
        BY <1>0, <1>2, <2>6 DEF Fetch, Push, Drain, Recheck, Cleanup, Continue, GotoC, Goto, At, TypeOK
    <2> QED
        BY <2>2, <2>3, <2>4, <2>5, <2>6 DEF CoordinatorStep
<1> QED
    BY <1>1, <1>2 DEF Reports, SettlementIsDurable, CompleteCommand

(* Only Fetch chooses an item, and it is a pending one.                    *)
LEMMA FetchedIsFresh ==
    ASSUME SessionInv, CoordinatorStep, pc'[Coordinator] = "push"
    PROVE  ran[loc'.fetched] = 0
<1>0. TypeOK /\ Coordinator \in Threads /\ loc \in Turns
    BY DEF SessionInv, Threads, TypeOK
<1>1. CASE Fetch
    <2>1. PICK i \in NextPending(s.inflight) :
              loc' = [loc EXCEPT !.fetched = i, !.flag = op[OpOf[i]].cancel]
        BY <1>0, <1>1 DEF Fetch, Continue, GotoC, Goto, TypeOK
    <2>2. loc'.fetched = i /\ i \in Items /\ item[i] = "pending"
        BY <1>0, <2>1 DEF Turns, NextPending
    <2> QED
        BY <2>2 DEF SessionInv, Executions
<1>2. CASE Persist(Coordinator)
    BY <1>0, <1>2, PersistGoes
<1>3. CASE Admit \/ AdmitReadback
    <2>1. Admitted(TRUE) \/ Admitted(FALSE) \/ pc' = pc
        BY <1>3 DEF Admit, AdmitReadback
    <2> QED
        BY <1>0, <1>3, <2>1, AdmittedEffect DEF Admit, AdmitReadback, At
<1>4. CASE Startup \/ Top \/ Take \/ AdmitNothing \/ CancelOne \/ CancelRest \/ CheckTokens
    BY <1>0, <1>4
    DEF Startup, Top, Take, AdmitNothing, CancelOne, CancelRest, CheckTokens, GotoC, Goto, At, TypeOK
<1>5. CASE FinishScan \/ Push \/ Drain \/ Recheck \/ Cleanup
    BY <1>0, <1>5 DEF FinishScan, Push, Drain, Recheck, Cleanup, Continue, GotoC, Goto, At, TypeOK
<1> QED
    BY <1>1, <1>2, <1>3, <1>4, <1>5 DEF CoordinatorStep

LEMMA CoordinatorKeepsWork ==
    ASSUME SessionInv, RowsKeep, TypeOK', CoordinatorFrame, CoordinatorStep,
           s'.inflight = s.inflight, s'.queue = s.queue,
           s'.ready => s.ready \/ \A i \in Items : item'[i] # "running"
    PROVE  Ownership' /\ Progress' /\ Executions'
<1>0. /\ TypeOK /\ work' = work /\ ran' = ran /\ \A w \in Workers : pc'[w] = pc[w]
    BY DEF SessionInv, CoordinatorFrame
<1>1. Ownership'
    BY <1>0 DEF SessionInv, Ownership
<1>2. Progress'
    <2>1. \A i \in Items : item'[i] = "running" /\ s'.ready => i \in s'.inflight
        <3> SUFFICES ASSUME NEW i \in Items, item'[i] = "running", s.ready PROVE i \in s.inflight
            OBVIOUS
        <3> QED
            BY SessionAssumption DEF RowsKeep, SessionInv, Ownership, Progress
    <2>2. ASSUME NEW w \in Workers, pc[w] \in Started
          PROVE  item'[work[w]] \notin {"absent", "pending"}
        <3>1. work[w] \in Items /\ item[work[w]] \in {"running"} \cup ItemEnds
            BY <1>0, <2>2, StatesApart DEF SessionInv, Ownership, Progress, TypeOK, RowsType
        <3> QED
            BY <3>1, StatesApart DEF RowsKeep
    <2>3. ASSUME NEW w \in Workers, pc[w] = "release" PROVE item'[work[w]] \in ItemEnds
        <3>1. work[w] \in Items /\ item[work[w]] \in ItemEnds
            BY <1>0, <2>3 DEF SessionInv, Ownership, Progress, TypeOK, Started
        <3> QED
            BY <3>1 DEF RowsKeep
    <2> QED
        BY <1>0, <2>1, <2>2, <2>3 DEF Progress
<1>3. Executions'
    <2>1. \A i \in Items : item'[i] \in {"absent", "pending"} => item[i] \in {"absent", "pending"}
        BY <1>0, StatesApart DEF RowsKeep, TypeOK, RowsType
    <2> QED
        BY <1>0, <2>1, FetchedIsFresh DEF SessionInv, Executions, ExecutedAtMostOnce
<1> QED
    BY <1>1, <1>2, <1>3

LEMMA PushKeepsWork ==
    ASSUME SessionInv, RowsKeep, TypeOK', Push, ~s.done
    PROVE  Ownership' /\ Progress' /\ Executions'
<1> DEFINE i == loc.fetched
           q == s.queue
<1>0. /\ i \in Items \ s.inflight /\ s'.queue = Append(q, i) /\ s'.inflight = s.inflight \cup {i}
      /\ s'.ready <=> s.ready
      /\ UNCHANGED <<item, work, ran>> /\ \A w \in Workers : pc'[w] = pc[w]
      /\ pc'[Coordinator] # "push" /\ pc[Coordinator] = "push"
    BY PushEffect DEF Push, At
<1>1. q \in Seq(Items) /\ Ownership /\ Progress /\ Executions /\ ran[i] = 0
    BY <1>0 DEF SessionInv, TypeOK, States, Executions
<1> HIDE DEF i, q
<1>2. /\ Len(q) \in Nat /\ Len(Append(q, i)) = Len(q) + 1
      /\ \A n \in 1..(Len(q) + 1) : \/ n \in 1..Len(q) /\ Append(q, i)[n] = q[n]
                                    \/ n = Len(q) + 1 /\ Append(q, i)[n] = i
    BY <1>0, <1>1
<1>3. /\ \A n \in 1..Len(q) : q[n] \in s.inflight
      /\ \A n \in 1..Len(q), w \in Workers : q[n] # work[w]
      /\ \A m, n \in 1..Len(q) : q[m] = q[n] => m = n
      /\ \A w \in Workers : work[w] # i
      /\ \A n \in 1..Len(q) : ran[q[n]] = 0
    <2>1. \A w \in Workers : work[w] # None => work[w] \in s.inflight
        BY <1>1 DEF Ownership
    <2>2. i # None
        BY <1>0, SessionAssumption
    <2> QED
        BY <1>0, <1>1, <2>1, <2>2 DEF Ownership, Executions, q
<1> DEFINE a == Append(q, i)
<1>4. /\ \A n \in 1..Len(a) : a[n] \in s.inflight \cup {i} /\ ran[a[n]] = 0
      /\ \A n \in 1..Len(a), w \in Workers : a[n] # work[w]
    BY <1>1, <1>2, <1>3
<1>5. \A m, n \in 1..Len(a) : a[m] = a[n] => m = n
    <2> SUFFICES ASSUME NEW m \in 1..Len(a), NEW n \in 1..Len(a), a[m] = a[n] PROVE m = n
        OBVIOUS
    <2>1. m \in 1..(Len(q) + 1) /\ n \in 1..(Len(q) + 1)
        BY <1>2
    <2>2. i \notin s.inflight
        BY <1>0
    <2> QED
        BY <1>2, <1>3, <2>1, <2>2
<1> HIDE DEF a
<1>6. s'.queue = a
    BY <1>0 DEF a
<1>7. Ownership'
    BY <1>0, <1>1, <1>4, <1>5, <1>6 DEF Ownership
<1>8. Progress'
    BY <1>0, <1>1 DEF Progress
<1>9. Executions'
    BY <1>0, <1>1, <1>4, <1>6 DEF Executions, ExecutedAtMostOnce
<1> QED
    BY <1>7, <1>8, <1>9

LEMMA CoordinatorInductive == ASSUME SessionInv, CoordinatorStep PROVE SessionInv'
<1>1. RowStep
    BY CoordinatorIsRowStep DEF SessionInv
<1>2. RowsType' /\ RowsAgree' /\ RowsKeep
    BY <1>1, RowsTyped, RowsStayAgreed, RowStepKeeps DEF SessionInv, TypeOK
<1>3. /\ TypeOK' /\ CoordinatorFrame
      /\ ~Push => s'.inflight = s.inflight /\ s'.queue = s.queue
    BY <1>2, CoordinatorTyped, CoordinatorFrames DEF SessionInv
<1>4. CoordinatorParts
    BY <1>2, <1>3, PlainTurns, DrainTurns, FetchTurns, StartupTurn, TakeTurn, AdmitTurn, CancelTurn,
       PushTurn, CleanupTurn
    DEF CoordinatorStep
<1>5. Reports'
    BY <1>2, <1>3, CoordinatorReports
<1>6. Ownership' /\ Progress' /\ Executions'
    <2>1. CASE Push /\ ~s.done
        BY <1>2, <1>3, <2>1, PushKeepsWork
    <2>2. CASE Push /\ s.done
        <3>1. s' = s
            BY <2>2 DEF Push
        <3> QED
            BY <1>2, <1>3, <3>1, CoordinatorKeepsWork
    <2>3. CASE Startup
        <3>1. s'.ready => \A i \in Items : item'[i] # "running"
            BY <1>2, <1>3, <2>3, StartupTurn
        <3>2. ~Push
            BY <2>3 DEF Startup, Push, At
        <3> QED
            BY <1>2, <1>3, <3>1, <3>2, CoordinatorKeepsWork
    <2>4. CASE ~Push /\ ~Startup
        <3>1. s.ready
            BY <2>4 DEF CoordinatorStep, Top, Take, Admit, AdmitReadback, AdmitNothing, CancelOne,
               CancelRest, CheckTokens, FinishScan, Fetch, Drain, Recheck, Cleanup, Persist,
               PersistWrite, PersistRead, Escalate, Reconcile, At, SessionInv, Placed
        <3> QED
            BY SMTT(30), <1>2, <1>3, <2>4, <3>1, CoordinatorKeepsWork
    <2> QED
        BY <2>1, <2>2, <2>3, <2>4
<1> QED
    BY <1>2, <1>3, <1>4, <1>5, <1>6 DEF SessionInv, CoordinatorParts

LEMMA NextInductive == ASSUME SessionInv, [Next]_vars PROVE SessionInv'
    BY HandleInductive, CoordinatorInductive, WorkerInductive, RestartInductive, StutterInductive
    DEF Next

----------------------------------------------------------------------------
(* The invariant, and what follows from it.                                *)

LEMMA SessionInvHolds == Spec => []SessionInv
<1>1. SessionInv /\ [Next]_vars => SessionInv'
    BY NextInductive
<1> QED
    BY <1>1, InitInv, PTL DEF Spec

(* The types of the session's state; in particular the queue of the mutex  *)
(* never grows past its capacity, although Fetch looks at its length in    *)
(* one critical section and Push appends in another.                       *)
THEOREM SessionTypeCorrect == Spec => []TypeOK
    BY SessionInvHolds, PTL DEF SessionInv

(* Through retries, unknown commits, readbacks, panics and restarts no     *)
(* item's executor is entered twice: start_item is the only way there.     *)
THEOREM ItemsRunAtMostOnce == Spec => []ExecutedAtMostOnce
<1>1. SessionInv => ExecutedAtMostOnce
    BY DEF SessionInv, Executions
<1> QED
    BY <1>1, SessionInvHolds, PTL

(* take_admission never tells the UI of an operation that does not exist,  *)
(* nor denies one that does, however often create had to be read back.     *)
THEOREM AcknowledgementsAreTrue == Spec => []AdmissionIsTrue
<1>1. SessionInv => AdmissionIsTrue
    BY DEF SessionInv, Admissions
<1> QED
    BY <1>1, SessionInvHolds, PTL

(* settle() is called only against a row that will never change: the       *)
(* worker's own report, or the interruption that replaced it.              *)
THEOREM SettlementsAreDurable == Spec => []SettlementIsDurable
<1>1. SessionInv => SettlementIsDurable
    BY DEF SessionInv, Reports
<1> QED
    BY <1>1, SessionInvHolds, PTL

(* A session that reports itself drained has finished every operation,     *)
(* given back every item and dropped no offered start.                     *)
THEOREM DrainIsComplete == Spec => []DrainedIsQuiescent
<1>1. SessionInv => DrainedIsQuiescent
    BY DEF SessionInv, Draining
<1> QED
    BY <1>1, SessionInvHolds, PTL

LEMMA RecordedUnlessDisowned == SessionInv => CancelIsRecorded \/ Disowning
<1> SUFFICES ASSUME SessionInv, ~Disowning PROVE CancelIsRecorded
    OBVIOUS
<1> QED
    BY DEF SessionInv, Cancellations, CancelIsRecorded

(* An accepted cancellation is never lost between the slot, the            *)
(* coordinator's hands and the row, and reaches every item in flight,      *)
(* unless the library was disowned and the database is fenced.             *)
THEOREM CancellationsAreKept == Spec => [](CancelIsRecorded \/ fenced)
<1>1. SessionInv => CancelIsRecorded \/ fenced
    BY RecordedUnlessDisowned DEF Disowning
<1> QED
    BY <1>1, SessionInvHolds, PTL

(* Where a request to cancel always reaches the library, none is lost at   *)
(* all, fenced or not.                                                     *)
THEOREM CancellationsReachTheRow ==
    ASSUME "cancel" \notin FaultyCalls
    PROVE  Spec => []CancelIsRecorded
<1>1. SessionInv => CancelIsRecorded
    BY RecordedUnlessDisowned DEF Disowning
<1> QED
    BY <1>1, SessionInvHolds, PTL

----------------------------------------------------------------------------
(* The session implements the operation log.                               *)

(* The log speaks of the same policy.                                      *)
LEMMA SamePolicy ==
    /\ Log!ActiveStates = ActiveStates /\ Log!ItemEnds = ItemEnds /\ Log!Reported = Reported
    /\ \A o : Log!ItemsOf(o) = ItemsOf(o)
    /\ \A o, f : Log!TerminalResult(o, f) = TerminalResult(o, f)
<1>1. /\ Log!ActiveStates = ActiveStates /\ Log!ItemEnds = ItemEnds /\ Log!Reported = Reported
      /\ \A o : Log!ItemsOf(o) = ItemsOf(o)
    BY DEF Log!ActiveStates, ActiveStates, Log!ItemEnds, ItemEnds, Log!Reported, Reported,
           Log!ItemsOf, ItemsOf
<1>2. ASSUME NEW o, NEW f PROVE Log!TerminalResult(o, f) = TerminalResult(o, f)
    BY <1>1 DEF Log!TerminalResult, TerminalResult
<1> QED
    BY <1>1, <1>2

LEMMA RowStepIsLogStep ==
    ASSUME RowsType, RowsAgree, RowStep
    PROVE  [Log!Next]_(Log!log)
<1> DEFINE status == [o \in Ops |-> op[o].state]
           requested == {o \in Ops : op[o].cancel}
<1> USE SamePolicy DEF Log!log, Log!Open, Log!Over
<1>0. OpOf \in [Items -> Ops]
    BY PolicyAssumption
<1>1. ASSUME NEW o \in Ops, Creates(o) PROVE Log!Create(o)
    <2>1. /\ \A p \in Ops \ {o} : op'[p] = op[p]
          /\ op[o].state = "absent" /\ op'[o].state = "queued" /\ ~op'[o].cancel /\ ~op[o].cancel
          /\ item' = [i \in Items |-> IF OpOf[i] = o THEN Planned[i] ELSE item[i]]
          /\ CreateAllowed(o)
        BY <1>1, CreateEffect DEF Creates, CreateOp, RowsAgree
    <2>2. status' = [status EXCEPT ![o] = "queued"]
        BY <2>1
    <2>3. requested' = requested
        BY <2>1
    <2>4. Kind[o] = "metadata_sync" => \A p \in Ops : Kind[p] = "metadata_sync" => ~Log!Open(p)
        BY <2>1, StatesApart DEF CreateAllowed, Active
    <2> QED
        BY <2>1, <2>2, <2>3, <2>4 DEF Log!Create
<1>2. ASSUME NEW o \in Ops, Finishes(o) PROVE Log!Finish(o)
    <2>1. /\ \A p \in Ops \ {o} : op'[p] = op[p]
          /\ op'[o].state = TerminalResult(o, item) /\ op'[o].cancel = op[o].cancel
          /\ item' = item /\ Active(o) /\ Ended(o) = ItemsOf(o)
        BY <1>2, FinishEffect DEF Finishes
    <2>2. status' = [status EXCEPT ![o] = TerminalResult(o, item)]
        BY <2>1
    <2>3. requested' = requested
        BY <2>1
    <2>4. Log!Open(o) /\ Log!Over(o)
        BY <2>1 DEF Active, Ended
    <2> QED
        BY <2>1, <2>2, <2>3, <2>4 DEF Log!Finish
<1>3. ASSUME NEW w \in Workers, NEW i \in Items, work[w] = i, Starts(w) PROVE Log!Start(i)
    <2>1. OpOf[i] \in Ops /\ Active(OpOf[i]) /\ item[i] = "pending" /\ StartItem(i)
        BY <1>0, <1>3 DEF Starts, Active, StartItem
    <2>2. /\ \A p \in Ops \ {OpOf[i]} : op'[p] = op[p]
          /\ op'[OpOf[i]].state = "running"
          /\ op'[OpOf[i]].cancel = op[OpOf[i]].cancel
        BY <2>1, StartEffect
    <2>3. item' = [item EXCEPT ![i] = "running"]
        BY <2>1 DEF StartItem
    <2>4. status' = [status EXCEPT ![OpOf[i]] = "running"]
        BY <2>1, <2>2
    <2>5. requested' = requested
        BY <2>1, <2>2
    <2> QED
        BY <2>1, <2>3, <2>4, <2>5 DEF Log!Start, Active
<1>4. ASSUME NEW i \in Items, NEW end \in Reported, Completes(i, end) PROVE Log!Complete(i, end)
    <2>1. /\ \A o \in Ops : op'[o].state = op[o].state /\ op'[o].cancel = op[o].cancel
          /\ item' = [j \in Items |-> IF j = i THEN end ELSE item[j]]
          /\ op[OpOf[i]].state = "running" /\ item[i] = "running"
        BY <1>0, <1>4, CompleteEffect
        DEF Completes, Write, CompleteCommand, RowsAgree, Active, ActiveStates
    <2>2. status' = status /\ requested' = requested
        BY <2>1
    <2>3. item' = [item EXCEPT ![i] = end]
        BY <2>1 DEF RowsType
    <2> QED
        BY <1>0, <2>1, <2>2, <2>3 DEF Log!Complete
<1>5. ASSUME NEW O \in SUBSET Ops, Interrupts(O) PROVE Log!Interrupt(O)
    <2>1. /\ \A o \in Ops \ O : op'[o] = op[o]
          /\ \A o \in O : op'[o].state = "interrupted" /\ op'[o].cancel = op[o].cancel
          /\ \A o \in O : Active(o)
        BY <1>5, InterruptEffect DEF Interrupts
    <2>2. item' = [j \in Items |-> IF OpOf[j] \in O /\ item[j] \in {"pending", "running"}
                                   THEN "interrupted" ELSE item[j]]
        BY <1>5 DEF Interrupts, Interrupted
    <2>3. \A j \in Items : OpOf[j] \in O => (item[j] \in {"pending", "running"} <=> item[j] \notin ItemEnds)
        BY <1>0, <2>1, StatesApart DEF RowsAgree, RowsType, Active
    <2>4. item' = [j \in Items |-> IF OpOf[j] \in O /\ item[j] \notin ItemEnds
                                   THEN "interrupted" ELSE item[j]]
        BY <2>2, <2>3
    <2>5. status' = [o \in Ops |-> IF o \in O THEN "interrupted" ELSE status[o]]
        BY <2>1
    <2>6. requested' = requested
        BY <2>1
    <2> QED
        BY <2>1, <2>4, <2>5, <2>6 DEF Log!Interrupt, Active
<1>6. ASSUME NEW O \in SUBSET Ops, Cancels(O) PROVE Log!Cancel(O)
    <2>1. /\ \A o \in Ops : op'[o].state = op[o].state
          /\ \A o \in Ops : op'[o].cancel <=> op[o].cancel \/ o \in O
          /\ item' = item
          /\ \A o \in O : Active(o)
        BY <1>6, CancelEffect DEF Cancels
    <2>2. status' = status /\ requested' = requested \cup O
        BY <2>1
    <2> QED
        BY <2>1, <2>2 DEF Log!Cancel, Active
<1>7. CASE UNCHANGED rows
    BY <1>7 DEF rows
<1>8. CASE \E o \in Ops : Creates(o) \/ Finishes(o)
    BY <1>1, <1>2, <1>8, Zenon DEF Log!Next
<1>9. CASE \E w \in Workers : work[w] \in Items /\ Starts(w)
    <2>1. PICK w \in Workers, i \in Items : work[w] = i /\ Starts(w)
        BY <1>9
    <2>2. Log!Start(i)
        BY <1>3, <2>1
    <2> QED
        BY <2>2, Zenon DEF Log!Next
<1>10. CASE \E i \in Items, end \in Reported : Completes(i, end)
    <2>1. PICK i \in Items, end \in Log!Reported : Log!Complete(i, end)
        BY <1>4, <1>10
    <2> QED
        BY <2>1, Zenon DEF Log!Next
<1>11. CASE \E O \in SUBSET Ops : Interrupts(O) \/ Cancels(O)
    BY <1>5, <1>6, <1>11, Zenon DEF Log!Next
<1> QED
    BY <1>7, <1>8, <1>9, <1>10, <1>11 DEF RowStep

LEMMA NextIsRowStep == ASSUME SessionInv, [Next]_vars PROVE RowStep
<1>1. CASE CoordinatorStep
    BY <1>1, CoordinatorIsRowStep DEF SessionInv
<1>2. ASSUME NEW w \in Workers, WorkerStep(w) \/ CompensateLost(w) \/ Panic(w) PROVE RowStep
    BY <1>2, WorkerIsRowStep DEF SessionInv
<1>3. CASE Handle \/ Restart \/ UNCHANGED vars
    BY <1>3 DEF Handle, try_start, take_admission, cancel, shutdown, Restart, vars, rows, RowStep
<1> QED
    BY <1>1, <1>2, <1>3 DEF Next

(* Whatever the threads, retries, unknown commits and restarts do, the     *)
(* rows go through a legal history of operations: they appear whole, start *)
(* and report each item once, end with the result their items add up to,   *)
(* and are never rewritten.                                                *)
THEOREM SessionImplementsLog == Spec => ImplementsLog
<1>1. Init => Log!Init
    BY DEF Init, RowsInit, Absent, Log!Init
<1>2. SessionInv /\ [Next]_vars => [Log!Next]_(Log!log)
    BY NextIsRowStep, RowStepIsLogStep DEF SessionInv, TypeOK
<1> QED
    BY <1>1, <1>2, SessionInvHolds, PTL DEF Spec, ImplementsLog, Log!Spec

----------------------------------------------------------------------------
(* What the log promises, of the log and of the rows of the session.       *)

(* What the log sees of the rows of the session.                           *)
Status == [o \in Ops |-> op[o].state]
Asked == {o \in Ops : op[o].cancel}

(* The rows of an operation appear together: without this, nothing would   *)
(* keep a creation from rewriting an item that has ended.                  *)
AbsentTogether == \A i \in Items : Status[OpOf[i]] = "absent" => item[i] = "absent"

LogInv ==
    /\ Log!TypeOK
    /\ Log!EndedLeavesNothing
    /\ Log!ResultMatchesItems
    /\ Log!OneRefresh
    /\ AbsentTogether

USE DEF Status, Asked

(* The facts about results, in the words of the log.                       *)
LEMMA LogResultIsLocal ==
    ASSUME NEW o \in Ops, NEW f, NEW g, \A i \in Log!ItemsOf(o) : f[i] = g[i]
    PROVE  Log!TerminalResult(o, f) = Log!TerminalResult(o, g)
    BY SamePolicy, ResultIsLocal

LEMMA LogResultIsTerminal ==
    ASSUME NEW o \in Ops, NEW f
    PROVE  Log!TerminalResult(o, f) \in Log!EndStates \ {"interrupted"}
    BY SamePolicy, ResultIsTerminal DEF Log!EndStates, EndStates

LEMMA StatesAreDisjoint ==
    /\ Log!ActiveStates \cap Log!EndStates = {}
    /\ "absent" \notin Log!ActiveStates \cup Log!EndStates
    /\ Log!ActiveStates \subseteq Log!OpStates /\ Log!EndStates \subseteq Log!OpStates
    /\ "interrupted" \in Log!EndStates
    /\ "queued" \in Log!ActiveStates /\ "running" \in Log!ActiveStates
    /\ Log!ItemEnds \subseteq Log!ItemStates /\ "interrupted" \in Log!ItemEnds
    /\ Log!Reported \subseteq Log!ItemEnds
    /\ "running" \in Log!ItemStates /\ "running" \notin Log!ItemEnds
    /\ "pending" \in Log!ItemStates /\ "pending" \notin Log!ItemEnds
    BY DEF Log!ActiveStates, Log!EndStates, Log!OpStates, Log!ItemEnds, Log!Reported, Log!ItemStates

----------------------------------------------------------------------------
LEMMA LogInvInit == Log!Init => LogInv
    BY PolicyAssumption, StatesAreDisjoint
    DEF Log!Init, LogInv, Log!TypeOK, Log!EndedLeavesNothing, Log!ResultMatchesItems, Log!OneRefresh, Log!Open,
        AbsentTogether, Log!OpStates, Log!ItemStates

LEMMA CreateKeeps == ASSUME LogInv, NEW o \in Ops, Log!Create(o) PROVE LogInv'
<1>0. item' \in [Items -> Log!ItemStates]
    BY PolicyAssumption
    DEF LogInv, Log!TypeOK, Log!Create, Log!ItemStates, Log!ItemEnds, Log!Reported,
       Reported
<1>1. Log!TypeOK'
    BY <1>0, StatesAreDisjoint DEF LogInv, Log!TypeOK, Log!Create
<1>2. Log!EndedLeavesNothing'
    BY PolicyAssumption, StatesAreDisjoint
    DEF LogInv, Log!TypeOK, Log!Create, Log!EndedLeavesNothing
<1>3. Log!ResultMatchesItems'
    <2> SUFFICES ASSUME NEW p \in Ops, Status'[p] \in Log!EndStates \ {"interrupted"}
                 PROVE  Status'[p] = Log!TerminalResult(p, item')
        BY DEF Log!ResultMatchesItems
    <2>1. p # o /\ Status'[p] = Status[p]
        BY StatesAreDisjoint DEF LogInv, Log!TypeOK, Log!Create
    <2>2. \A i \in Log!ItemsOf(p) : item[i] = item'[i]
        BY <2>1 DEF Log!ItemsOf, Log!Create, LogInv, Log!TypeOK
    <2> QED
        BY <2>1, <2>2, LogResultIsLocal DEF LogInv, Log!ResultMatchesItems
<1>4. Log!OneRefresh'
    <2> SUFFICES ASSUME NEW p \in Ops, NEW q \in Ops, Kind[p] = "metadata_sync",
                        Kind[q] = "metadata_sync", Log!Open(p)', Log!Open(q)'
                 PROVE  p = q
        BY DEF Log!OneRefresh
    <2>1. \A r \in Ops \ {o} : Log!Open(r)' => Log!Open(r)
        BY DEF LogInv, Log!TypeOK, Log!Create, Log!Open
    <2> QED
        BY <2>1 DEF LogInv, Log!OneRefresh, Log!Create
<1>5. AbsentTogether'
    BY PolicyAssumption, StatesAreDisjoint
    DEF LogInv, Log!TypeOK, AbsentTogether, Log!Create
<1> QED
    BY <1>1, <1>2, <1>3, <1>4, <1>5 DEF LogInv

LEMMA StartKeeps == ASSUME LogInv, NEW i \in Items, Log!Start(i) PROVE LogInv'
<1>0. OpOf[i] \in Ops
    BY PolicyAssumption
<1>1. Log!TypeOK'
    BY <1>0, StatesAreDisjoint DEF LogInv, Log!TypeOK, Log!Start
<1>2. Log!EndedLeavesNothing'
    BY PolicyAssumption, StatesAreDisjoint
    DEF LogInv, Log!TypeOK, Log!Start, Log!EndedLeavesNothing, Log!Open
<1>3. Log!ResultMatchesItems'
    <2> SUFFICES ASSUME NEW p \in Ops, Status'[p] \in Log!EndStates \ {"interrupted"}
                 PROVE  Status'[p] = Log!TerminalResult(p, item')
        BY DEF Log!ResultMatchesItems
    <2>1. p # OpOf[i] /\ Status'[p] = Status[p]
        BY StatesAreDisjoint DEF LogInv, Log!TypeOK, Log!Start
    <2>2. \A j \in Log!ItemsOf(p) : item[j] = item'[j]
        BY <2>1 DEF Log!ItemsOf, Log!Start, LogInv, Log!TypeOK
    <2> QED
        BY <2>1, <2>2, LogResultIsLocal DEF LogInv, Log!ResultMatchesItems
<1>4. Log!OneRefresh'
    BY <1>0 DEF LogInv, Log!TypeOK, Log!OneRefresh, Log!Start, Log!Open
<1>5. AbsentTogether'
    BY PolicyAssumption, StatesAreDisjoint
    DEF LogInv, Log!TypeOK, AbsentTogether, Log!Start, Log!Open
<1> QED
    BY <1>1, <1>2, <1>3, <1>4, <1>5 DEF LogInv

LEMMA CompleteKeeps ==
    ASSUME LogInv, NEW i \in Items, NEW end \in Log!Reported, Log!Complete(i, end) PROVE LogInv'
<1>1. Log!TypeOK'
    BY StatesAreDisjoint DEF LogInv, Log!TypeOK, Log!Complete
<1>2. Log!EndedLeavesNothing'
    BY PolicyAssumption, StatesAreDisjoint
    DEF LogInv, Log!TypeOK, Log!Complete, Log!EndedLeavesNothing
<1>3. Log!ResultMatchesItems'
    <2> SUFFICES ASSUME NEW p \in Ops, Status[p] \in Log!EndStates \ {"interrupted"}
                 PROVE  Status[p] = Log!TerminalResult(p, item')
        BY DEF Log!ResultMatchesItems, Log!Complete
    <2>1. p # OpOf[i]
        BY StatesAreDisjoint DEF Log!Complete
    <2>2. \A j \in Log!ItemsOf(p) : item[j] = item'[j]
        BY <2>1 DEF Log!ItemsOf, Log!Complete, LogInv, Log!TypeOK
    <2> QED
        BY <2>2, LogResultIsLocal DEF LogInv, Log!ResultMatchesItems
<1>4. Log!OneRefresh'
    BY DEF LogInv, Log!OneRefresh, Log!Complete, Log!Open
<1>5. AbsentTogether'
    BY PolicyAssumption, StatesAreDisjoint
    DEF LogInv, Log!TypeOK, AbsentTogether, Log!Complete
<1> QED
    BY <1>1, <1>2, <1>3, <1>4, <1>5 DEF LogInv

LEMMA FinishKeeps == ASSUME LogInv, NEW o \in Ops, Log!Finish(o) PROVE LogInv'
<1>0. Status'[o] = Log!TerminalResult(o, item) /\ Status'[o] \in Log!EndStates \ {"interrupted"}
    BY LogResultIsTerminal DEF Log!Finish, LogInv, Log!TypeOK
<1>1. Log!TypeOK'
    BY <1>0, LogResultIsTerminal, StatesAreDisjoint DEF LogInv, Log!TypeOK, Log!Finish
<1>2. Log!EndedLeavesNothing'
    BY PolicyAssumption
    DEF LogInv, Log!TypeOK, Log!Finish, Log!EndedLeavesNothing, Log!Over, Log!ItemsOf
<1>3. Log!ResultMatchesItems'
    BY <1>0 DEF LogInv, Log!TypeOK, Log!Finish, Log!ResultMatchesItems
<1>4. Log!OneRefresh'
    BY <1>0, StatesAreDisjoint DEF LogInv, Log!TypeOK, Log!OneRefresh, Log!Finish, Log!Open
<1>5. AbsentTogether'
    <2>1. item' = item /\ \A p \in Ops : Status'[p] = "absent" => Status[p] = "absent"
        BY <1>0, StatesAreDisjoint DEF LogInv, Log!TypeOK, Log!Finish
    <2> QED
        BY <2>1, PolicyAssumption DEF LogInv, AbsentTogether
<1> QED
    BY <1>1, <1>2, <1>3, <1>4, <1>5 DEF LogInv

LEMMA InterruptKeeps == ASSUME LogInv, NEW O \in SUBSET Ops, Log!Interrupt(O) PROVE LogInv'
<1>1. Log!TypeOK'
    BY StatesAreDisjoint DEF LogInv, Log!TypeOK, Log!Interrupt
<1>2. Log!EndedLeavesNothing'
    BY PolicyAssumption, StatesAreDisjoint
    DEF LogInv, Log!TypeOK, Log!Interrupt, Log!EndedLeavesNothing
<1>3. Log!ResultMatchesItems'
    <2> SUFFICES ASSUME NEW p \in Ops, Status'[p] \in Log!EndStates \ {"interrupted"}
                 PROVE  Status'[p] = Log!TerminalResult(p, item')
        BY DEF Log!ResultMatchesItems
    <2>1. p \notin O /\ Status'[p] = Status[p]
        BY DEF LogInv, Log!TypeOK, Log!Interrupt
    <2>2. \A j \in Log!ItemsOf(p) : item[j] = item'[j]
        BY <2>1 DEF Log!ItemsOf, Log!Interrupt, LogInv, Log!TypeOK
    <2> QED
        BY <2>1, <2>2, LogResultIsLocal DEF LogInv, Log!ResultMatchesItems
<1>4. Log!OneRefresh'
    BY StatesAreDisjoint DEF LogInv, Log!TypeOK, Log!OneRefresh, Log!Interrupt, Log!Open
<1>5. AbsentTogether'
    BY PolicyAssumption, StatesAreDisjoint
    DEF LogInv, Log!TypeOK, AbsentTogether, Log!Interrupt
<1> QED
    BY <1>1, <1>2, <1>3, <1>4, <1>5 DEF LogInv

LEMMA LogInvStep == LogInv /\ [Log!Next]_(Log!log) => LogInv'
<1> SUFFICES ASSUME LogInv, [Log!Next]_(Log!log) PROVE LogInv'
    OBVIOUS
<1>1. CASE \E o \in Ops : Log!Create(o)
    BY <1>1, CreateKeeps
<1>2. CASE \E o \in Ops : Log!Finish(o)
    BY <1>2, FinishKeeps
<1>3. CASE \E i \in Items : Log!Start(i)
    BY <1>3, StartKeeps
<1>4. CASE \E i \in Items : \E end \in Log!Reported : Log!Complete(i, end)
    BY <1>4, CompleteKeeps
<1>5. CASE \E O \in SUBSET Ops : Log!Interrupt(O)
    BY <1>5, InterruptKeeps
<1>6. CASE \E O \in SUBSET Ops : Log!Cancel(O)
    BY <1>6
    DEF LogInv, Log!TypeOK, Log!EndedLeavesNothing, Log!ResultMatchesItems, Log!OneRefresh, AbsentTogether,
           Log!Open, Log!Cancel
<1>7. CASE UNCHANGED Log!log
    BY <1>7
    DEF Log!log, LogInv, Log!TypeOK, Log!EndedLeavesNothing, Log!ResultMatchesItems, Log!OneRefresh,
                AbsentTogether, Log!Open
<1> QED
    BY <1>1, <1>2, <1>3, <1>4, <1>5, <1>6, <1>7 DEF Log!Next

LEMMA LogInvHolds == Log!Spec => []LogInv
    BY LogInvInit, LogInvStep, PTL DEF Log!Spec

----------------------------------------------------------------------------
(* The log is well typed.                                                  *)
THEOREM LogTypeCorrect == Log!Spec => []Log!TypeOK
    BY LogInvHolds, PTL DEF LogInv

(* An ended operation leaves no item that next_pending, start_item or a    *)
(* report could still find, and the result recorded for it by Finish is    *)
(* for ever the one its items add up to.                                   *)
THEOREM LogIsConsistent == Log!Spec => [](Log!EndedLeavesNothing /\ Log!ResultMatchesItems)
    BY LogInvHolds, PTL DEF LogInv

(* TerminalRepository::create never lets two metadata refreshes be active. *)
THEOREM RefreshesExclude == Log!Spec => []Log!OneRefresh
    BY LogInvHolds, PTL DEF LogInv

(* What was reported is never rewritten and a cancellation never undone.   *)
THEOREM HistoryIsKept == Log!Spec => Log!HistoryIsFinal
<1> DEFINE Keeps == /\ \A o \in Ops : Status[o] \in Log!EndStates => Status'[o] = Status[o]
                    /\ \A i \in Items : item[i] \in Log!ItemEnds => item'[i] = item[i]
                    /\ Asked \subseteq Asked'
<1>1. LogInv /\ [Log!Next]_(Log!log) => [Keeps]_(Log!log)
    <2> SUFFICES ASSUME LogInv, Log!Next PROVE Keeps
        OBVIOUS
    <2>1. ASSUME NEW o \in Ops, Log!Create(o) PROVE Keeps
        <3>1. Status' = [Status EXCEPT ![o] = "queued"] /\ Status[o] = "absent" /\ Asked' = Asked
            BY <2>1 DEF Log!Create
        <3>2. \A i \in Items : OpOf[i] # o => item'[i] = item[i]
            BY <2>1 DEF Log!Create
        <3>3. \A i \in Items : OpOf[i] = o => item[i] \notin Log!ItemEnds
            BY <2>1 DEF LogInv, AbsentTogether, Log!Create, Log!ItemEnds, Log!Reported
        <3> QED
            BY <3>1, <3>2, <3>3, StatesAreDisjoint
    <2>2. ASSUME NEW o \in Ops, Log!Finish(o) PROVE Keeps
        BY <2>2, StatesAreDisjoint DEF LogInv, Log!TypeOK, Log!Finish, Log!Open
    <2>3. ASSUME NEW i \in Items, Log!Start(i) PROVE Keeps
        BY <2>3, PolicyAssumption, StatesAreDisjoint DEF LogInv, Log!TypeOK, Log!Start, Log!Open
    <2>4. ASSUME NEW i \in Items, NEW end \in Log!Reported, Log!Complete(i, end) PROVE Keeps
        BY <2>4, StatesAreDisjoint DEF LogInv, Log!TypeOK, Log!Complete
    <2>5. ASSUME NEW O \in SUBSET Ops, Log!Interrupt(O) PROVE Keeps
        BY <2>5, StatesAreDisjoint DEF LogInv, Log!TypeOK, Log!Interrupt, Log!Open
    <2>6. ASSUME NEW O \in SUBSET Ops, Log!Cancel(O) PROVE Keeps
        BY <2>6 DEF Log!Cancel
    <2> QED
        BY <2>1, <2>2, <2>3, <2>4, <2>5, <2>6 DEF Log!Next
<1> QED
    BY <1>1, LogInvHolds, PTL DEF Log!Spec, Log!HistoryIsFinal

(* The same of the rows of the scheduler's database, whatever threads,     *)
(* faults and restarts did to them: the items of an ended operation have   *)
(* ended, and its recorded result is the one they add up to.               *)
THEOREM SessionIsConsistent == Spec => [](Log!EndedLeavesNothing /\ Log!ResultMatchesItems)
    BY SessionImplementsLog, LogIsConsistent, PTL DEF ImplementsLog

(* No two metadata refreshes of the session are ever active together.      *)
THEOREM SessionRefreshesExclude == Spec => []Log!OneRefresh
    BY SessionImplementsLog, RefreshesExclude, PTL DEF ImplementsLog

(* No step of any thread, session or recovery rewrites the state of an     *)
(* operation that ended or the outcome of an item that was reported, nor   *)
(* withdraws a cancellation on record.                                     *)
THEOREM SessionHistoryIsFinal == Spec => Log!HistoryIsFinal
    BY SessionImplementsLog, HistoryIsKept, PTL DEF ImplementsLog
============================================================================
