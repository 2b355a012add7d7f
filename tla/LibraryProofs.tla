--------------------------- MODULE LibraryProofs ---------------------------
(***************************************************************************)
(* The library behind its gate.  The lifecycle gate is safe for any finite *)
(* set of clients and any set of switchers; the session keeps to the gate, *)
(* and a granted move interrupts nothing, for any threads, operations and  *)
(* items.                                                                  *)
(*                                                                         *)
(* Its shelves and their reviews, for any shelves, stories, collections    *)
(* and bounds: a reviewed change is made to what was reviewed.             *)
(***************************************************************************)
EXTENDS LibrarySession, ShelfReview, FiniteSetTheorems, SequenceTheorems,
        WellFoundedInduction, TLAPS

-----------------------------------------------------------------------------
(* The gate                                                                *)

(* The exclusion properties need each other: draining closes intake        *)
(* (OneSwitchOwner), the exact counters turn `uses = 0' and                *)
(* `mutators = 0' into empty sets of guards.                               *)
GateInv ==
    /\ TypeOK
    /\ CountersExact
    /\ OneSwitchOwner
    /\ SwitchExcludesUses
    /\ SwitchExcludesMutators
    /\ UsesAreCurrent
    /\ NoLostWakeup

(* The guards that are live form finite sets, so their number is zero      *)
(* exactly when there is none.                                             *)
LEMMA GuardsFinite ==
    ASSUME TypeOK, CountersExact
    PROVE  /\ IsFiniteSet(Holders) /\ IsFiniteSet(Mutators)
           /\ Mutators \subseteq Holders
           /\ uses = 0 <=> Holders = {}
           /\ mutators = 0 <=> Mutators = {}
<1>1. Holders \subseteq Clients /\ Mutators \subseteq Holders
  BY DEF Holders, Mutators, NoUse
<1>2. IsFiniteSet(Holders) /\ IsFiniteSet(Mutators)
  BY <1>1, ClientsAssumption, FS_Subset
<1>3. QED BY <1>1, <1>2, FS_EmptySet DEF CountersExact

(* The initial gate: open, unused, unowned.                                *)
LEMMA GateInit == Init => GateInv
<1> SUFFICES ASSUME Init PROVE GateInv OBVIOUS
<1>1. Holders = {} /\ Mutators = {}
  BY DEF Init, Holders, Mutators, NoUse
<1>2. TypeOK
  BY GenerationAssumption DEF Init, TypeOK, Phases, Uses, SwitchPoints
<1>3. CountersExact BY <1>1, FS_EmptySet DEF Init, CountersExact
<1>4. OneSwitchOwner
  BY DEF Init, OneSwitchOwner, Owning
<1>5. SwitchExcludesUses /\ SwitchExcludesMutators
  BY <1>1 DEF SwitchExcludesUses, SwitchExcludesMutators
<1>6. UsesAreCurrent /\ NoLostWakeup
  BY <1>1 DEF Init, UsesAreCurrent, NoLostWakeup
<1>7. QED BY <1>2, <1>3, <1>4, <1>5, <1>6 DEF GateInv

(* enter_kind: one more guard, counted once, in the current generation.    *)
LEMMA EnterPreserves ==
    ASSUME GateInv, NEW c \in Clients, NEW kind \in {"reader", "mutator"}, Enter(c, kind)
    PROVE  GateInv'
<1> USE DEF GateInv
<1> DEFINE u == [kind |-> kind, gen |-> generation]
<1>1. TypeOK'
  BY DEF Enter, TypeOK, Uses
<1>2. u # NoUse /\ u.kind = kind /\ u.gen = generation
  BY DEF NoUse
<1>3. held' = [held EXCEPT ![c] = u] /\ held[c] = NoUse /\ DOMAIN held = Clients
  BY DEF Enter, TypeOK
<1>4. Holders' = Holders \cup {c} /\ c \notin Holders
  BY <1>2, <1>3 DEF Holders
<1>5. Mutators' = IF kind = "mutator" THEN Mutators \cup {c} ELSE Mutators
  BY <1>2, <1>3 DEF Mutators, NoUse
<1>6. c \notin Mutators BY <1>3 DEF Mutators, NoUse
<1>7. IsFiniteSet(Holders) /\ IsFiniteSet(Mutators) BY GuardsFinite
<1>8. Cardinality(Holders') = Cardinality(Holders) + 1
  BY <1>4, <1>7, FS_AddElement
<1>9. Cardinality(Mutators') = Cardinality(Mutators) + (IF kind = "mutator" THEN 1 ELSE 0)
  <2>1. CASE kind = "mutator" BY <1>5, <1>6, <1>7, <2>1, FS_AddElement
  <2>2. CASE kind # "mutator"
    <3>1. Mutators' = Mutators BY <1>5, <2>2
    <3>2. Cardinality(Mutators) \in Nat BY <1>7, FS_CardinalityType
    <3>3. QED BY <2>2, <3>1, <3>2
  <2>3. QED BY <2>1, <2>2
<1>10. CountersExact' BY <1>8, <1>9 DEF CountersExact, Enter
<1>11. \A s \in Switchers : pc[s] \notin Owning
  BY DEF Enter, OneSwitchOwner
<1>12. OneSwitchOwner' BY <1>11 DEF Enter, OneSwitchOwner
<1>13. SwitchExcludesUses' /\ SwitchExcludesMutators' /\ NoLostWakeup'
  BY <1>11 DEF Enter, SwitchExcludesUses, SwitchExcludesMutators, NoLostWakeup, Owning,
               SwitchPoints
<1>14. UsesAreCurrent'
  BY <1>2, <1>3, <1>4 DEF UsesAreCurrent, Enter, Holders
<1>15. QED BY <1>1, <1>10, <1>12, <1>13, <1>14

(* Drop for LibraryUse: one guard less, every blocked switcher is woken.   *)
LEMMA DropUsePreserves ==
    ASSUME GateInv, NEW c \in Clients, DropUse(c)
    PROVE  GateInv'
<1> USE DEF GateInv
<1>1. held' = [held EXCEPT ![c] = NoUse] /\ held[c] # NoUse /\ DOMAIN held = Clients
  BY DEF DropUse, TypeOK
<1>2. Holders' = Holders \ {c} /\ c \in Holders
  BY <1>1 DEF Holders
<1>3. Mutators' = Mutators \ {c}
  BY <1>1 DEF Mutators, NoUse
<1>4. IsFiniteSet(Holders) /\ IsFiniteSet(Mutators) /\ Mutators \subseteq Holders
  BY GuardsFinite
<1>5. /\ Cardinality(Holders) \in Nat /\ Cardinality(Mutators) \in Nat
      /\ Cardinality(Holders') = Cardinality(Holders) - 1
      /\ Cardinality(Holders) >= 1
  <2>1. Cardinality(Holders) # 0 BY <1>2, <1>4, FS_EmptySet
  <2>2. QED BY <1>2, <1>4, <2>1, FS_RemoveElement, FS_CardinalityType
<1>6. CountersExact'
  <2>1. uses' = Cardinality(Holders')
    BY <1>5 DEF DropUse, SaturatingSub, CountersExact
  <2>2. mutators' = Cardinality(Mutators')
    <3>1. CASE held[c].kind = "mutator"
      <4>1. c \in Mutators BY <3>1 DEF Mutators
      <4>2. Cardinality(Mutators) # 0 BY <4>1, <1>4, FS_EmptySet
      <4>3. Cardinality(Mutators') = Cardinality(Mutators) - 1
        BY <4>1, <1>3, <1>4, FS_RemoveElement
      <4>4. QED BY <3>1, <4>2, <4>3, <1>5 DEF DropUse, SaturatingSub, CountersExact
    <3>2. CASE held[c].kind # "mutator"
      <4>1. Mutators' = Mutators BY <3>2, <1>3 DEF Mutators
      <4>2. QED BY <3>2, <4>1, <1>5 DEF DropUse, SaturatingSub, CountersExact
    <3>3. QED BY <3>1, <3>2
  <2>3. QED BY <2>1, <2>2 DEF CountersExact
<1>7. pc' = [s \in Switchers |-> IF pc[s] = "wait" THEN "drain" ELSE pc[s]]
  BY DEF DropUse, Notified
<1>8. pc' \in [Switchers -> SwitchPoints]
  BY <1>7 DEF TypeOK, SwitchPoints
<1>9. TypeOK'
  BY <1>8 DEF DropUse, TypeOK, SaturatingSub, Uses
<1>10. \A s \in Switchers : /\ (pc'[s] \in Owning) <=> (pc[s] \in Owning)
                            /\ pc'[s] # "wait"
                            /\ pc'[s] \in {"second", "held"} => pc[s] \in {"second", "held"}
  BY <1>7 DEF TypeOK, SwitchPoints, Owning
<1>11. OneSwitchOwner' BY <1>10 DEF DropUse, OneSwitchOwner
<1>12. SwitchExcludesUses' /\ SwitchExcludesMutators' /\ NoLostWakeup'
  BY <1>2, <1>3, <1>10 DEF SwitchExcludesUses, SwitchExcludesMutators, NoLostWakeup
<1>13. UsesAreCurrent'
  BY <1>1, <1>2 DEF UsesAreCurrent, DropUse
<1>14. QED BY <1>6, <1>9, <1>11, <1>12, <1>13

(* A switcher that moves to a point T of the draining phase, from outside  *)
(* when nobody drains or from another point of it.                         *)
LEMMA AdvancePreserves ==
    ASSUME GateInv, NEW s \in Switchers, NEW T \in Owning,
           UNCHANGED <<held, uses, mutators, generation>>,
           pc' = [pc EXCEPT ![s] = T], phase' = "draining",
           pc[s] \in Owning \/ phase # "draining",
           T \in {"second", "held"} => Holders = {},
           T = "wait" => Holders # {},
           Mutators = {}
    PROVE  GateInv'
<1> USE DEF GateInv
<1>1. Holders' = Holders /\ Mutators' = Mutators
  BY DEF Holders, Mutators
<1>2. \A t \in Switchers : pc'[t] = IF t = s THEN T ELSE pc[t]
  BY DEF TypeOK
<1>3. \A t \in Switchers : t # s => pc[t] \notin Owning
  BY DEF OneSwitchOwner
<1>4. TypeOK' BY DEF TypeOK, Phases, Owning, Uses
<1>5. CountersExact' BY <1>1 DEF CountersExact
<1>6. OneSwitchOwner' BY <1>2, <1>3 DEF OneSwitchOwner
<1>7. SwitchExcludesUses' /\ NoLostWakeup' /\ SwitchExcludesMutators'
  BY <1>1, <1>2 DEF SwitchExcludesUses, NoLostWakeup, SwitchExcludesMutators
<1>8. UsesAreCurrent' BY <1>1 DEF UsesAreCurrent
<1>9. QED BY <1>4, <1>5, <1>6, <1>7, <1>8

(* The owner of the draining phase gives it up; only Activated, which      *)
(* finds no live use, changes the generation.                              *)
LEMMA LeavePreserves ==
    ASSUME GateInv, NEW s \in Switchers,
           RestoreUnchanged(s) \/ Activated(s) \/ DropSwitch(s)
    PROVE  GateInv'
<1> USE DEF GateInv
<1>1. held' = held /\ uses' = uses /\ mutators' = mutators
  BY DEF RestoreUnchanged, Activated, DropSwitch
<1>2. Holders' = Holders /\ Mutators' = Mutators
  BY <1>1 DEF Holders, Mutators
<1>3. CountersExact' BY <1>1, <1>2 DEF CountersExact
<1>4. pc[s] \in Owning \ {"wait"}
  BY DEF RestoreUnchanged, Activated, DropSwitch, Owning, SwitchPoints
<1>5. \A t \in Switchers : t # s => pc[t] \notin Owning
  BY <1>4 DEF OneSwitchOwner
<1>6. pc' = [pc EXCEPT ![s] = "out"] /\ phase' \in {"active", "recovery"}
  <2>1. Notified = pc BY <1>4, <1>5 DEF Notified, TypeOK, Owning, SwitchPoints
  <2>2. QED BY <2>1 DEF RestoreUnchanged, Activated, DropSwitch
<1>7. \A t \in Switchers : pc'[t] \notin Owning
  BY <1>5, <1>6 DEF TypeOK, Owning
<1>8. generation' \in 0..MaxGeneration /\ (generation' # generation => Holders = {})
  BY GenerationAssumption
  DEF RestoreUnchanged, Activated, DropSwitch, TypeOK, SwitchExcludesUses
<1>9. TypeOK' BY <1>1, <1>6, <1>8 DEF TypeOK, Phases, SwitchPoints, Uses
<1>10. OneSwitchOwner' BY <1>6, <1>7 DEF OneSwitchOwner
<1>11. SwitchExcludesUses' /\ NoLostWakeup' /\ SwitchExcludesMutators'
  BY <1>7 DEF SwitchExcludesUses, NoLostWakeup, SwitchExcludesMutators, Owning, SwitchPoints
<1>12. UsesAreCurrent' BY <1>1, <1>2, <1>8 DEF UsesAreCurrent
<1>13. QED BY <1>3, <1>9, <1>10, <1>11, <1>12

(* The steps of begin_switch, begin_recovery and of the Switch they return.*)
LEMMA SwitcherPreserves ==
    ASSUME GateInv, NEW s \in Switchers, Switcher(s)
    PROVE  GateInv'
<1> USE DEF GateInv
<1>1. /\ Mutators \subseteq Holders
      /\ uses = 0 <=> Holders = {}
      /\ mutators = 0 <=> Mutators = {}
  BY GuardsFinite
<1>2. {"first", "drain", "wait", "second", "held"} = Owning
  BY DEF Owning, SwitchPoints
<1>3. pc[s] \in Owning => phase = "draining" /\ Mutators = {}
  BY DEF OneSwitchOwner, SwitchExcludesMutators
<1>4. CASE BeginSwitch(s)
  BY <1>4, <1>1, <1>2, AdvancePreserves DEF BeginSwitch
<1>5. CASE BeginRecovery(s)
  BY <1>5, <1>1, <1>2, AdvancePreserves DEF BeginRecovery
<1>6. CASE FirstIdle(s)
  BY <1>6, <1>2, <1>3, AdvancePreserves DEF FirstIdle
<1>7. CASE Drain(s) /\ uses = 0
  BY <1>7, <1>1, <1>2, <1>3, AdvancePreserves DEF Drain
<1>8. CASE Drain(s) /\ uses # 0
  BY <1>8, <1>1, <1>2, <1>3, AdvancePreserves DEF Drain
<1>9. CASE SecondIdle(s)
  BY <1>9, <1>2, <1>3, AdvancePreserves DEF SecondIdle, SwitchExcludesUses
<1>10. QED BY <1>4, <1>5, <1>6, <1>7, <1>8, <1>9, LeavePreserves DEF Switcher

(* Every step of every thread keeps the gate's invariant.                  *)
LEMMA GateStep == GateInv /\ [Next]_vars => GateInv'
<1> SUFFICES ASSUME GateInv, [Next]_vars PROVE GateInv' OBVIOUS
<1>1. CASE \E c \in Clients : Client(c)
  BY <1>1, EnterPreserves, DropUsePreserves DEF Client
<1>2. CASE \E s \in Switchers : Switcher(s)
  BY <1>2, SwitcherPreserves
<1>3. CASE UNCHANGED vars
  <2>1. Holders' = Holders /\ Mutators' = Mutators
    BY <1>3 DEF vars, Holders, Mutators
  <2>2. TypeOK' BY <1>3 DEF GateInv, vars, TypeOK
  <2>3. CountersExact' /\ SwitchExcludesUses' /\ NoLostWakeup' /\ SwitchExcludesMutators'
        /\ UsesAreCurrent' /\ OneSwitchOwner'
    BY <1>3, <2>1 DEF GateInv, vars, CountersExact, SwitchExcludesUses, NoLostWakeup,
                      SwitchExcludesMutators, UsesAreCurrent, OneSwitchOwner
  <2>4. QED BY <2>2, <2>3 DEF GateInv
<1>4. QED BY <1>1, <1>2, <1>3 DEF Next

(* Type correctness of the gate.                                           *)
THEOREM TypeCorrect == Spec => []TypeOK
<1>1. GateInv => TypeOK BY DEF GateInv
<1>2. QED BY GateInit, GateStep, <1>1, PTL DEF Spec

(* A Switch, from the second idle check on, excludes every LibraryUse, and *)
(* from begin_switch on every mutation.                                    *)
THEOREM SwitchIsExclusive ==
    Spec => [](SwitchExcludesUses /\ SwitchExcludesMutators)
<1>1. GateInv => SwitchExcludesUses /\ SwitchExcludesMutators BY DEF GateInv
<1>2. QED BY GateInit, GateStep, <1>1, PTL DEF Spec

(* The draining phase always has exactly one owner, so a gate is never     *)
(* closed for ever with nobody left to reopen it.                          *)
THEOREM SwitchIsOwned == Spec => []OneSwitchOwner
<1>1. GateInv => OneSwitchOwner BY DEF GateInv
<1>2. QED BY GateInit, GateStep, <1>1, PTL DEF Spec

(* The counters equal the numbers of live guards, and a live guard belongs *)
(* to the generation that is current.                                      *)
THEOREM GuardsAreCounted == Spec => [](CountersExact /\ UsesAreCurrent)
<1>1. GateInv => CountersExact /\ UsesAreCurrent BY DEF GateInv
<1>2. QED BY GateInit, GateStep, <1>1, PTL DEF Spec

(* No switcher blocks on the condition variable without a use whose drop   *)
(* will wake it.                                                           *)
THEOREM WakeupsAreNotLost == Spec => []NoLostWakeup
<1>1. GateInv => NoLostWakeup BY DEF GateInv
<1>2. QED BY GateInit, GateStep, <1>1, PTL DEF Spec

-----------------------------------------------------------------------------
(* The session                                                             *)

(* Nothing is on its way into the job session.                             *)
NothingEnters == jobs.ingress = {} /\ jobs.admitting = {}

(* The switcher passed the first of its idle tests, and the services it    *)
(* tested are still there.                                                 *)
Tested(t) ==
    \/ pc[t] \in {"drain", "wait", "second"}
    \/ pc[t] = "held" /\ drive = "run"

(* The memory it saw empty after the drain.                                *)
TestedTwice(t) ==
    \/ pc[t] = "second" /\ t \in seen
    \/ pc[t] = "held" /\ drive = "run"

(* begin_switch runs inside the window.  From the look at the memory on    *)
(* nothing enters; from the look at the rows on nothing is unfinished, so  *)
(* nothing is fetched, and what the second look finds empty stays empty.   *)
SwitchInv ==
    /\ \A t \in Threads : pc[t] \in {"first", "drain", "wait", "second"} => drive = "run"
    /\ \A t \in Threads : t \in seen => pc[t] \in {"first", "second"}
    /\ \A t \in Threads : t \in seen \/ Tested(t) => NothingEnters
    /\ \A t \in Threads : Tested(t) => Unfinished = {}
    /\ \A t \in Threads : TestedTwice(t) => jobs.inflight = {}

(* What the steps below need to know of the shape of the state.            *)
WorkTyped ==
    /\ jobs \in [on: BOOLEAN, ingress: SUBSET Ops, admitting: SUBSET Ops,
                 inflight: SUBSET Units, stopping: BOOLEAN, failed: BOOLEAN]
    /\ op \in [Ops -> {"none", "active", "ended"}]

(* Every step of the session is a step of the gate, or leaves it alone.    *)
LEMMA GateSimulation == [SessionNext]_sessionVars => [Next]_vars
<1> SUFFICES ASSUME [SessionNext]_sessionVars PROVE [Next]_vars OBVIOUS
<1> USE SessionAssumption
<1>1. ASSUME UNCHANGED vars PROVE [Next]_vars BY <1>1
<1>2. ASSUME NEW t \in Threads, Window(t) \/ Retry(t) PROVE [Next]_vars
  BY <1>2 DEF Window, EnterLibrary, LeaveLibrary, Offer, PrepareExport, MoveLibrary,
     LooksAtMemory, LooksAtRows, NotIdle, Drains, Retry, KeepsGate, gate, Next, Client, Switcher
<1>3. ASSUME Workers PROVE [Next]_vars
  BY <1>3 DEF Workers, ArtTake, ArtEnter, ArtLeave, PreviewTake, PreviewEnds, KeepsGate, gate,
     Next, Client
<1>4. ASSUME RequestArt \/ CancelPreparation \/ Jobs \/ JobsFail PROVE [Next]_vars
  BY <1>4 DEF RequestArt, CancelPreparation, Jobs, JobsFail, TakeIngress, PublishAdmission, CreateRow, FinishOp,
     FetchItem, ReportItem, InterruptOp, ReleaseItem, KeepsAllButWork, gate
<1>5. ASSUME LosesSwitch PROVE [Next]_vars
  BY <1>5 DEF LosesSwitch, KeepsGate, gate, Next, Switcher
<1>6. ASSUME Driver \/ Return \/ GiveUp PROVE [Next]_vars
  BY <1>5, <1>6 DEF Driver, Return, GiveUp, Open, OpenFails, Ready, StartFails, JoinPreview, JoinArt,
     JoinJobs, JobsFailed, Unclosed, Closed, Moved, MoveFails, Joined, KeepsGate, gate, Next, Switcher
<1>7. QED
  BY <1>1, <1>2, <1>3, <1>4, <1>6 DEF SessionNext, sessionVars, gate

LEMMA SwitchInit == SessionInit => SwitchInv /\ WorkTyped
  BY SessionAssumption
  DEF SessionInit, Init, NoJobs, SwitchInv, WorkTyped, Tested, TestedTwice, NothingEnters, Unfinished

(* Nobody offers anything while a switcher is inside begin_switch.         *)
LEMMA NoOffers ==
    ASSUME GateInv, NEW t \in Threads, held[t].kind = "mutator"
    PROVE  \A s \in Threads : pc[s] = "out"
<1>1. t \in Mutators BY SessionAssumption DEF Mutators
<1>2. QED
  BY <1>1, SessionAssumption
  DEF GateInv, SwitchExcludesMutators, TypeOK, Owning

(* The job session goes on, and an idle gate leaves everybody where he is. *)
LEMMA StillQuiet ==
    ASSUME SwitchInv, pc' = pc, drive' = drive, seen' = seen,
           NothingEnters => NothingEnters',
           NothingEnters /\ Unfinished = {} => Unfinished' = {},
           Unfinished = {} /\ NothingEnters /\ jobs.inflight = {} => jobs'.inflight = {}
    PROVE  SwitchInv'
  BY DEF SwitchInv, Tested, TestedTwice

LEMMA JobsStep ==
    ASSUME SwitchInv, WorkTyped, Jobs \/ JobsFail
    PROVE  SwitchInv' /\ WorkTyped'
<1> USE DEF WorkTyped, KeepsAllButWork, NothingEnters, Unfinished, gate, vars, session
<1>1. ASSUME TakeIngress \/ PublishAdmission \/ JobsFail PROVE SwitchInv' /\ WorkTyped'
  <2>1. CASE TakeIngress
    BY <2>1, StillQuiet DEF TakeIngress
  <2>2. CASE PublishAdmission
    BY <2>2, StillQuiet DEF PublishAdmission
  <2>3. CASE JobsFail
    BY <2>3, StillQuiet DEF JobsFail
  <2> QED BY <1>1, <2>1, <2>2, <2>3
<1>2. ASSUME NEW o \in Ops, CreateRow(o) \/ FinishOp(o) PROVE SwitchInv' /\ WorkTyped'
  BY <1>2, StillQuiet DEF CreateRow, FinishOp
<1>3. ASSUME NEW u \in Units, FetchItem(u) PROVE SwitchInv' /\ WorkTyped'
  BY <1>3, StillQuiet DEF FetchItem, Units
<1>4. ASSUME NEW u \in Units, ReportItem(u) \/ ReleaseItem(u) PROVE SwitchInv' /\ WorkTyped'
  BY <1>4, StillQuiet DEF ReportItem, ReleaseItem
<1>5. ASSUME NEW u \in Units, InterruptOp(u) PROVE SwitchInv' /\ WorkTyped'
  BY <1>5, StillQuiet DEF InterruptOp, Units
<1>6. QED BY <1>1, <1>2, <1>3, <1>4, <1>5 DEF Jobs

LEMMA WindowStep ==
    ASSUME GateInv, SwitchInv, WorkTyped, NEW t \in Threads, Window(t)
    PROVE  SwitchInv' /\ WorkTyped'
<1> USE SessionAssumption DEF session, workers, work
<1>0. pc \in [Threads -> SwitchPoints] BY DEF GateInv, TypeOK
<1>1. ASSUME NEW kind \in {"reader", "mutator"}, EnterLibrary(t, kind)
      PROVE  SwitchInv' /\ WorkTyped'
  BY <1>1, StillQuiet DEF EnterLibrary, Enter, WorkTyped, NothingEnters, Unfinished
<1>2. CASE LeaveLibrary(t)
  BY <1>0, <1>2 DEF LeaveLibrary, DropUse, Notified, SwitchInv, WorkTyped, Tested, TestedTwice,
     NothingEnters, Unfinished
<1>3. ASSUME NEW o \in Ops, Offer(t, o) PROVE SwitchInv' /\ WorkTyped'
  <2>1. \A s \in Threads : pc[s] = "out" BY <1>3, NoOffers DEF Offer
  <2>2. QED
    BY <1>3, <2>1 DEF Offer, gate, vars, SwitchInv, WorkTyped, Tested, TestedTwice
<1>4. CASE PrepareExport(t)
  BY <1>4, StillQuiet DEF PrepareExport, gate, vars, WorkTyped, NothingEnters, Unfinished
<1>5. CASE MoveLibrary(t)
  BY <1>0, <1>5 DEF MoveLibrary, BeginSwitch, KeepsGate, gate, vars, SwitchInv, WorkTyped, Tested,
     TestedTwice, NothingEnters, Unfinished
<1>6. CASE LooksAtMemory(t)
  BY <1>0, <1>6 DEF LooksAtMemory, IdleForRelocation, gate, vars, SwitchInv, WorkTyped, Tested,
     TestedTwice, NothingEnters, Unfinished
<1>7. CASE LooksAtRows(t)
  BY <1>0, <1>7 DEF LooksAtRows, FirstIdle, SecondIdle, SwitchInv, WorkTyped, Tested,
     TestedTwice, NothingEnters, Unfinished
<1>8. CASE NotIdle(t)
  BY <1>0, <1>8 DEF NotIdle, RestoreUnchanged, SwitchInv, WorkTyped, Tested,
     TestedTwice, NothingEnters, Unfinished
<1>9. CASE Drains(t)
  BY <1>0, <1>9 DEF Drains, Drain, SwitchInv, WorkTyped, Tested,
     TestedTwice, NothingEnters, Unfinished
<1>10. QED BY <1>1, <1>2, <1>3, <1>4, <1>5, <1>6, <1>7, <1>8, <1>9 DEF Window

LEMMA WorkersStep ==
    ASSUME GateInv, SwitchInv, WorkTyped, Workers \/ RequestArt \/ CancelPreparation
    PROVE  SwitchInv' /\ WorkTyped'
<1> USE SessionAssumption DEF session, work, KeepsAllButArt, KeepsGate, gate, vars
<1>0. pc \in [Threads -> SwitchPoints] BY DEF GateInv, TypeOK
<1>1. CASE ArtTake \/ ArtEnter \/ PreviewTake \/ PreviewEnds \/ RequestArt \/ CancelPreparation
  BY <1>1, StillQuiet DEF ArtTake, ArtEnter, Enter, PreviewTake, PreviewEnds, RequestArt,
     CancelPreparation, WorkTyped,
     NothingEnters, Unfinished
<1>2. CASE ArtLeave
  BY <1>0, <1>2 DEF ArtLeave, DropUse, Notified, SwitchInv, WorkTyped, Tested, TestedTwice,
     NothingEnters, Unfinished
<1>3. QED BY <1>1, <1>2 DEF Workers

(* Outside of the window nobody is inside begin_switch, and nobody has     *)
(* looked at anything.                                                     *)
LEMMA OutsideWindow ==
    ASSUME GateInv, SwitchInv, drive # "run"
    PROVE  /\ \A t \in Threads : pc[t] \in {"out", "held"} /\ t \notin seen
  BY SessionAssumption DEF GateInv, TypeOK, SwitchPoints, SwitchInv

(* There the gate may be closed, opened or left; it makes no difference.   *)
LEMMA StaysOutside ==
    ASSUME GateInv, SwitchInv, drive # "run", drive' # "run", seen' = seen,
           UNCHANGED pc \/ (\E t \in Threads : DropSwitch(t) \/ BeginRecovery(t))
    PROVE  SwitchInv'
<1>0. pc \in [Threads -> SwitchPoints] BY SessionAssumption DEF GateInv, TypeOK
<1>1. \A t \in Threads : pc[t] \in {"out", "held"} /\ t \notin seen
  BY OutsideWindow
<1>2. \A t \in Threads : pc'[t] \in {"out", "held"}
  BY <1>0, <1>1, SessionAssumption DEF DropSwitch, BeginRecovery, Notified
<1>3. QED BY <1>1, <1>2 DEF SwitchInv, Tested, TestedTwice

LEMMA DriverStep ==
    ASSUME GateInv, SwitchInv, WorkTyped, Driver \/ Return \/ GiveUp \/ \E t \in Threads : Retry(t)
    PROVE  SwitchInv' /\ WorkTyped'
<1> USE DEF Goes, session, work
<1>0. pc \in [Threads -> SwitchPoints] BY SessionAssumption DEF GateInv, TypeOK
<1>1. ASSUME LosesSwitch PROVE UNCHANGED pc \/ \E t \in Threads : DropSwitch(t)
  BY <1>1 DEF LosesSwitch, KeepsGate, gate, vars
<1>2. CASE Open \/ OpenFails \/ StartFails \/ JoinPreview \/ JobsFailed \/ Unclosed \/ Closed
           \/ Moved \/ MoveFails \/ GiveUp
  <2>1. WorkTyped'
    BY <1>2 DEF WorkTyped, Open, OpenFails, StartFails, JoinPreview, JobsFailed, Unclosed, Closed,
       Moved, MoveFails, GiveUp
  <2>2. drive # "run" /\ drive' # "run" /\ seen' = seen
    BY <1>2 DEF Open, OpenFails, StartFails, JoinPreview, JobsFailed, Unclosed, Closed,
       Moved, MoveFails, GiveUp
  <2>3. UNCHANGED pc \/ \E t \in Threads : DropSwitch(t)
    BY <1>1, <1>2 DEF Open, OpenFails, StartFails, JoinPreview, JobsFailed, Unclosed, Closed,
       Moved, MoveFails, GiveUp, Joined, KeepsGate, gate, vars
  <2>4. QED BY <2>1, <2>2, <2>3, StaysOutside
<1>3. CASE JoinArt \/ JoinJobs
  <2>0. (jobs' = [jobs EXCEPT !.stopping = TRUE] \/ jobs' = NoJobs) /\ op' = op
    BY <1>3, Zenon DEF JoinArt, JoinJobs
  <2>1. WorkTyped'
    <3>1. ASSUME jobs' = [jobs EXCEPT !.stopping = TRUE] PROVE WorkTyped'
      BY <2>0, <3>1 DEF WorkTyped
    <3>2. ASSUME jobs' = NoJobs PROVE WorkTyped'
      BY <2>0, <3>2 DEF WorkTyped, NoJobs
    <3>3. QED BY <2>0, <3>1, <3>2
  <2>2. drive # "run" /\ drive' # "run" /\ seen' = seen
    BY <1>3 DEF JoinArt, JoinJobs
  <2>3. Joined BY <1>3 DEF JoinArt, JoinJobs
  <2>4. UNCHANGED pc \/ \E t \in Threads : DropSwitch(t)
    BY <1>1, <2>3 DEF Joined, KeepsGate, gate, vars
  <2>5. QED BY <2>1, <2>2, <2>4, StaysOutside
<1>4. ASSUME NEW t \in Threads, Retry(t) PROVE SwitchInv' /\ WorkTyped'
  <2>1. WorkTyped' BY <1>4 DEF WorkTyped, Retry
  <2>2. drive # "run" /\ drive' # "run" /\ seen' = seen BY <1>4 DEF Retry
  <2>3. UNCHANGED pc \/ BeginRecovery(t) BY <1>4 DEF Retry, KeepsGate, gate, vars
  <2>4. QED BY <2>1, <2>2, <2>3, StaysOutside
<1>5. CASE Return
  <2>1. WorkTyped' BY <1>5 DEF WorkTyped, Return
  <2>2. \A t \in Threads : pc[t] \in {"out", "held"} BY <1>5 DEF Return, Outside
  <2>3. QED
    BY <1>5, <2>1, <2>2 DEF Return, KeepsGate, gate, vars, SwitchInv, Tested, TestedTwice
<1>6. CASE Ready
  <2>1. WorkTyped' BY <1>6 DEF WorkTyped, Ready, NoJobs
  <2>2. \A t \in Threads : pc[t] \in {"out", "held"} /\ t \notin seen
    BY <1>6, OutsideWindow DEF Ready
  <2>3. \A s, t \in Threads : pc[s] = "held" /\ pc[t] = "held" => s = t
    BY SessionAssumption DEF GateInv, OneSwitchOwner, Owning, SwitchPoints
  <2>4. \A t \in Threads : pc'[t] = "out"
    BY <1>0, <1>6, <2>2, <2>3 DEF Ready, Activated, KeepsGate, gate, vars
  <2>5. QED
    BY <1>6, <2>1, <2>2, <2>4 DEF Ready, SwitchInv, Tested, TestedTwice
<1>7. QED BY <1>2, <1>3, <1>4, <1>5, <1>6 DEF Driver

(* The inductive step of the session.                                      *)
LEMMA SessionStep ==
    GateInv /\ SwitchInv /\ WorkTyped /\ [SessionNext]_sessionVars => SwitchInv' /\ WorkTyped'
<1> SUFFICES ASSUME GateInv, SwitchInv, WorkTyped, [SessionNext]_sessionVars
             PROVE  SwitchInv' /\ WorkTyped'
  OBVIOUS
<1>1. CASE UNCHANGED sessionVars
  BY <1>1 DEF sessionVars, gate, vars, session, work, SwitchInv, WorkTyped, Tested, TestedTwice,
     NothingEnters, Unfinished
<1>2. CASE SessionNext
  BY <1>2, JobsStep, WindowStep, WorkersStep, DriverStep DEF SessionNext
<1>3. QED BY <1>1, <1>2

-----------------------------------------------------------------------------
(* The session implements the gate: whatever is proved of the gate holds   *)
(* of the library behind it.                                               *)
THEOREM SessionKeepsGate == SessionSpec => Spec
<1>1. SessionInit => Init BY DEF SessionInit
<1>2. QED BY <1>1, GateSimulation, PTL DEF SessionSpec, Spec

(* While a library is closed, moved and opened again nobody holds a        *)
(* LibraryUse of it.                                                       *)
THEOREM MoveIsExclusive == SessionSpec => []SwitchExcludesUses
<1>1. SessionSpec => [](SwitchExcludesUses /\ SwitchExcludesMutators)
  BY SessionKeepsGate, SwitchIsExclusive, PTL
<1>2. QED BY <1>1, PTL

(* A move that prepare_move grants finds no operation to interrupt.        *)
THEOREM GrantedMoveIsIdle == SessionSpec => []MoveInterruptsNothing
<1>1. SwitchInv => MoveInterruptsNothing
  BY DEF SwitchInv, MoveInterruptsNothing, Tested, TestedTwice, NothingEnters
<1>2. SessionInit => Init BY DEF SessionInit
<1>3. QED
  BY <1>1, <1>2, GateInit, GateStep, GateSimulation, SwitchInit, SessionStep, PTL DEF SessionSpec

-----------------------------------------------------------------------------
(* Shelves and reviews                                                     *)

(* The inductive invariant is ReviewInv, below: a ticket that a claim could*)
(* accept is in the registry, and every row it shows is still of the shelf *)
(* that was shown, and as it was shown if the revision is the same.        *)

ShelfRows ==
    [life: Nat, revision: Nat, members: SUBSET Stories, kept: SUBSET Stories,
     excluded: SUBSET Stories, sources: SUBSET Collections]

Views ==
    [shelves: UNION {[S -> ShelfRows]: S \in SUBSET Ids},
     sources: UNION {[S -> SUBSET Stories]: S \in SUBSET Collections},
     unfit: SUBSET Collections, available: SUBSET Stories]

Targets == Ids \cup Collections \cup {0}

Plans ==
    [kind: Kinds \cup {"none"}, target: Targets, desired: SUBSET Collections,
     manual: SUBSET Stories, seen: Views \cup {[shelves |-> <<>>]},
     runtime: Nat, live: BOOLEAN, claims: Nat]

Readings ==
    [kind: Kinds, target: Targets, desired: SUBSET Collections,
     manual: SUBSET Stories, seen: Views]

(* A row without sources keeps all its members.                            *)
Manual(row) == row.sources = {} => row.members \subseteq row.kept

(* The rows are typed, no lifetime has yet to come, and ManualShelfIsKept. *)
RowsFine(s, l) ==
    /\ s \in [Ids -> ShelfRows] /\ l \in Nat
    /\ \A i \in Ids: s[i].life <= l /\ Manual(s[i])

(* The row `now' is of the shelf that `old' was shown of.                  *)
Same(old, now) ==
    /\ old.life # 0 /\ old.life = now.life
    /\ old.revision <= now.revision
    /\ old.revision = now.revision => old = now

Follows(view, s) == \A i \in DOMAIN view.shelves: Same(view.shelves[i], s[i])

(* From rows s to rows n every shelf but those in D stays, and its         *)
(* revision moves if it changes.                                           *)
Keeps(s, n, D) ==
    \A i \in Ids \ D: s[i].life # 0 =>
        \/ n[i] = s[i]
        \/ n[i].life = s[i].life /\ n[i].revision > s[i].revision

(* A row that a transaction may leave of the row r, before the revision.   *)
Fits(r, row) ==
    row \in ShelfRows /\ row.life = r.life /\ row.revision = r.revision /\ Manual(row)

RowsOK == RowsFine(shelf, lives) /\ collections \subseteq Collections

WorldOK == matches \in [Collections -> SUBSET Stories] /\ available \subseteq Stories

ReadingOK ==
    reading # NoReading =>
        /\ reading \in Readings
        /\ Follows(reading.seen, shelf)
        /\ reading.kind = "create" => DOMAIN reading.seen.shelves = {}

TicketOK(t) ==
    tickets[t].live =>
        /\ tickets[t].kind \in Kinds /\ tickets[t].seen \in Views
        /\ tickets[t].claims = 0
        /\ tickets[t].runtime <= runtime
        /\ tickets[t].runtime = runtime =>
             t \in registry /\ Follows(tickets[t].seen, shelf)

TicketsOK ==
    /\ tickets \in Seq(Plans) /\ registry \subseteq DOMAIN tickets
    /\ runtime \in Nat
    /\ \A t \in DOMAIN tickets: TicketOK(t)

ReviewInv == RowsOK /\ WorldOK /\ ReadingOK /\ TicketsOK

-----------------------------------------------------------------------------
(* Numbers of shelves                                                      *)

(* A set of naturals with an upper bound has a largest member.             *)
LEMMA MaxExists ==
    ASSUME NEW S \in SUBSET Nat, S # {}, NEW b \in Nat, \A x \in S: x <= b
    PROVE  Max(S) \in S /\ \A x \in S: x <= Max(S)
<1> DEFINE T == {n \in Nat: \A x \in S: x <= n}
           R == OpToRel(<, Nat)
<1>1. T \subseteq Nat /\ T # {} /\ IsWellFoundedOn(R, Nat)
  BY NatLessThanWellFounded
<1>2. PICK m \in T: \A y \in T: ~ <<y, m>> \in R
  <2> HIDE DEF T, R
  <2> QED BY <1>1, WFMin
<1>3. ASSUME NEW y \in T PROVE ~(y < m)
  BY <1>2, <1>3 DEF OpToRel
<1> HIDE DEF R
<1>4. m \in S
  <2> SUFFICES ASSUME m \notin S PROVE FALSE OBVIOUS
  <2>1. m # 0
    <3>1. PICK x \in S: TRUE
      OBVIOUS
    <3>2. x \in Nat /\ m \in Nat /\ x <= m /\ x # m
      BY <1>2, <3>1
    <3> QED BY <3>2
  <2>2. m - 1 \in Nat /\ \A x \in S: x <= m - 1
    BY <1>2, <2>1
  <2>3. m - 1 \in T
    BY <2>2
  <2> QED BY <1>3, <2>3, <1>2
<1>5. \E x \in S: \A y \in S: x >= y
  BY <1>4, <1>2
<1> QED BY <1>5 DEF Max

(* INTEGER PRIMARY KEY: the next number is not in use.                     *)
LEMMA NextIdIsFree ==
    ASSUME RowsOK, NextId \in Ids
    PROVE  shelf[NextId].life = 0
<1> DEFINE S == Rows \cup {0}
<1>1. S \subseteq Nat /\ S # {} /\ \A x \in S: x <= MaxShelves
  BY ShelfAssumption DEF Rows, Ids
<1>2. Max(S) \in Nat /\ \A x \in S: x <= Max(S)
  <2> HIDE DEF S
  <2> QED BY <1>1, MaxExists, ShelfAssumption
<1>3. NextId \notin Rows
  BY <1>2 DEF NextId
<1> QED BY <1>3 DEF Rows, Exists

-----------------------------------------------------------------------------
(* Rows                                                                    *)

LEMMA NoShelfFine == NoShelf \in ShelfRows /\ Manual(NoShelf) /\ NoShelf.life = 0
BY DEF NoShelf, ShelfRows, Manual

(* insert: a new lifetime under a free number.                             *)
LEMMA InsertRows ==
    ASSUME NEW s, NEW l, RowsFine(s, l), NEW i \in Ids, s[i].life = 0,
           NEW row \in ShelfRows, Manual(row)
    PROVE  LET n == [s EXCEPT ![i] = [row EXCEPT !.life = l + 1, !.revision = 1]]
           IN RowsFine(n, l + 1) /\ Keeps(s, n, {})
<1> DEFINE new == [row EXCEPT !.life = l + 1, !.revision = 1]
           n == [s EXCEPT ![i] = new]
           part == [row EXCEPT !.life = l + 1]
<1>0. part \in ShelfRows /\ Manual(part) /\ part.life = l + 1
  BY DEF RowsFine, ShelfRows, Manual
<1>1. new \in ShelfRows /\ Manual(new) /\ new.life = l + 1
  <2>1. new = [part EXCEPT !.revision = 1]
    OBVIOUS
  <2> HIDE DEF new, part
  <2> QED BY <1>0, <2>1 DEF ShelfRows, Manual
<1> HIDE DEF new
<1>2. n \in [Ids -> ShelfRows] /\ n[i] = new /\ \A j \in Ids \ {i}: n[j] = s[j]
  BY <1>1 DEF RowsFine
<1>3. \A j \in Ids: s[j].life \in Nat
  BY DEF RowsFine, ShelfRows
<1>4. RowsFine(n, l + 1)
  BY <1>1, <1>2, <1>3 DEF RowsFine
<1>5. Keeps(s, n, {})
  BY <1>2 DEF Keeps
<1> QED BY <1>4, <1>5 DEF new

(* bump: a changed row moves its revision.                                 *)
LEMMA BumpedFits ==
    ASSUME NEW r \in ShelfRows, NEW row, Fits(r, row)
    PROVE  /\ Bumped(r, row) \in ShelfRows /\ Manual(Bumped(r, row))
           /\ Bumped(r, row).life = r.life
           /\ Bumped(r, row) = r \/ Bumped(r, row).revision > r.revision
BY DEF Fits, Bumped, ShelfRows, Manual

LEMMA ChangeRows ==
    ASSUME NEW s, NEW l, RowsFine(s, l), NEW i \in Ids, NEW row, Fits(s[i], row)
    PROVE  LET n == [s EXCEPT ![i] = Bumped(s[i], row)]
           IN RowsFine(n, l) /\ Keeps(s, n, {})
<1> DEFINE new == Bumped(s[i], row)
           n == [s EXCEPT ![i] = new]
<1>1. /\ new \in ShelfRows /\ Manual(new) /\ new.life = s[i].life
      /\ new = s[i] \/ new.revision > s[i].revision
  BY BumpedFits DEF RowsFine
<1> HIDE DEF new
<1>2. n \in [Ids -> ShelfRows] /\ n[i] = new /\ \A j \in Ids \ {i}: n[j] = s[j]
  BY <1>1 DEF RowsFine
<1>3. RowsFine(n, l)
  BY <1>1, <1>2 DEF RowsFine
<1>4. Keeps(s, n, {})
  BY <1>1, <1>2 DEF Keeps
<1> QED BY <1>3, <1>4 DEF new

LEMMA FitsItself ==
    ASSUME NEW r \in ShelfRows, Manual(r)
    PROVE  Fits(r, r)
BY DEF Fits

(* curation::curate: the row each action leaves.                           *)
LEMMA CurationFits ==
    ASSUME WorldOK, NEW r \in ShelfRows, Manual(r), NEW row \in Curations(r)
    PROVE  Fits(r, row)
<1> USE DEF ShelfRows, Fits, Manual
<1>1. ASSUME NEW ss \in SUBSET available PROVE Fits(r, AddTo(r, ss))
  BY DEF AddTo, WorldOK
<1>2. ASSUME NEW ss \in SUBSET Stories PROVE Fits(r, ExcludeFrom(r, ss))
  BY DEF ExcludeFrom
<1>3. ASSUME NEW s \in Stories PROVE Fits(r, [r EXCEPT !.excluded = @ \ {s}])
  OBVIOUS
<1>4. ASSUME NEW ss PROVE Fits(r, RemoveFrom(r, ss))
  BY DEF RemoveFrom
<1>5. ASSUME NEW ss \in SUBSET (r.members \cup r.excluded)
      PROVE  Fits(r, ExcludeFrom(RemoveFrom(r, ss), ss))
  <2> DEFINE p == RemoveFrom(r, ss)
  <2>1. Fits(r, p) /\ p \in ShelfRows /\ ss \in SUBSET Stories
    BY <1>4
  <2> HIDE DEF p
  <2>2. Fits(r, ExcludeFrom(p, ss))
    BY <2>1 DEF ExcludeFrom
  <2> QED BY <2>2 DEF p
<1> HIDE DEF ShelfRows, Fits, Manual
<1> QED BY <1>1, <1>2, <1>3, <1>4, <1>5, Zenon DEF Curations

LEMMA MatchingTyped ==
    ASSUME WorldOK, NEW cs \in SUBSET Collections
    PROVE  Matching(cs) \in SUBSET Stories
BY DEF Matching, WorldOK

LEMMA MatchingNothing == Matching({}) = {}
BY DEF Matching

(* apply_shelf_updates: without sources there is nothing to decide.        *)
LEMMA UpdateFits ==
    ASSUME WorldOK, NEW r \in ShelfRows, Manual(r),
           NEW add \in SUBSET Additions(r), NEW drop \in SUBSET Removals(r),
           NEW exclude \in SUBSET (Additions(r) \ add),
           NEW keep \in SUBSET (Removals(r) \ drop)
    PROVE  Fits(r, [r EXCEPT !.members = (@ \cup add) \ drop,
                             !.kept = @ \cup keep,
                             !.excluded = @ \cup exclude \cup drop])
<1>1. r.sources \in SUBSET Collections
  BY DEF ShelfRows
<1>2. Additions(r) \in SUBSET Stories /\ Removals(r) \in SUBSET Stories
  BY <1>1, MatchingTyped DEF Additions, Removals, ShelfRows
<1>3. r.sources = {} => add = {} /\ drop = {}
  BY MatchingNothing DEF Additions, Removals
<1> QED BY <1>2, <1>3 DEF Fits, ShelfRows, Manual

(* source_change::apply.                                                   *)
LEMMA DetachedFits ==
    ASSUME WorldOK, NEW r \in ShelfRows, NEW desired \in SUBSET Collections,
           NEW drop \in SUBSET Removable(r, desired)
    PROVE  Fits(r, Detached(r, desired, drop))
<1>1. Affected(r, desired) \in SUBSET Stories
  BY DEF Affected, ShelfRows
<1>2. drop \in SUBSET Stories
  BY <1>1 DEF Removable
<1> QED BY <1>1, <1>2 DEF Fits, ShelfRows, Manual, Detached

(* create_shelf_reviewed.                                                  *)
LEMMA CreatedFine ==
    ASSUME WorldOK, NEW desired \in SUBSET Collections, NEW manual \in SUBSET Stories,
           NEW chosen \in SUBSET (manual \cup Matching(desired))
    PROVE  LET row == [NoShelf EXCEPT !.members = chosen,
                                      !.kept = chosen \cap manual,
                                      !.sources = desired]
           IN row \in ShelfRows /\ Manual(row)
<1>1. Matching(desired) \in SUBSET Stories
  BY MatchingTyped
<1>2. desired = {} => chosen \subseteq manual
  BY MatchingNothing
<1> QED BY <1>1, <1>2 DEF NoShelf, ShelfRows, Manual

-----------------------------------------------------------------------------
(* What the transactions leave of the rows                                 *)

LEMMA KeepsAll ==
    ASSUME NEW s, NEW D
    PROVE  Keeps(s, s, D)
BY DEF Keeps

(* Whether or not a transaction commits, the rows are fine if it leaves    *)
(* them so.                                                                *)
LEMMA CommitRows ==
    ASSUME RowsOK, NEW n, NEW l, NEW c, NEW D,
           RowsFine(n, l), Keeps(shelf, n, D), c \subseteq Collections,
           Commit(n, l, c)
    PROVE  RowsOK' /\ Keeps(shelf, shelf', D)
<1>1. \/ shelf' = n /\ lives' = l /\ collections' = c
      \/ shelf' = shelf /\ lives' = lives /\ collections' = collections
  BY DEF Commit, rows
<1> QED BY <1>1, KeepsAll DEF RowsOK

LEMMA InsertKeeps ==
    ASSUME RowsOK, NEW row \in ShelfRows, Manual(row), Insert(row)
    PROVE  RowsOK' /\ Keeps(shelf, shelf', {})
<1> DEFINE n == Put(NextId, [row EXCEPT !.life = lives + 1, !.revision = 1])
<1>1. RowsFine(n, lives + 1) /\ Keeps(shelf, n, {})
  <2>1. NextId \in Ids
    BY DEF Insert
  <2>2. shelf[NextId].life = 0
    BY <2>1, NextIdIsFree
  <2> QED BY <2>1, <2>2, InsertRows DEF RowsOK, Put
<1>2. Commit(n, lives + 1, collections)
  BY DEF Insert
<1> HIDE DEF n
<1> QED BY <1>1, <1>2, CommitRows DEF RowsOK

LEMMA ChangeKeeps ==
    ASSUME RowsOK, NEW i \in Ids, NEW row, Fits(shelf[i], row), Change(i, row)
    PROVE  RowsOK' /\ Keeps(shelf, shelf', {})
<1> DEFINE n == Put(i, Bumped(shelf[i], row))
<1>1. RowsFine(n, lives) /\ Keeps(shelf, n, {})
  BY ChangeRows DEF RowsOK, Put
<1>2. Commit(n, lives, collections)
  BY DEF Change
<1> HIDE DEF n
<1> QED BY <1>1, <1>2, CommitRows DEF RowsOK

LEMMA RowTyped ==
    ASSUME RowsOK, NEW i \in Ids
    PROVE  shelf[i] \in ShelfRows /\ Manual(shelf[i])
BY DEF RowsOK, RowsFine

LEMMA TouchKeeps ==
    ASSUME RowsOK, NEW i \in Ids,
           Commit(Put(i, [shelf[i] EXCEPT !.revision = @ + 1]), lives, collections)
    PROVE  RowsOK' /\ Keeps(shelf, shelf', {})
<1> DEFINE new == [shelf[i] EXCEPT !.revision = @ + 1]
           n == Put(i, new)
<1>1. /\ new \in ShelfRows /\ Manual(new) /\ new.life = shelf[i].life
      /\ new.revision > shelf[i].revision
  BY RowTyped DEF ShelfRows, Manual
<1> HIDE DEF new
<1>2. n \in [Ids -> ShelfRows] /\ n[i] = new /\ \A j \in Ids \ {i}: n[j] = shelf[j]
  BY <1>1 DEF RowsOK, RowsFine, Put
<1>3. RowsFine(n, lives)
  BY <1>1, <1>2 DEF RowsOK, RowsFine
<1>4. Keeps(shelf, n, {})
  BY <1>1, <1>2 DEF Keeps
<1>5. Commit(n, lives, collections)
  BY DEF new
<1> HIDE DEF n
<1> QED BY <1>3, <1>4, <1>5, CommitRows DEF RowsOK

(* A deletion takes one shelf.                                             *)
LEMMA DeleteKeeps ==
    ASSUME RowsOK, NEW i \in Ids, Commit(Put(i, NoShelf), lives, collections)
    PROVE  RowsOK' /\ Keeps(shelf, shelf', {i})
<1> DEFINE n == Put(i, NoShelf)
<1>1. n \in [Ids -> ShelfRows] /\ n[i] = NoShelf /\ \A j \in Ids \ {i}: n[j] = shelf[j]
  BY NoShelfFine DEF RowsOK, RowsFine, Put
<1>2. RowsFine(n, lives)
  BY <1>1, NoShelfFine DEF RowsOK, RowsFine
<1>3. Keeps(shelf, n, {i})
  BY <1>1 DEF Keeps
<1>4. Commit(n, lives, collections)
  OBVIOUS
<1> HIDE DEF n
<1> QED BY <1>2, <1>3, <1>4, CommitRows DEF RowsOK

(* delete_linked_collection detaches every linked shelf.                   *)
LEMMA DetachKeeps ==
    ASSUME RowsOK, WorldOK, NEW c, NEW L \in SUBSET Ids, NEW drop,
           \A i \in L: drop[i] \subseteq Removable(shelf[i], shelf[i].sources \ {c}),
           Commit([i \in Ids |->
                     IF i \in L
                     THEN Bumped(shelf[i], Detached(shelf[i], shelf[i].sources \ {c}, drop[i]))
                     ELSE shelf[i]],
                  lives, collections \ {c})
    PROVE  RowsOK' /\ Keeps(shelf, shelf', {})
<1> DEFINE new(i) == Bumped(shelf[i], Detached(shelf[i], shelf[i].sources \ {c}, drop[i]))
           n == [i \in Ids |-> IF i \in L THEN new(i) ELSE shelf[i]]
<1>1. ASSUME NEW i \in L
      PROVE  /\ new(i) \in ShelfRows /\ Manual(new(i)) /\ new(i).life = shelf[i].life
             /\ new(i) = shelf[i] \/ new(i).revision > shelf[i].revision
  <2> DEFINE left == shelf[i].sources \ {c}
             row == Detached(shelf[i], left, drop[i])
  <2>1. shelf[i] \in ShelfRows /\ left \in SUBSET Collections
    BY RowTyped DEF ShelfRows
  <2>2. drop[i] \in SUBSET Removable(shelf[i], left)
    OBVIOUS
  <2>3. Fits(shelf[i], row)
    <3> HIDE DEF left
    <3> QED BY <2>1, <2>2, DetachedFits
  <2> HIDE DEF row
  <2>4. /\ Bumped(shelf[i], row) \in ShelfRows /\ Manual(Bumped(shelf[i], row))
        /\ Bumped(shelf[i], row).life = shelf[i].life
        /\ Bumped(shelf[i], row) = shelf[i] \/ Bumped(shelf[i], row).revision > shelf[i].revision
    BY <2>1, <2>3, BumpedFits
  <2> QED BY <2>4 DEF row
<1>4. Commit(n, lives, collections \ {c})
  OBVIOUS
<1> HIDE DEF new
<1>2. RowsFine(n, lives)
  BY <1>1 DEF RowsOK, RowsFine
<1>3. Keeps(shelf, n, {})
  BY <1>1 DEF Keeps
<1> HIDE DEF n
<1> QED BY <1>2, <1>3, <1>4, CommitRows DEF RowsOK

-----------------------------------------------------------------------------
(* Views                                                                   *)

LEMMA FollowsKept ==
    ASSUME NEW s \in [Ids -> ShelfRows], NEW n \in [Ids -> ShelfRows], NEW D,
           Keeps(s, n, D), NEW v \in Views, Follows(v, s), DOMAIN v.shelves \cap D = {}
    PROVE  Follows(v, n)
<1> SUFFICES ASSUME NEW i \in DOMAIN v.shelves PROVE Same(v.shelves[i], n[i])
  BY DEF Follows
<1>1. i \in Ids \ D /\ v.shelves[i] \in ShelfRows
  BY DEF Views
<1>2. s[i] \in ShelfRows /\ n[i] \in ShelfRows
  BY <1>1
<1>3. Same(v.shelves[i], s[i])
  BY DEF Follows
<1>4. \/ n[i] = s[i]
      \/ n[i].life = s[i].life /\ n[i].revision > s[i].revision
  BY <1>1, <1>3 DEF Keeps, Same
<1>5. /\ v.shelves[i].revision \in Nat /\ s[i].revision \in Nat /\ n[i].revision \in Nat
  BY <1>1, <1>2 DEF ShelfRows
<1> QED BY <1>3, <1>4, <1>5 DEF Same

(* The shelves a review shows.                                             *)
Shown(kind, target) ==
    CASE kind = "create" -> {}
      [] kind = "delete" -> Linked(target)
      [] OTHER -> {target}

LEMMA ViewShape ==
    ASSUME NEW kind, NEW target, NEW desired
    PROVE  LET v == View(kind, target, desired)
           IN /\ v = [shelves |-> v.shelves, sources |-> v.sources,
                      unfit |-> v.unfit, available |-> v.available]
              /\ v.shelves = [i \in Shown(kind, target) |-> shelf[i]]
<1> DEFINE shown == CASE kind = "create" -> {}
                      [] kind = "delete" -> Linked(target)
                      [] OTHER -> {target}
           sources == desired \cup UNION {shelf[i].sources: i \in shown}
           stories == Matching(sources) \cup UNION {shelf[i].members: i \in shown}
           f == [c \in sources |-> IF Attention(c) THEN {} ELSE matches[c] \cap available]
           u == {c \in sources: Attention(c)}
           a == available \cap stories
<1>1. View(kind, target, desired) =
        [shelves |-> [i \in shown |-> shelf[i]], sources |-> f, unfit |-> u, available |-> a]
  BY DEF View
<1>2. shown = Shown(kind, target)
  BY DEF Shown
<1> HIDE DEF shown, sources, stories, f, u, a
<1> QED BY <1>1, <1>2

(* A view is of rows that exist.                                           *)
LEMMA ViewFollows ==
    ASSUME RowsOK, WorldOK, NEW kind \in Kinds, NEW target, NEW desired \in SUBSET Collections,
           kind \notin {"create", "delete"} => target \in Rows
    PROVE  /\ View(kind, target, desired) \in Views
           /\ Follows(View(kind, target, desired), shelf)
           /\ DOMAIN View(kind, target, desired).shelves = Shown(kind, target)
<1> DEFINE shown == Shown(kind, target)
           sources == desired \cup UNION {shelf[i].sources: i \in shown}
           stories == Matching(sources) \cup UNION {shelf[i].members: i \in shown}
           f == [c \in sources |-> IF Attention(c) THEN {} ELSE matches[c] \cap available]
           u == {c \in sources: Attention(c)}
           a == available \cap stories
           v == [shelves |-> [i \in shown |-> shelf[i]], sources |-> f, unfit |-> u,
              available |-> a]
<1>1. View(kind, target, desired) = v
  BY DEF View, Shown
<1>2. shown \subseteq Rows
  BY DEF Shown, Linked
<1>3. shown \subseteq Ids /\ \A i \in shown: shelf[i] \in ShelfRows /\ shelf[i].life # 0
  BY <1>2, RowTyped DEF Rows, Exists
<1>4. sources \in SUBSET Collections
  BY <1>3 DEF ShelfRows
<1>5. f \in [sources -> SUBSET Stories] /\ u \in SUBSET Collections /\ a \in SUBSET Stories
  BY <1>4 DEF WorldOK
<1>6. [i \in shown |-> shelf[i]] \in [shown -> ShelfRows]
  BY <1>3
<1>7. v \in Views
  <2>1. [i \in shown |-> shelf[i]] \in UNION {[S -> ShelfRows]: S \in SUBSET Ids}
    BY <1>3, <1>6
  <2>2. f \in UNION {[S -> SUBSET Stories]: S \in SUBSET Collections}
    BY <1>4, <1>5
  <2> HIDE DEF shown, sources, f, u, a
  <2> QED BY <2>1, <2>2, <1>5 DEF Views
<1>8. Follows(v, shelf)
  <2> SUFFICES ASSUME NEW i \in shown PROVE Same(shelf[i], shelf[i])
    BY DEF Follows
  <2> QED BY <1>3 DEF Same, ShelfRows
<1>9. DOMAIN v.shelves = shown
  OBVIOUS
<1> HIDE DEF v
<1> QED BY <1>1, <1>7, <1>8, <1>9

-----------------------------------------------------------------------------
(* Tickets                                                                 *)

(* Tickets that stay alive keep their place in the registry and do not     *)
(* show a shelf that goes.                                                 *)
LEMMA TicketsFollow ==
    ASSUME RowsOK, RowsOK', TicketsOK, NEW D, Keeps(shelf, shelf', D),
           tickets' \in Seq(Plans), DOMAIN tickets' = DOMAIN tickets, runtime' = runtime,
           registry' \subseteq DOMAIN tickets,
           \A t \in DOMAIN tickets: tickets'[t].live =>
              /\ tickets'[t] = tickets[t]
              /\ t \in registry => t \in registry' /\ DOMAIN tickets[t].seen.shelves \cap D = {}
    PROVE  TicketsOK'
<1> SUFFICES ASSUME NEW t \in DOMAIN tickets, tickets'[t].live
             PROVE  /\ tickets'[t].kind \in Kinds /\ tickets'[t].seen \in Views
                    /\ tickets'[t].claims = 0
                    /\ tickets'[t].runtime <= runtime'
                    /\ tickets'[t].runtime = runtime' =>
                         t \in registry' /\ Follows(tickets'[t].seen, shelf')
  BY DEF TicketsOK, TicketOK
<1>1. tickets'[t] = tickets[t]
  OBVIOUS
<1>2. /\ tickets[t].kind \in Kinds /\ tickets[t].seen \in Views
      /\ tickets[t].claims = 0
      /\ tickets[t].runtime <= runtime
      /\ tickets[t].runtime = runtime => t \in registry /\ Follows(tickets[t].seen, shelf)
  BY <1>1 DEF TicketsOK, TicketOK
<1>3. ASSUME tickets[t].runtime = runtime
      PROVE  t \in registry' /\ Follows(tickets[t].seen, shelf')
  <2>1. t \in registry' /\ DOMAIN tickets[t].seen.shelves \cap D = {}
    BY <1>2, <1>3
  <2>2. shelf \in [Ids -> ShelfRows] /\ shelf' \in [Ids -> ShelfRows]
    BY DEF RowsOK, RowsFine
  <2> QED BY <1>2, <1>3, <2>1, <2>2, FollowsKept
<1> QED BY <1>1, <1>2, <1>3

LEMMA TicketsKept ==
    ASSUME RowsOK, RowsOK', TicketsOK, Keeps(shelf, shelf', {}),
           UNCHANGED <<tickets, registry, runtime>>
    PROVE  TicketsOK'
<1>1. tickets' \in Seq(Plans) /\ registry' \subseteq DOMAIN tickets
  BY DEF TicketsOK
<1> QED BY <1>1, TicketsFollow

(* While a preview holds the writer no transaction runs; another shows no  *)
(* shelf.                                                                  *)
LEMMA ReadingKept ==
    ASSUME ReadingOK, ~OnWriter(reading.kind), reading' = reading
    PROVE  ReadingOK'
<1>1. CASE reading = NoReading
  BY <1>1 DEF ReadingOK
<1>2. CASE reading # NoReading
  <2>1. reading \in Readings /\ reading.kind \in Kinds
    BY <1>2 DEF ReadingOK, Readings
  <2>2. reading.kind = "create" /\ DOMAIN reading.seen.shelves = {}
    BY <1>2, <2>1 DEF ReadingOK, OnWriter
  <2>3. Follows(reading.seen, shelf')
    BY <2>2 DEF Follows
  <2> QED BY <2>1, <2>2, <2>3 DEF ReadingOK
<1> QED BY <1>1, <1>2

(* A ticket that was killed or claimed.                                    *)
LEMMA DeadTyped ==
    ASSUME NEW p \in Plans, ShelfAssumption
    PROVE  /\ Dead(p) \in Plans /\ ~Dead(p).live /\ Dead(p).claims = p.claims
           /\ Spent(p) \in Plans /\ ~Spent(p).live /\ Spent(p).claims = p.claims + 1
<1>1. p.claims \in Nat
  BY DEF Plans
<1>2. 0 \in Targets
  BY DEF Targets
<1> DEFINE w == [shelves |-> <<>>]
           V == Views \cup {w}
           x(k) == [kind |-> "none", target |-> 0, desired |-> {}, manual |-> {},
                    seen |-> w, runtime |-> 0, live |-> FALSE, claims |-> k]
<1>3. Dead(p) = x(p.claims)
  BY DEF Dead
<1> HIDE DEF w
<1>4. ASSUME NEW k \in Nat PROVE [x(k) EXCEPT !.claims = @ + 1] = x(k + 1)
  <2> DEFINE y(b) == [kind |-> "none", target |-> 0, desired |-> {}, manual |-> {},
                      seen |-> w, runtime |-> 0, live |-> b, claims |-> k]
             z(b) == [kind |-> "none", target |-> 0, desired |-> {}, manual |-> {},
                      seen |-> w, runtime |-> 0, live |-> b, claims |-> k + 1]
  <2>1. ASSUME NEW b PROVE [y(b) EXCEPT !.claims = @ + 1] = z(b)
    OBVIOUS
  <2>2. x(k) = y(FALSE) /\ x(k + 1) = z(FALSE)
    OBVIOUS
  <2> HIDE DEF x, y, z
  <2> QED BY <2>1, <2>2
<1>5. w \in V
  OBVIOUS
<1>6. Plans = [kind: Kinds \cup {"none"}, target: Targets, desired: SUBSET Collections,
               manual: SUBSET Stories, seen: V, runtime: Nat, live: BOOLEAN, claims: Nat]
  BY DEF Plans, w
<1> HIDE DEF V
<1>7. ASSUME NEW k \in Nat PROVE x(k) \in Plans /\ ~x(k).live /\ x(k).claims = k
  BY <1>2, <1>5, <1>6
<1> HIDE DEF x
<1> QED BY <1>1, <1>3, <1>4, <1>7 DEF Spent

LEMMA SeqDomain ==
    ASSUME NEW S, NEW f \in Seq(S)
    PROVE  DOMAIN f = 1..Len(f) /\ Len(f) \in Nat
OBVIOUS

(* Ticket::claim spends one ticket and touches no other.                   *)
LEMMA ClaimTickets ==
    ASSUME TicketsOK, NEW t \in DOMAIN tickets, Claim(t)
    PROVE  /\ tickets' \in Seq(Plans) /\ DOMAIN tickets' = DOMAIN tickets
           /\ \A u \in DOMAIN tickets \ {t}: tickets'[u] = tickets[u]
           /\ ~tickets'[t].live /\ tickets'[t].claims = tickets[t].claims + 1
<1> DEFINE e == Spent(tickets[t])
<1>1. tickets \in Seq(Plans) /\ t \in 1..Len(tickets) /\ tickets[t] \in Plans
  BY SeqDomain DEF TicketsOK
<1>2. e \in Plans /\ ~e.live /\ e.claims = tickets[t].claims + 1
  BY <1>1, DeadTyped, ShelfAssumption
<1>3. tickets' = [tickets EXCEPT ![t] = e]
  BY DEF Claim
<1> HIDE DEF e
<1>4. tickets' \in Seq(Plans) /\ DOMAIN tickets' = DOMAIN tickets
  BY <1>1, <1>2, <1>3, ExceptSeq
<1> QED BY <1>1, <1>2, <1>3, <1>4

(* Killed tickets keep the number of their claims.                         *)
LEMMA KilledTickets ==
    ASSUME TicketsOK, NEW ts
    PROVE  /\ Killed(ts) \in Seq(Plans) /\ DOMAIN Killed(ts) = DOMAIN tickets
           /\ Len(Killed(ts)) = Len(tickets)
           /\ \A u \in DOMAIN tickets:
                /\ u \in ts => Killed(ts)[u] = Dead(tickets[u]) /\ ~Killed(ts)[u].live
                /\ u \notin ts => Killed(ts)[u] = tickets[u]
                /\ Killed(ts)[u].claims = tickets[u].claims
<1>1. tickets \in Seq(Plans) /\ DOMAIN tickets = 1..Len(tickets) /\ Len(tickets) \in Nat
  BY SeqDomain DEF TicketsOK
<1>2. ASSUME NEW u \in DOMAIN tickets
      PROVE  /\ tickets[u] \in Plans /\ Dead(tickets[u]) \in Plans
             /\ ~Dead(tickets[u]).live /\ Dead(tickets[u]).claims = tickets[u].claims
  <2>1. tickets[u] \in Plans
    BY <1>1
  <2> QED BY <2>1, DeadTyped, ShelfAssumption
<1>3. /\ DOMAIN Killed(ts) = 1..Len(tickets)
      /\ \A u \in DOMAIN tickets: Killed(ts)[u] = IF u \in ts THEN Dead(tickets[u]) ELSE tickets[u]
  BY <1>1 DEF Killed
<1>4. Killed(ts) \in [1..Len(tickets) -> Plans]
  BY <1>1, <1>2 DEF Killed
<1>5. Killed(ts) \in Seq(Plans) /\ Len(Killed(ts)) = Len(tickets)
  BY <1>1, <1>4, SeqDef, LenProperties
<1> QED BY <1>1, <1>2, <1>3, <1>5

(* Registry::issue_at: what leaves the registry is dead, and one ticket is *)
(* added.                                                                  *)
LEMMA IssueTickets ==
    ASSUME TicketsOK, NEW p \in Plans, Issue(p)
    PROVE  /\ tickets' \in Seq(Plans) /\ DOMAIN tickets' = 1..(Len(tickets) + 1)
           /\ DOMAIN tickets = 1..Len(tickets) /\ Len(tickets) \in Nat
           /\ registry' \subseteq DOMAIN tickets' /\ Len(tickets) + 1 \in registry'
           /\ tickets'[Len(tickets) + 1] = p
           /\ \A u \in DOMAIN tickets:
                /\ tickets'[u].claims = tickets[u].claims
                /\ tickets'[u].live => tickets'[u] = tickets[u]
                /\ tickets'[u].live /\ u \in registry => u \in registry'
<1> DEFINE valid == {t \in registry: tickets[t].live /\ ~Expired(t)}
           kept == valid \ Evicted(valid)
           k == Killed(registry \ kept)
<1>1. /\ tickets' = Append(k, p) /\ registry' = kept \cup {Len(tickets) + 1}
      /\ kept \subseteq registry
  BY DEF Issue
<1>2. DOMAIN tickets = 1..Len(tickets) /\ Len(tickets) \in Nat /\ registry \subseteq DOMAIN tickets
  BY SeqDomain DEF TicketsOK
<1>3. /\ k \in Seq(Plans) /\ DOMAIN k = DOMAIN tickets /\ Len(k) = Len(tickets)
      /\ \A u \in DOMAIN tickets:
           /\ u \in registry \ kept => ~k[u].live
           /\ u \notin registry \ kept => k[u] = tickets[u]
           /\ k[u].claims = tickets[u].claims
  <2> HIDE DEF kept
  <2> QED BY KilledTickets
<1> HIDE DEF valid, kept, k
<1>4. /\ tickets' \in Seq(Plans) /\ Len(tickets') = Len(tickets) + 1
      /\ \A u \in 1..Len(tickets): tickets'[u] = k[u]
      /\ tickets'[Len(tickets) + 1] = p
  BY <1>1, <1>3, AppendProperties
<1>5. DOMAIN tickets' = 1..(Len(tickets) + 1)
  BY <1>4, SeqDomain
<1>6. registry' \subseteq DOMAIN tickets'
  BY <1>1, <1>2, <1>5
<1>7. ASSUME NEW u \in DOMAIN tickets
      PROVE  /\ tickets'[u].claims = tickets[u].claims
             /\ tickets'[u].live => tickets'[u] = tickets[u]
             /\ tickets'[u].live /\ u \in registry => u \in registry'
  <2>1. tickets'[u] = k[u]
    BY <1>2, <1>4
  <2> QED BY <1>1, <1>3, <2>1
<1> QED BY <1>1, <1>2, <1>4, <1>5, <1>6, <1>7
-----------------------------------------------------------------------------
(* Steps                                                                   *)

(* A transaction that spends a ticket leaves the others as they are.       *)
LEMMA ClaimKeeps ==
    ASSUME RowsOK, RowsOK', TicketsOK, Keeps(shelf, shelf', {}), NEW t \in DOMAIN tickets,
           Claim(t), UNCHANGED <<registry, runtime>>
    PROVE  TicketsOK'
<1>1. registry' \subseteq DOMAIN tickets
  BY DEF TicketsOK
<1>2. /\ tickets' \in Seq(Plans) /\ DOMAIN tickets' = DOMAIN tickets
      /\ \A u \in DOMAIN tickets: tickets'[u].live => tickets'[u] = tickets[u]
  BY ClaimTickets
<1> QED BY <1>1, <1>2, TicketsFollow

(* The deletion of a shelf leaves no ticket alive that shows it.           *)
LEMMA DeletionKeeps ==
    ASSUME RowsOK, RowsOK', TicketsOK, NEW i \in Ids, Keeps(shelf, shelf', {i}),
           NEW ts, Showing(i) \subseteq ts,
           tickets' \in Seq(Plans), DOMAIN tickets' = DOMAIN tickets,
           \A u \in DOMAIN tickets:
              IF u \in ts THEN ~tickets'[u].live ELSE tickets'[u] = tickets[u],
           registry' = registry \ Showing(i), runtime' = runtime
    PROVE  TicketsOK'
<1>1. registry' \subseteq DOMAIN tickets
  BY DEF TicketsOK
<1>2. ASSUME NEW u \in DOMAIN tickets, tickets'[u].live
      PROVE  /\ tickets'[u] = tickets[u]
             /\ u \in registry => u \in registry' /\ DOMAIN tickets[u].seen.shelves \cap {i} = {}
  <2>1. u \notin ts
    BY <1>2
  <2> QED BY <2>1 DEF Showing
<1> QED BY <1>1, <1>2, TicketsFollow

-----------------------------------------------------------------------------
(* Reviews                                                                 *)

(* Rows that are still of the shelves that were shown, and that compare    *)
(* equal, are equal: the lifetime need not be compared.                    *)
LEMMA CoveredRevisions ==
    ASSUME NEW s \in [Ids -> ShelfRows], NEW v, NEW w \in Views, Follows(w, s), NEW S,
           v.shelves = [i \in S |-> s[i]],
           [i \in DOMAIN v.shelves |-> v.shelves[i].revision]
             = [i \in DOMAIN w.shelves |-> w.shelves[i].revision]
    PROVE  v.shelves = w.shelves
<1> DEFINE f == [i \in DOMAIN v.shelves |-> v.shelves[i].revision]
           g == [i \in DOMAIN w.shelves |-> w.shelves[i].revision]
<1>1. DOMAIN v.shelves = S /\ DOMAIN f = S /\ DOMAIN g = DOMAIN w.shelves
  OBVIOUS
<1>2. S = DOMAIN w.shelves
  BY <1>1
<1>3. PICK T \in SUBSET Ids: w.shelves \in [T -> ShelfRows]
  BY DEF Views
<1>4. w.shelves = [i \in S |-> w.shelves[i]]
  BY <1>2, <1>3
<1>5. ASSUME NEW i \in S PROVE s[i] = w.shelves[i]
  <2>1. f[i] = s[i].revision /\ g[i] = w.shelves[i].revision
    BY <1>2
  <2>2. f[i] = g[i]
    OBVIOUS
  <2>3. Same(w.shelves[i], s[i])
    BY <1>2 DEF Follows
  <2> QED BY <2>1, <2>2, <2>3 DEF Same
<1> HIDE DEF f, g
<1> QED BY <1>4, <1>5

LEMMA CoveredFingerprint ==
    ASSUME NEW s \in [Ids -> ShelfRows], NEW v, NEW w \in Views, Follows(w, s), NEW S,
           v = [shelves |-> v.shelves, sources |-> v.sources,
                unfit |-> v.unfit, available |-> v.available],
           v.shelves = [i \in S |-> s[i]],
           [v EXCEPT !.shelves = [i \in DOMAIN v.shelves |-> [v.shelves[i] EXCEPT !.life = 0]]]
             = [w EXCEPT !.shelves = [i \in DOMAIN w.shelves |-> [w.shelves[i] EXCEPT !.life = 0]]]
    PROVE  v = w
<1> DEFINE f == [i \in DOMAIN v.shelves |-> [v.shelves[i] EXCEPT !.life = 0]]
           g == [i \in DOMAIN w.shelves |-> [w.shelves[i] EXCEPT !.life = 0]]
           x == [v EXCEPT !.shelves = f]
           y == [w EXCEPT !.shelves = g]
<1>1. DOMAIN v.shelves = S /\ DOMAIN f = S /\ DOMAIN g = DOMAIN w.shelves
  OBVIOUS
<1>2. PICK T \in SUBSET Ids: w.shelves \in [T -> ShelfRows]
  BY DEF Views
<1>3. \A i \in S: f[i] = [s[i] EXCEPT !.life = 0]
  OBVIOUS
<1>4. \A i \in DOMAIN w.shelves: g[i] = [w.shelves[i] EXCEPT !.life = 0]
  OBVIOUS
<1>5. w = [shelves |-> w.shelves, sources |-> w.sources,
           unfit |-> w.unfit, available |-> w.available]
  BY DEF Views
<1>6. x = y
  OBVIOUS
<1> HIDE DEF f, g
<1>7. /\ x.shelves = f /\ x.sources = v.sources /\ x.unfit = v.unfit /\ x.available = v.available
  <2> DEFINE a == v.shelves
             b == v.sources
             c == v.unfit
             d == v.available
             z == [shelves |-> a, sources |-> b, unfit |-> c, available |-> d]
  <2>1. v = z
    OBVIOUS
  <2> HIDE DEF a, b, c, d
  <2>2. x = [z EXCEPT !.shelves = f]
    BY <2>1
  <2>3. x.shelves = f /\ x.sources = b /\ x.unfit = c /\ x.available = d
    BY <2>2
  <2> QED BY <2>3 DEF a, b, c, d
<1>8. /\ y.shelves = g /\ y.sources = w.sources /\ y.unfit = w.unfit /\ y.available = w.available
  BY DEF Views
<1> HIDE DEF x, y
<1>9. f = g /\ v.sources = w.sources /\ v.unfit = w.unfit /\ v.available = w.available
  BY <1>6, <1>7, <1>8
<1>10. S = DOMAIN w.shelves
  BY <1>1, <1>9
<1>11. ASSUME NEW i \in S PROVE s[i] = w.shelves[i]
  <2>1. [s[i] EXCEPT !.life = 0] = [w.shelves[i] EXCEPT !.life = 0]
    BY <1>3, <1>4, <1>9, <1>10
  <2>2. s[i].life = w.shelves[i].life
    BY <1>10 DEF Follows, Same
  <2>3. w.shelves[i] \in ShelfRows /\ s[i] \in ShelfRows
    BY <1>2, <1>10
  <2> QED BY <2>1, <2>2, <2>3 DEF ShelfRows
<1>12. w.shelves = [i \in S |-> w.shelves[i]]
  BY <1>2, <1>10
<1>13. v.shelves = w.shelves
  BY <1>11, <1>12
<1> QED BY <1>5, <1>9, <1>13

(* A plan that is accepted and fresh sees the very rows it was made of.    *)
LEMMA FreshIsSeen ==
    ASSUME RowsOK, TicketsOK, NEW t \in DOMAIN tickets,
           tickets[t].live, SameRuntime(t), Fresh(t)
    PROVE  /\ Now(t).shelves = tickets[t].seen.shelves
           /\ tickets[t].kind # "curation" => Now(t) = tickets[t].seen
           /\ \A i \in Shown(tickets[t].kind, tickets[t].target): i \in Ids /\ shelf[i].life # 0
<1> DEFINE kind == tickets[t].kind
           v == Now(t)
           w == tickets[t].seen
           S == Shown(kind, tickets[t].target)
<1>1. w \in Views /\ Follows(w, shelf)
  BY DEF TicketsOK, TicketOK, SameRuntime
<1>2. /\ v = [shelves |-> v.shelves, sources |-> v.sources,
              unfit |-> v.unfit, available |-> v.available]
      /\ v.shelves = [i \in S |-> shelf[i]]
  BY ViewShape DEF Now
<1>3. Covered(kind, v) = Covered(kind, w)
  BY DEF Fresh, Now
<1>4. shelf \in [Ids -> ShelfRows]
  BY DEF RowsOK, RowsFine
<1> HIDE DEF kind, v, w, S
<1>5. ASSUME kind = "curation" PROVE v.shelves = w.shelves
  <2>1. [i \in DOMAIN v.shelves |-> v.shelves[i].revision]
          = [i \in DOMAIN w.shelves |-> w.shelves[i].revision]
    BY <1>3, <1>5 DEF Covered
  <2>2. v.shelves = [i \in S |-> shelf[i]]
    BY <1>2
  <2> QED BY <1>1, <1>4, <2>1, <2>2, CoveredRevisions
<1>6. ASSUME kind # "curation" PROVE v = w
  <2>1. [v EXCEPT !.shelves = [i \in DOMAIN v.shelves |-> [v.shelves[i] EXCEPT !.life = 0]]]
          = [w EXCEPT !.shelves = [i \in DOMAIN w.shelves |-> [w.shelves[i] EXCEPT !.life = 0]]]
    BY <1>3, <1>6 DEF Covered
  <2> QED BY <1>1, <1>2, <1>4, <2>1, CoveredFingerprint
<1>7. v.shelves = w.shelves /\ (kind # "curation" => v = w)
  BY <1>5, <1>6
<1>8. ASSUME NEW i \in S PROVE i \in Ids /\ shelf[i].life # 0
  <2>1. i \in DOMAIN w.shelves
    BY <1>2, <1>7
  <2> QED BY <1>1, <2>1 DEF Views, Follows, Same
<1> QED BY <1>7, <1>8 DEF kind, v, w, S

-----------------------------------------------------------------------------
(* The actions                                                             *)

LEMMA WriteStep ==
    ASSUME ReviewInv, Write, RowsOK', TicketsOK'
    PROVE  ReviewInv'
<1>1. ~OnWriter(reading.kind) /\ reading' = reading /\ UNCHANGED world
  BY DEF Write
<1>2. ReadingOK'
  BY <1>1, ReadingKept DEF ReviewInv
<1>3. WorldOK'
  BY <1>1 DEF ReviewInv, WorldOK, world
<1> QED BY <1>2, <1>3 DEF ReviewInv

(* A transaction without a review that deletes no shelf.                   *)
LEMMA PlainStep ==
    ASSUME ReviewInv, Write, RowsOK', Keeps(shelf, shelf', {}), UNCHANGED <<tickets, registry>>
    PROVE  ReviewInv'
<1>1. UNCHANGED <<tickets, registry, runtime>>
  BY DEF Write
<1>2. TicketsOK'
  BY <1>1, TicketsKept DEF ReviewInv
<1> QED BY <1>2, WriteStep

LEMMA UnreviewedStep ==
    ASSUME ReviewInv, Unreviewed
    PROVE  ReviewInv'
<1> USE DEF ReviewInv
<1>1. CASE CreateShelf
  <2>1. RowsOK' /\ Keeps(shelf, shelf', {})
    BY <1>1, InsertKeeps, NoShelfFine DEF CreateShelf
  <2> QED BY <1>1, <2>1, PlainStep DEF CreateShelf
<1>2. ASSUME NEW i \in Ids, Touch(i) PROVE ReviewInv'
  <2>1. RowsOK' /\ Keeps(shelf, shelf', {})
    BY <1>2, TouchKeeps DEF Touch
  <2> QED BY <1>2, <2>1, PlainStep DEF Touch
<1>3. ASSUME NEW i \in Ids, Duplicate(i) PROVE ReviewInv'
  <2>1. RowsOK' /\ Keeps(shelf, shelf', {})
    BY <1>3, InsertKeeps, RowTyped DEF Duplicate
  <2> QED BY <1>3, <2>1, PlainStep DEF Duplicate
<1>4. ASSUME NEW i \in Ids, DeleteShelf(i) PROVE ReviewInv'
  <2>1. RowsOK' /\ Keeps(shelf, shelf', {i})
    BY <1>4, DeleteKeeps DEF DeleteShelf
  <2>2. /\ tickets' = Killed(Showing(i)) /\ registry' = registry \ Showing(i)
        /\ Write /\ runtime' = runtime
    BY <1>4 DEF DeleteShelf, Invalidate, Write
  <2>3. /\ tickets' \in Seq(Plans) /\ DOMAIN tickets' = DOMAIN tickets
        /\ \A u \in DOMAIN tickets:
              IF u \in Showing(i) THEN ~tickets'[u].live ELSE tickets'[u] = tickets[u]
    BY <2>2, KilledTickets
  <2>4. TicketsOK'
    BY <2>1, <2>2, <2>3, DeletionKeeps
  <2> QED BY <2>1, <2>2, <2>4, WriteStep
<1>5. ASSUME NEW i \in Ids, Curate(i) PROVE ReviewInv'
  <2>1. PICK row \in Curations(shelf[i]): Change(i, row)
    BY <1>5 DEF Curate
  <2>2. Fits(shelf[i], row)
    BY <2>1, RowTyped, CurationFits
  <2>3. RowsOK' /\ Keeps(shelf, shelf', {})
    BY <2>1, <2>2, ChangeKeeps
  <2> QED BY <1>5, <2>3, PlainStep DEF Curate
<1>6. ASSUME NEW i \in Ids, NEW cs \in SUBSET Collections, AttachSources(i, cs) PROVE ReviewInv'
  <2> DEFINE row == [shelf[i] EXCEPT !.sources = @ \cup cs]
  <2>1. ~ cs \subseteq shelf[i].sources /\ Change(i, row)
    BY <1>6 DEF AttachSources
  <2>2. Fits(shelf[i], row)
    BY <2>1, RowTyped DEF Fits, ShelfRows, Manual
  <2> HIDE DEF row
  <2>3. RowsOK' /\ Keeps(shelf, shelf', {})
    BY <2>1, <2>2, ChangeKeeps
  <2> QED BY <1>6, <2>3, PlainStep DEF AttachSources
<1>7. ASSUME NEW c \in Collections, DeleteCollection(c) PROVE ReviewInv'
  <2>1. Commit(shelf, lives, collections \ {c}) /\ collections \ {c} \subseteq Collections
    BY <1>7 DEF DeleteCollection, RowsOK
  <2>2. RowsOK' /\ Keeps(shelf, shelf', {})
    BY <2>1, KeepsAll, CommitRows DEF RowsOK
  <2> QED BY <1>7, <2>2, PlainStep DEF DeleteCollection
<1> QED BY <1>1, <1>2, <1>3, <1>4, <1>5, <1>6, <1>7 DEF Unreviewed

(* The rows are read.                                                      *)
LEMMA LookStep ==
    ASSUME ReviewInv, NEW kind \in Kinds, NEW target \in Targets,
           NEW desired \in SUBSET Collections, NEW manual \in SUBSET Stories,
           Look(kind, target, desired, manual)
    PROVE  ReviewInv'
<1> DEFINE v == View(kind, target, desired)
<1>1. UNCHANGED <<rows, world, tickets, registry, runtime>>
  BY DEF Look
<1>2. kind \notin {"create", "delete"} => target \in Rows
  BY DEF Look
<1>3. v \in Views /\ Follows(v, shelf) /\ DOMAIN v.shelves = Shown(kind, target)
  BY <1>2, ViewFollows DEF ReviewInv
<1>4. reading' = [kind |-> kind, target |-> target, desired |-> desired,
                  manual |-> manual, seen |-> v]
  BY DEF Look
<1> HIDE DEF v
<1>5. kind = "create" => DOMAIN v.shelves = {}
  BY <1>3 DEF Shown
<1>6. /\ reading' \in Readings /\ Follows(reading'.seen, shelf)
      /\ reading'.kind = "create" => DOMAIN reading'.seen.shelves = {}
  BY <1>3, <1>4, <1>5 DEF Readings
<1>7. RowsOK' /\ WorldOK' /\ Keeps(shelf, shelf', {})
  BY <1>1, KeepsAll DEF ReviewInv, RowsOK, WorldOK, rows, world
<1>8. ReadingOK'
  BY <1>1, <1>6 DEF ReadingOK, rows
<1>9. TicketsOK'
  BY <1>1, <1>7, TicketsKept DEF ReviewInv
<1> QED BY <1>7, <1>8, <1>9 DEF ReviewInv

(* The ticket is issued: no transaction has come in between.               *)
LEMMA AnswerStep ==
    ASSUME ReviewInv, Answer
    PROVE  ReviewInv'
<1> DEFINE p == [kind |-> reading.kind, target |-> reading.target,
                 desired |-> reading.desired, manual |-> reading.manual,
                 seen |-> reading.seen, runtime |-> runtime,
                 live |-> TRUE, claims |-> 0]
           new == Len(tickets) + 1
<1>1. /\ UNCHANGED <<rows, world, runtime>> /\ reading' = NoReading
      /\ Issue(p)
  BY DEF Answer
<1>2. reading \in Readings /\ Follows(reading.seen, shelf)
  BY DEF Answer, ReviewInv, ReadingOK
<1>3. p \in Plans /\ p.kind \in Kinds /\ p.seen \in Views /\ p.seen = reading.seen
      /\ p.claims = 0 /\ p.runtime = runtime
  BY <1>2 DEF Readings, Plans, ReviewInv, TicketsOK
<1> HIDE DEF p
<1>4. /\ tickets' \in Seq(Plans) /\ DOMAIN tickets' = 1..new
      /\ DOMAIN tickets = 1..Len(tickets) /\ Len(tickets) \in Nat
      /\ registry' \subseteq DOMAIN tickets' /\ new \in registry'
      /\ tickets'[new] = p
      /\ \A u \in DOMAIN tickets:
           /\ tickets'[u].live => tickets'[u] = tickets[u]
           /\ tickets'[u].live /\ u \in registry => u \in registry'
  BY <1>1, <1>3, IssueTickets DEF ReviewInv
<1>5. shelf' = shelf /\ RowsOK' /\ WorldOK' /\ ReadingOK' /\ runtime' = runtime /\ runtime \in Nat
  BY <1>1 DEF ReviewInv, RowsOK, WorldOK, ReadingOK, TicketsOK, rows, world
<1>6. ASSUME NEW u \in DOMAIN tickets' PROVE TicketOK(u)'
  <2>1. CASE u = new
    BY <1>2, <1>3, <1>4, <1>5, <2>1 DEF TicketOK
  <2>2. CASE u # new
    <3>1. u \in DOMAIN tickets
      BY <1>4, <2>2
    <3>2. TicketOK(u)
      BY <3>1 DEF ReviewInv, TicketsOK
    <3> QED BY <1>4, <1>5, <3>1, <3>2 DEF TicketOK
  <2> QED BY <2>1, <2>2
<1>7. TicketsOK'
  BY <1>4, <1>5, <1>6 DEF TicketsOK
<1> QED BY <1>5, <1>7 DEF ReviewInv

(* The shelf of a fresh plan for one shelf exists.                         *)
LEMMA FreshTarget ==
    ASSUME ReviewInv, NEW t \in DOMAIN tickets, NEW kind \in {"update", "sources", "curation"},
           Admit(t, kind), Fresh(t)
    PROVE  tickets[t].target \in Ids /\ shelf[tickets[t].target] \in ShelfRows
             /\ Manual(shelf[tickets[t].target])
<1>1. tickets[t].kind = kind /\ tickets[t].live /\ SameRuntime(t)
  BY DEF Admit
<1>2. tickets[t].target \in Shown(kind, tickets[t].target)
  BY DEF Shown
<1>3. tickets[t].target \in Ids
  BY <1>1, <1>2, FreshIsSeen DEF ReviewInv
<1> QED BY <1>3, RowTyped DEF ReviewInv

LEMMA PlanTyped ==
    ASSUME ReviewInv, NEW t \in DOMAIN tickets
    PROVE  tickets[t] \in Plans
<1>1. tickets \in Seq(Plans) /\ DOMAIN tickets = 1..Len(tickets)
  BY SeqDomain DEF ReviewInv, TicketsOK
<1> QED BY <1>1

LEMMA UpdateStep ==
    ASSUME ReviewInv, NEW t \in DOMAIN tickets, ApplyUpdate(t)
    PROVE  RowsOK' /\ Keeps(shelf, shelf', {})
<1> DEFINE i == tickets[t].target
           row == shelf[i]
           New(add, drop, exclude, keep) ==
               [row EXCEPT !.members = (@ \cup add) \ drop,
                           !.kept = @ \cup keep,
                           !.excluded = @ \cup exclude \cup drop]
<1>1. i \in Ids /\ row \in ShelfRows /\ Manual(row)
  BY FreshTarget DEF ApplyUpdate
<1>2. PICK add \in SUBSET Additions(row), drop \in SUBSET Removals(row):
        \E exclude \in SUBSET (Additions(row) \ add), keep \in SUBSET (Removals(row) \ drop):
          Change(i, New(add, drop, exclude, keep))
  BY DEF ApplyUpdate
<1>3. PICK exclude \in SUBSET (Additions(row) \ add), keep \in SUBSET (Removals(row) \ drop):
        Change(i, New(add, drop, exclude, keep))
  BY <1>2
<1>4. Fits(row, New(add, drop, exclude, keep))
  <2> HIDE DEF row
  <2> QED BY <1>1, UpdateFits DEF ReviewInv
<1> HIDE DEF New
<1> QED BY <1>1, <1>3, <1>4, ChangeKeeps DEF ReviewInv

LEMMA SourcesStep ==
    ASSUME ReviewInv, NEW t \in DOMAIN tickets, ApplySources(t)
    PROVE  RowsOK' /\ Keeps(shelf, shelf', {})
<1> DEFINE i == tickets[t].target
           desired == tickets[t].desired
<1>1. i \in Ids /\ shelf[i] \in ShelfRows /\ Manual(shelf[i])
  BY FreshTarget DEF ApplySources
<1>2. PICK drop \in SUBSET Removable(shelf[i], desired): Change(i, Detached(shelf[i], desired,
   drop))
  BY DEF ApplySources
<1>3. desired \in SUBSET Collections
  BY PlanTyped DEF Plans
<1> HIDE DEF i, desired
<1>4. Fits(shelf[i], Detached(shelf[i], desired, drop))
  BY <1>1, <1>3, DetachedFits DEF ReviewInv
<1> QED BY <1>1, <1>2, <1>4, ChangeKeeps DEF ReviewInv

LEMMA DeleteCollectionStep ==
    ASSUME ReviewInv, NEW t \in DOMAIN tickets, ApplyDeleteCollection(t)
    PROVE  RowsOK' /\ Keeps(shelf, shelf', {})
<1> DEFINE c == tickets[t].target
           L == Linked(c)
<1>1. PICK drop \in [L -> SUBSET Stories]:
        /\ \A i \in L: drop[i] \subseteq Removable(shelf[i], shelf[i].sources \ {c})
        /\ Commit([i \in Ids |->
                     IF i \in L
                     THEN Bumped(shelf[i], Detached(shelf[i], shelf[i].sources \ {c}, drop[i]))
                     ELSE shelf[i]],
                  lives, collections \ {c})
  BY DEF ApplyDeleteCollection
<1>2. L \in SUBSET Ids
  BY DEF Linked, Rows
<1> HIDE DEF c, L
<1> QED BY <1>1, <1>2, DetachKeeps DEF ReviewInv

LEMMA CreateStep ==
    ASSUME ReviewInv, NEW t \in DOMAIN tickets, ApplyCreate(t)
    PROVE  RowsOK' /\ Keeps(shelf, shelf', {})
<1> DEFINE manual == tickets[t].manual
           desired == tickets[t].desired
           New(chosen) == [NoShelf EXCEPT !.members = chosen,
                                          !.kept = chosen \cap manual,
                                          !.sources = desired]
<1>1. PICK chosen \in SUBSET (manual \cup Matching(desired)): Insert(New(chosen))
  BY DEF ApplyCreate
<1>2. desired \in SUBSET Collections /\ manual \in SUBSET Stories
  BY PlanTyped DEF Plans
<1>3. New(chosen) \in ShelfRows /\ Manual(New(chosen))
  <2> HIDE DEF manual, desired
  <2> QED BY <1>2, CreatedFine DEF ReviewInv
<1> HIDE DEF New
<1> QED BY <1>1, <1>3, InsertKeeps DEF ReviewInv

LEMMA CurationStep ==
    ASSUME ReviewInv, NEW t \in DOMAIN tickets, ApplyCuration(t)
    PROVE  RowsOK' /\ Keeps(shelf, shelf', {})
<1> DEFINE i == tickets[t].target
<1>1. i \in Ids /\ shelf[i] \in ShelfRows /\ Manual(shelf[i])
  BY FreshTarget DEF ApplyCuration
<1>2. PICK row \in Curations(shelf[i]): Change(i, row)
  BY DEF ApplyCuration
<1> HIDE DEF i
<1>3. Fits(shelf[i], row)
  BY <1>1, <1>2, CurationFits DEF ReviewInv
<1> QED BY <1>1, <1>2, <1>3, ChangeKeeps DEF ReviewInv

LEMMA DuplicateStep ==
    ASSUME ReviewInv, NEW t \in DOMAIN tickets, ApplyDuplicate(t)
    PROVE  RowsOK' /\ Keeps(shelf, shelf', {})
<1> DEFINE row == shelf[tickets[t].target]
<1>1. row \in ShelfRows /\ Manual(row)
  BY FreshTarget DEF ApplyDuplicate
<1>2. Insert(row)
  BY DEF ApplyDuplicate
<1> HIDE DEF row
<1> QED BY <1>1, <1>2, InsertKeeps DEF ReviewInv

(* delete_shelf_reviewed spends its ticket and kills the others.           *)
LEMMA DeleteTickets ==
    ASSUME ReviewInv, NEW t \in DOMAIN tickets, NEW i,
           tickets' = [Killed(Showing(i)) EXCEPT ![t] = Spent(tickets[t])]
    PROVE  /\ tickets' \in Seq(Plans) /\ DOMAIN tickets' = DOMAIN tickets
           /\ \A u \in DOMAIN tickets:
                /\ IF u \in Showing(i) \cup {t} THEN ~tickets'[u].live ELSE tickets'[u] = tickets[u]
                /\ u # t => tickets'[u].claims = tickets[u].claims
<1> DEFINE k == Killed(Showing(i))
           e == Spent(tickets[t])
<1>1. e \in Plans /\ ~e.live
  BY PlanTyped, DeadTyped, ShelfAssumption
<1>2. /\ k \in Seq(Plans) /\ DOMAIN k = DOMAIN tickets /\ Len(k) = Len(tickets)
      /\ \A u \in DOMAIN tickets:
           /\ u \in Showing(i) => ~k[u].live
           /\ u \notin Showing(i) => k[u] = tickets[u]
           /\ k[u].claims = tickets[u].claims
  BY KilledTickets DEF ReviewInv
<1>3. tickets' = [k EXCEPT ![t] = e]
  OBVIOUS
<1> HIDE DEF k, e
<1>4. tickets' \in Seq(Plans) /\ DOMAIN tickets' = DOMAIN tickets
  <2>1. t \in 1..Len(k)
    BY <1>2, SeqDomain
  <2>2. k \in Seq(Plans) /\ e \in Plans
    BY <1>1, <1>2
  <2>3. [k EXCEPT ![t] = e] \in Seq(Plans)
    BY <2>1, <2>2, ExceptSeq, Zenon
  <2> QED BY <1>2, <1>3, <2>3
<1>5. tickets'[t] = e /\ \A u \in DOMAIN tickets \ {t}: tickets'[u] = k[u]
  BY <1>2, <1>3
<1> QED BY <1>1, <1>2, <1>4, <1>5

LEMMA DeleteStep ==
    ASSUME ReviewInv, NEW t \in DOMAIN tickets, ApplyDelete(t)
    PROVE  ReviewInv'
<1> DEFINE i == tickets[t].target
<1>1. i \in Ids
  BY FreshTarget DEF ApplyDelete
<1>2. /\ Commit(Put(i, NoShelf), lives, collections)
      /\ tickets' = [Killed(Showing(i)) EXCEPT ![t] = Spent(tickets[t])]
      /\ registry' = registry \ Showing(i)
      /\ Write /\ runtime' = runtime
  BY DEF ApplyDelete, Admit, Write
<1> HIDE DEF i
<1>3. RowsOK' /\ Keeps(shelf, shelf', {i})
  BY <1>1, <1>2, DeleteKeeps DEF ReviewInv
<1>4. /\ tickets' \in Seq(Plans) /\ DOMAIN tickets' = DOMAIN tickets
      /\ \A u \in DOMAIN tickets:
           IF u \in Showing(i) \cup {t} THEN ~tickets'[u].live ELSE tickets'[u] = tickets[u]
  BY <1>2, DeleteTickets
<1>5. TicketsOK'
  <2> DEFINE ts == Showing(i) \cup {t}
  <2>1. Showing(i) \subseteq ts
    OBVIOUS
  <2>2. \A u \in DOMAIN tickets: IF u \in ts THEN ~tickets'[u].live ELSE tickets'[u] = tickets[u]
    BY <1>4, Zenon
  <2> HIDE DEF ts
  <2> QED BY <1>1, <1>2, <1>3, <1>4, <2>1, <2>2, DeletionKeeps DEF ReviewInv
<1> QED BY <1>2, <1>3, <1>5, WriteStep

(* The changes that are made to the rows by a plan, but for the deletion.  *)
Applies(t) ==
    \/ ApplyUpdate(t) \/ ApplySources(t) \/ ApplyDeleteCollection(t)
    \/ ApplyCreate(t) \/ ApplyCuration(t) \/ ApplyDuplicate(t)

LEMMA AppliesOnce ==
    ASSUME NEW t, Applies(t)
    PROVE  /\ Claim(t) /\ registry' = registry /\ Write
           /\ tickets[t].live /\ SameRuntime(t) /\ Fresh(t)
<1> USE DEF Admit
<1>1. CASE ApplyUpdate(t)
  BY <1>1, Zenon DEF ApplyUpdate
<1>2. CASE ApplySources(t)
  BY <1>2, Zenon DEF ApplySources
<1>3. CASE ApplyDeleteCollection(t)
  BY <1>3, Zenon DEF ApplyDeleteCollection
<1>4. CASE ApplyCreate(t)
  BY <1>4, Zenon DEF ApplyCreate
<1>5. CASE ApplyCuration(t) \/ ApplyDuplicate(t)
  BY <1>5, Zenon DEF ApplyCuration, ApplyDuplicate
<1> QED BY <1>1, <1>2, <1>3, <1>4, <1>5 DEF Applies

LEMMA ReviewedStep ==
    ASSUME ReviewInv, NEW t \in DOMAIN tickets, Refuse(t) \/ Applies(t) \/ ApplyDelete(t)
    PROVE  ReviewInv'
<1>1. ASSUME Write, Claim(t), registry' = registry, RowsOK', Keeps(shelf, shelf', {})
      PROVE  ReviewInv'
  <2>1. UNCHANGED <<registry, runtime>>
    BY <1>1 DEF Write
  <2>2. TicketsOK'
    BY <1>1, <2>1, ClaimKeeps DEF ReviewInv
  <2> QED BY <1>1, <2>2, WriteStep
<1>2. CASE Refuse(t)
  <2>1. Write /\ Claim(t) /\ registry' = registry /\ UNCHANGED rows
    BY <1>2 DEF Refuse, Admit
  <2>2. RowsOK' /\ Keeps(shelf, shelf', {})
    BY <2>1, KeepsAll DEF ReviewInv, RowsOK, rows
  <2> QED BY <1>1, <2>1, <2>2
<1>3. CASE Applies(t)
  <2>1. RowsOK' /\ Keeps(shelf, shelf', {})
    BY <1>3, UpdateStep, SourcesStep, DeleteCollectionStep, CreateStep, CurationStep, DuplicateStep
       DEF Applies
  <2> QED BY <1>1, <1>3, <2>1, AppliesOnce
<1> QED BY <1>2, <1>3, DeleteStep

LEMMA ElsewhereStep ==
    ASSUME ReviewInv, Elsewhere
    PROVE  ReviewInv'
<1>1. /\ UNCHANGED <<rows, reviews, runtime>>
      /\ \/ /\ \E c \in collections, s \in Stories:
                 matches' = [matches EXCEPT ![c] = IF s \in @ THEN @ \ {s} ELSE @ \cup {s}]
            /\ available' = available
         \/ matches' = matches /\ available' = available
         \/ /\ \E s \in Stories: available' = IF s \in available THEN available \ {s}
                                                                ELSE available \cup {s}
            /\ matches' = matches
  BY DEF Elsewhere
<1>2. WorldOK'
  BY <1>1 DEF ReviewInv, RowsOK, WorldOK
<1>3. RowsOK' /\ ReadingOK' /\ TicketsOK'
  BY <1>1 DEF ReviewInv, RowsOK, ReadingOK, TicketsOK, TicketOK, rows, reviews
<1> QED BY <1>2, <1>3 DEF ReviewInv

(* Another runtime accepts none of the tickets there are.                  *)
LEMMA ReopenStep ==
    ASSUME ReviewInv, Reopen
    PROVE  ReviewInv'
<1>1. UNCHANGED <<rows, world, tickets, reading>> /\ registry' = {} /\ runtime' = runtime + 1
  BY DEF Reopen
<1>2. RowsOK' /\ WorldOK' /\ ReadingOK'
  BY <1>1 DEF ReviewInv, RowsOK, WorldOK, ReadingOK, rows, world
<1>3. ASSUME NEW t \in DOMAIN tickets PROVE TicketOK(t)'
  <2>1. TicketOK(t) /\ runtime \in Nat /\ tickets[t].runtime \in Nat
    BY PlanTyped DEF ReviewInv, TicketsOK, Plans
  <2> QED BY <1>1, <2>1 DEF TicketOK
<1>4. TicketsOK'
  BY <1>1, <1>3 DEF ReviewInv, TicketsOK
<1> QED BY <1>2, <1>4 DEF ReviewInv

LEMMA UnchangedStep ==
    ASSUME ReviewInv, UNCHANGED <<rows, world, tickets, registry, reading, runtime>>
    PROVE  ReviewInv'
BY DEF ReviewInv, RowsOK, WorldOK, ReadingOK, TicketsOK, TicketOK, rows, world

(* The shelf that was just created from a review keeps to the invariant.   *)
LEMMA ReviewAtStart == ShelfInit => ReviewInv
<1> SUFFICES ASSUME ShelfInit PROVE ReviewInv
  OBVIOUS
<1>1. matches \in [Collections -> SUBSET Stories] /\ available = Stories
  BY DEF ShelfInit
<1>2. WorldOK
  BY <1>1 DEF WorldOK
<1>3. PICK chosen \in SUBSET Matching(Collections):
        shelf = [i \in Ids |-> IF i # 1 THEN NoShelf
                               ELSE [NewShelf(1) EXCEPT !.members = chosen,
                                                        !.sources = Collections]]
  BY DEF ShelfInit
<1>4. Matching(Collections) \in SUBSET Stories
  BY <1>2, MatchingTyped
<1>5. Collections = {} => chosen = {}
  BY <1>3, MatchingNothing
<1> DEFINE first == [NewShelf(1) EXCEPT !.members = chosen, !.sources = Collections]
<1>6. first \in ShelfRows /\ Manual(first) /\ first.life = 1
  BY <1>4, <1>5 DEF NewShelf, NoShelf, ShelfRows, Manual
<1> HIDE DEF first
<1>7. shelf = [i \in Ids |-> IF i # 1 THEN NoShelf ELSE first]
  BY <1>3 DEF first
<1>8. RowsOK
  <2>1. shelf \in [Ids -> ShelfRows] /\ \A i \in Ids: shelf[i].life <= 1 /\ Manual(shelf[i])
    BY <1>6, <1>7, NoShelfFine
  <2> QED BY <2>1 DEF ShelfInit, RowsOK, RowsFine
<1>9. ReadingOK /\ TicketsOK
  BY DEF ShelfInit, ReadingOK, TicketsOK
<1> QED BY <1>2, <1>8, <1>9 DEF ReviewInv

LEMMA ReviewKept == ReviewInv /\ [ShelfNext]_shelfVars => ReviewInv'
<1> SUFFICES ASSUME ReviewInv, [ShelfNext]_shelfVars PROVE ReviewInv'
  OBVIOUS
<1>1. CASE Unreviewed
  BY <1>1, UnreviewedStep
<1>2. CASE Preview
  BY <1>2, LookStep, AnswerStep DEF Preview, Targets
<1>3. CASE Reviewed
  BY <1>3, ReviewedStep DEF Reviewed, Applies
<1>4. CASE Elsewhere
  BY <1>4, ElsewhereStep
<1>5. CASE Expire
  BY <1>5, UnchangedStep DEF Expire
<1>6. CASE Reopen
  BY <1>6, ReopenStep
<1>7. CASE UNCHANGED shelfVars
  BY <1>7, UnchangedStep DEF shelfVars, reviews
<1> QED BY <1>1, <1>2, <1>3, <1>4, <1>5, <1>6, <1>7 DEF ShelfNext
-----------------------------------------------------------------------------
(* Who spends a ticket                                                     *)

LEMMA OnlyReviewsSpend ==
    ASSUME ReviewInv, [ShelfNext]_shelfVars, NEW t \in DOMAIN tickets, Spends(t)
    PROVE  Refuse(t) \/ Applies(t) \/ ApplyDelete(t)
<1> USE DEF ReviewInv
<1>0. tickets[t].claims \in Nat
  BY PlanTyped DEF Plans
<1>1. ASSUME tickets'[t].claims = tickets[t].claims PROVE FALSE
  BY <1>0, <1>1 DEF Spends
<1>2. CASE Unreviewed
  <2>1. CASE tickets' = tickets
    BY <1>1, <2>1
  <2>2. ASSUME NEW i \in Ids, DeleteShelf(i) PROVE FALSE
    <3>1. tickets' = Killed(Showing(i))
      BY <2>2 DEF DeleteShelf, Invalidate
    <3>2. tickets'[t].claims = tickets[t].claims
      BY <3>1, KilledTickets
    <3> QED BY <1>1, <3>2
  <2> QED BY <1>2, <2>1, <2>2
          DEF Unreviewed, CreateShelf, Touch, Duplicate, Curate, AttachSources, DeleteCollection
<1>3. CASE Preview
  <2>1. CASE tickets' = tickets
    BY <1>1, <2>1
  <2>2. CASE Answer
    <3> DEFINE p == [kind |-> reading.kind, target |-> reading.target,
                     desired |-> reading.desired, manual |-> reading.manual,
                     seen |-> reading.seen, runtime |-> runtime,
                     live |-> TRUE, claims |-> 0]
    <3>1. Issue(p) /\ reading \in Readings
      BY <2>2 DEF Answer, ReadingOK
    <3>2. p \in Plans
      BY <3>1 DEF Readings, Plans, TicketsOK
    <3> HIDE DEF p
    <3>3. tickets'[t].claims = tickets[t].claims
      BY <3>1, <3>2, IssueTickets
    <3> QED BY <1>1, <3>3
  <2> QED BY <1>3, <2>1, <2>2 DEF Preview, Look
<1>4. CASE Reviewed
  <2>1. PICK u \in DOMAIN tickets: Refuse(u) \/ Applies(u) \/ ApplyDelete(u)
    BY <1>4 DEF Reviewed, Applies
  <2>2. ASSUME u # t PROVE FALSE
    <3>1. CASE Refuse(u) \/ Applies(u)
      <4>1. Claim(u)
        BY <3>1, AppliesOnce DEF Refuse
      <4>2. tickets'[t] = tickets[t]
        BY <2>2, <4>1, ClaimTickets
      <4> QED BY <1>1, <4>2
    <3>2. CASE ApplyDelete(u)
      <4> DEFINE i == tickets[u].target
      <4>1. tickets' = [Killed(Showing(i)) EXCEPT ![u] = Spent(tickets[u])]
        BY <3>2 DEF ApplyDelete
      <4> HIDE DEF i
      <4>2. tickets'[t].claims = tickets[t].claims
        BY <2>2, <4>1, DeleteTickets
      <4> QED BY <1>1, <4>2
    <3> QED BY <2>1, <3>1, <3>2
  <2> QED BY <2>1, <2>2
<1>5. CASE Elsewhere \/ Expire \/ Reopen \/ UNCHANGED shelfVars
  <2>1. tickets' = tickets
    BY <1>5 DEF Elsewhere, Expire, Reopen, shelfVars, reviews
  <2> QED BY <1>1, <2>1
<1> QED BY <1>2, <1>3, <1>4, <1>5 DEF ShelfNext

-----------------------------------------------------------------------------
(* What a review takes off a shelf                                         *)

(* The members that go were away from every source that can be evaluated,  *)
(* and nobody's choice.                                                    *)
Seemly(i) ==
    LET gone == shelf[i].members \ shelf'[i].members
    IN gone # {} =>
         /\ gone \subseteq available \ shelf[i].kept
         /\ gone \cap Matching(shelf'[i].sources) = {}
         /\ ~ Incomplete(shelf'[i].sources)

LEMMA BumpedSame ==
    ASSUME NEW r \in ShelfRows, NEW row, Fits(r, row)
    PROVE  Bumped(r, row).members = row.members /\ Bumped(r, row).sources = row.sources
BY DEF Fits, Bumped, ShelfRows

(* A change of one row, whatever became of the transaction.                *)
LEMMA ChangedRow ==
    ASSUME RowsOK, NEW i \in Ids, NEW j \in Ids, NEW row, Fits(shelf[j], row), Change(j, row)
    PROVE  \/ shelf'[i] = shelf[i]
           \/ i = j /\ shelf'[i].members = row.members /\ shelf'[i].sources = row.sources
<1>1. CASE shelf' = shelf
  BY <1>1
<1>2. CASE shelf' = [shelf EXCEPT ![j] = Bumped(shelf[j], row)]
  <2>1. shelf[j] \in ShelfRows /\ shelf \in [Ids -> ShelfRows]
    BY DEF RowsOK, RowsFine
  <2>2. Bumped(shelf[j], row).members = row.members /\ Bumped(shelf[j], row).sources = row.sources
    BY <2>1, BumpedSame
  <2>3. shelf'[i] = IF i = j THEN Bumped(shelf[j], row) ELSE shelf[i]
    BY <1>2, <2>1
  <2> QED BY <2>2, <2>3
<1> QED BY <1>1, <1>2 DEF Change, Commit, Put, rows

LEMMA SameRowIsSeemly ==
    ASSUME NEW i, shelf'[i] = shelf[i]
    PROVE  Seemly(i)
BY DEF Seemly

(* What source_change::apply drops is affected, available and not kept.    *)
LEMMA DetachedIsSeemly ==
    ASSUME NEW i, NEW desired, NEW drop \in SUBSET Removable(shelf[i], desired),
           shelf'[i].members = shelf[i].members \ drop, shelf'[i].sources = desired
    PROVE  Seemly(i)
BY DEF Seemly, Removable, Affected

LEMMA DetachedFields ==
    ASSUME NEW r \in ShelfRows, NEW desired, NEW drop
    PROVE  /\ Detached(r, desired, drop).members = r.members \ drop
           /\ Detached(r, desired, drop).sources = desired
BY DEF Detached, ShelfRows

LEMMA UpdateIsSeemly ==
    ASSUME ReviewInv, NEW t \in DOMAIN tickets, ApplyUpdate(t), NEW i \in Ids
    PROVE  Seemly(i)
<1> DEFINE j == tickets[t].target
           row == shelf[j]
           New(add, drop, exclude, keep) ==
               [row EXCEPT !.members = (@ \cup add) \ drop,
                           !.kept = @ \cup keep,
                           !.excluded = @ \cup exclude \cup drop]
<1>1. j \in Ids /\ row \in ShelfRows /\ Manual(row)
  BY FreshTarget DEF ApplyUpdate
<1>2. PICK add \in SUBSET Additions(row), drop \in SUBSET Removals(row):
        \E exclude \in SUBSET (Additions(row) \ add), keep \in SUBSET (Removals(row) \ drop):
          Change(j, New(add, drop, exclude, keep))
  BY DEF ApplyUpdate
<1>3. PICK exclude \in SUBSET (Additions(row) \ add), keep \in SUBSET (Removals(row) \ drop):
        Change(j, New(add, drop, exclude, keep))
  BY <1>2
<1>4. Fits(row, New(add, drop, exclude, keep))
  <2> HIDE DEF row
  <2> QED BY <1>1, UpdateFits DEF ReviewInv
<1> DEFINE new == New(add, drop, exclude, keep)
<1>5. new.members = (row.members \cup add) \ drop /\ new.sources = row.sources
  BY <1>1 DEF ShelfRows
<1> HIDE DEF new
<1>6. \/ shelf'[i] = shelf[i]
      \/ i = j /\ shelf'[i].members = new.members /\ shelf'[i].sources = new.sources
  BY <1>1, <1>3, <1>4, ChangedRow DEF ReviewInv, new
<1>7. ASSUME i = j, shelf'[i].members = new.members, shelf'[i].sources = new.sources
      PROVE  Seemly(i)
  <2>1. shelf[i].members \ shelf'[i].members \subseteq drop /\ shelf'[i].sources = row.sources
    BY <1>5, <1>7
  <2> QED BY <1>7, <2>1 DEF Seemly, Removals
<1> QED BY <1>6, <1>7, SameRowIsSeemly

LEMMA SourcesIsSeemly ==
    ASSUME ReviewInv, NEW t \in DOMAIN tickets, ApplySources(t), NEW i \in Ids
    PROVE  Seemly(i)
<1> DEFINE j == tickets[t].target
           desired == tickets[t].desired
<1>1. j \in Ids /\ shelf[j] \in ShelfRows
  BY FreshTarget DEF ApplySources
<1>2. PICK drop \in SUBSET Removable(shelf[j], desired): Change(j, Detached(shelf[j], desired,
   drop))
  BY DEF ApplySources
<1>3. desired \in SUBSET Collections
  BY PlanTyped DEF Plans
<1> HIDE DEF j, desired
<1>4. Fits(shelf[j], Detached(shelf[j], desired, drop))
  BY <1>1, <1>3, DetachedFits DEF ReviewInv
<1>5. \/ shelf'[i] = shelf[i]
      \/ /\ i = j /\ shelf'[i].members = shelf[i].members \ drop
         /\ shelf'[i].sources = desired
  BY <1>1, <1>2, <1>4, ChangedRow, DetachedFields DEF ReviewInv
<1> QED BY <1>2, <1>5, SameRowIsSeemly, DetachedIsSeemly

LEMMA DeleteCollectionIsSeemly ==
    ASSUME ReviewInv, NEW t \in DOMAIN tickets, ApplyDeleteCollection(t), NEW i \in Ids
    PROVE  Seemly(i)
<1> DEFINE c == tickets[t].target
           L == Linked(c)
           left == shelf[i].sources \ {c}
<1>1. PICK drop \in [L -> SUBSET Stories]:
        /\ \A k \in L: drop[k] \subseteq Removable(shelf[k], shelf[k].sources \ {c})
        /\ Commit([k \in Ids |->
                     IF k \in L
                     THEN Bumped(shelf[k], Detached(shelf[k], shelf[k].sources \ {c}, drop[k]))
                     ELSE shelf[k]],
                  lives, collections \ {c})
  BY DEF ApplyDeleteCollection
<1> HIDE DEF c, L
<1> DEFINE new == Detached(shelf[i], left, drop[i])
<1>2. \/ shelf'[i] = shelf[i]
      \/ i \in L /\ shelf'[i] = Bumped(shelf[i], new)
  BY <1>1 DEF Commit, rows
<1>3. ASSUME i \in L, shelf'[i] = Bumped(shelf[i], new) PROVE Seemly(i)
  <2>1. shelf[i] \in ShelfRows /\ left \in SUBSET Collections
    BY RowTyped DEF ReviewInv, ShelfRows
  <2>2. drop[i] \in SUBSET Removable(shelf[i], left)
    BY <1>1, <1>3
  <2> HIDE DEF left
  <2>3. Fits(shelf[i], new)
    BY <2>1, <2>2, DetachedFits DEF ReviewInv
  <2>4. new.members = shelf[i].members \ drop[i] /\ new.sources = left
    BY <2>1, DetachedFields
  <2> HIDE DEF new
  <2>5. shelf'[i].members = shelf[i].members \ drop[i] /\ shelf'[i].sources = left
    BY <1>3, <2>1, <2>3, <2>4, BumpedSame
  <2> QED BY <2>2, <2>5, DetachedIsSeemly
<1> QED BY <1>2, <1>3, SameRowIsSeemly

(* The new row of create_shelf_reviewed has a lifetime of its own.         *)
LEMMA CreateIsSeemly ==
    ASSUME ReviewInv, NEW t \in DOMAIN tickets, ApplyCreate(t), NEW i \in Ids,
           shelf'[i].life = shelf[i].life
    PROVE  Seemly(i)
<1> DEFINE manual == tickets[t].manual
           desired == tickets[t].desired
           New(chosen) == [NoShelf EXCEPT !.members = chosen,
                                          !.kept = chosen \cap manual,
                                          !.sources = desired]
<1>1. PICK chosen \in SUBSET (manual \cup Matching(desired)): Insert(New(chosen))
  BY DEF ApplyCreate
<1>2. desired \in SUBSET Collections /\ manual \in SUBSET Stories
  BY PlanTyped DEF Plans
<1>3. New(chosen) \in ShelfRows
  <2> HIDE DEF manual, desired
  <2> QED BY <1>2, CreatedFine DEF ReviewInv
<1> DEFINE row == New(chosen)
           part == [row EXCEPT !.life = lives + 1]
           new == [row EXCEPT !.life = lives + 1, !.revision = 1]
<1> HIDE DEF New, row
<1>4. new.life = lives + 1
  <2>1. part \in [DOMAIN row -> {part[f]: f \in DOMAIN row}] /\ part.life = lives + 1
    BY <1>3 DEF row, ShelfRows
  <2>2. new = [part EXCEPT !.revision = 1]
    OBVIOUS
  <2> HIDE DEF new, part
  <2> QED BY <2>1, <2>2
<1>5. shelf' = shelf \/ shelf' = [shelf EXCEPT ![NextId] = new]
  BY <1>1 DEF Insert, Commit, Put, rows, row
<1> HIDE DEF new
<1>6. shelf'[i] = shelf[i] \/ shelf'[i] = new
  BY <1>5 DEF ReviewInv, RowsOK, RowsFine
<1>7. shelf[i].life <= lives /\ lives \in Nat /\ shelf[i].life \in Nat
  BY RowTyped DEF ReviewInv, RowsOK, RowsFine, ShelfRows
<1> QED BY <1>4, <1>6, <1>7, SameRowIsSeemly

-----------------------------------------------------------------------------
(* Theorems                                                                *)

(* The inductive invariant of shelves and tickets: every ticket that a     *)
(* claim could accept is in the registry, so that tickets::invalidate_shelf*)
(* finds it, and the rows it shows are still of the shelves it was made of.*)
THEOREM ReviewsInductive == ShelfSpec => []ReviewInv
BY ReviewAtStart, ReviewKept, PTL DEF ShelfSpec

(* Whatever changes a shelf, with and without a review, a shelf without    *)
(* sources keeps all its members (source_change::apply, review, curation). *)
THEOREM ManualShelvesAreKept == ShelfSpec => []ManualShelfIsKept
<1>1. ReviewInv => ManualShelfIsKept
  BY DEF ReviewInv, RowsOK, RowsFine, Manual, ManualShelfIsKept
<1> QED BY <1>1, ReviewsInductive, PTL

(* A reviewed change is made once, to the very shelves that were reviewed  *)
(* and to the rows as they were shown, although neither the fingerprint    *)
(* nor the revision tells two shelves of one number apart.                 *)
THEOREM ChangesAreReviewed == ShelfSpec => ActsOnReview
<1> DEFINE A == \A t \in DOMAIN tickets:
                  Spends(t) /\ rows' # rows =>
                     /\ tickets[t].claims = 0
                     /\ Now(t).shelves = tickets[t].seen.shelves
                     /\ tickets[t].kind # "curation" => Now(t) = tickets[t].seen
<1>1. ReviewInv /\ [ShelfNext]_shelfVars => [A]_shelfVars
  <2> SUFFICES ASSUME ReviewInv, [ShelfNext]_shelfVars, NEW t \in DOMAIN tickets, Spends(t), rows' # rows
               PROVE  /\ tickets[t].claims = 0
                      /\ Now(t).shelves = tickets[t].seen.shelves
                      /\ tickets[t].kind # "curation" => Now(t) = tickets[t].seen
    OBVIOUS
  <2>1. Applies(t) \/ ApplyDelete(t)
    BY OnlyReviewsSpend DEF Refuse
  <2>2. tickets[t].live /\ SameRuntime(t) /\ Fresh(t)
    BY <2>1, AppliesOnce DEF ApplyDelete, Admit
  <2>3. tickets[t].claims = 0
    BY <2>2 DEF ReviewInv, TicketsOK, TicketOK
  <2> QED BY <2>2, <2>3, FreshIsSeen DEF ReviewInv
<1> QED BY <1>1, ReviewsInductive, PTL DEF ShelfSpec, ActsOnReview

(* No review takes a member off a shelf that is kept, away, still selected *)
(* by a source, or while a source cannot be evaluated (review::evaluation, *)
(* source_change::validate).                                               *)
THEOREM RemovalsAreSeemly == ShelfSpec => NoBlindRemoval
<1> DEFINE A == \A t \in DOMAIN tickets, i \in Ids:
                  Spends(t) /\ tickets[t].kind # "curation" /\ shelf'[i].life = shelf[i].life =>
                     LET gone == shelf[i].members \ shelf'[i].members
                     IN gone # {} =>
                          /\ gone \subseteq available \ shelf[i].kept
                          /\ gone \cap Matching(shelf'[i].sources) = {}
                          /\ ~ Incomplete(shelf'[i].sources)
<1>1. ReviewInv /\ [ShelfNext]_shelfVars => [A]_shelfVars
  <2> SUFFICES ASSUME ReviewInv, [ShelfNext]_shelfVars, NEW t \in DOMAIN tickets, NEW i \in Ids,
                      Spends(t), tickets[t].kind # "curation", shelf'[i].life = shelf[i].life
               PROVE  Seemly(i)
    BY DEF Seemly
  <2>1. Refuse(t) \/ Applies(t) \/ ApplyDelete(t)
    BY OnlyReviewsSpend
  <2>2. ~ApplyCuration(t) /\ ~ApplyDuplicate(t) /\ ~ApplyDelete(t)
    BY DEF ApplyCuration, ApplyDuplicate, ApplyDelete, Admit
  <2>3. CASE Refuse(t)
    BY <2>3, SameRowIsSeemly DEF Refuse, rows
  <2>4. CASE ApplyUpdate(t) \/ ApplySources(t) \/ ApplyDeleteCollection(t) \/ ApplyCreate(t)
    BY <2>4, UpdateIsSeemly, SourcesIsSeemly, DeleteCollectionIsSeemly, CreateIsSeemly
  <2> QED BY <2>1, <2>2, <2>3, <2>4 DEF Applies
<1> QED BY <1>1, ReviewsInductive, PTL DEF ShelfSpec, NoBlindRemoval
=============================================================================
