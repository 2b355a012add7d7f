--------------------------- MODULE LifecycleGate ---------------------------
(***************************************************************************)
(* crates/librairii-app/src/lifecycle.rs: admission of library commands    *)
(* (LibraryUse) and the exclusive owner of a library switch (Switch).      *)
(*                                                                         *)
(* A client thread holds at most one LibraryUse; a switcher thread is at   *)
(* one point of begin_switch, or owns the Switch it returned.  The mutex   *)
(* makes every action here one critical section of the code; what the code *)
(* does between two lock() calls is interleaved with everyone else.        *)
(***************************************************************************)
EXTENDS Integers, FiniteSets

CONSTANTS
    Clients,         \* threads that may hold a LibraryUse
    Switchers,       \* threads that may call begin_switch / begin_recovery
    MaxGeneration    \* bound: how many activations one run may see

ASSUME ClientsAssumption == IsFiniteSet(Clients)
ASSUME GenerationAssumption == MaxGeneration \in Nat

VARIABLES
    phase,        \* State.phase
    uses,         \* State.uses
    mutators,     \* State.mutators
    generation,   \* State.generation: the n-th Arc allocated, never reused
                  \* while a clone of it is alive
    held,         \* the LibraryUse each client owns, or NoUse
    pc            \* where each switcher is

vars == <<phase, uses, mutators, generation, held, pc>>

Phases == {"active", "draining", "recovery"}

NoUse == [kind |-> "none", gen |-> 0]

Uses == {NoUse} \cup [kind: {"reader", "mutator"}, gen: 0..MaxGeneration]

(* "first"/"second": the operations_idle() calls before and after the      *)
(* drain; "drain": about to test uses; "wait": blocked on the condition    *)
(* variable; "held": owns the Switch.                                      *)
SwitchPoints == {"out", "first", "drain", "wait", "second", "held"}

Owning == SwitchPoints \ {"out"}

Init ==
    /\ phase = "active"
    /\ uses = 0
    /\ mutators = 0
    /\ generation = 0
    /\ held = [c \in Clients |-> NoUse]
    /\ pc = [s \in Switchers |-> "out"]

----------------------------------------------------------------------------
(* Clients.                                                                *)

(* enter_kind: intake is open in the active phase only.                    *)
Enter(c, kind) ==
    /\ held[c] = NoUse
    /\ phase = "active"
    /\ uses' = uses + 1
    /\ mutators' = mutators + (IF kind = "mutator" THEN 1 ELSE 0)
    /\ held' = [held EXCEPT ![c] = [kind |-> kind, gen |-> generation]]
    /\ UNCHANGED <<phase, generation, pc>>

SaturatingSub(m, n) == IF m >= n THEN m - n ELSE 0

(* notify_all on `drained': every blocked switcher tests `uses' again.     *)
Notified == [s \in Switchers |-> IF pc[s] = "wait" THEN "drain" ELSE pc[s]]

(* Drop for LibraryUse.                                                    *)
DropUse(c) ==
    /\ held[c] # NoUse
    /\ uses' = SaturatingSub(uses, 1)
    /\ mutators' = SaturatingSub(mutators, IF held[c].kind = "mutator" THEN 1 ELSE 0)
    /\ held' = [held EXCEPT ![c] = NoUse]
    /\ pc' = Notified
    /\ UNCHANGED <<phase, generation>>

----------------------------------------------------------------------------
(* Switchers.                                                              *)

(* begin_switch: refused while a mutator is admitted; closes intake.       *)
BeginSwitch(s) ==
    /\ pc[s] = "out"
    /\ phase = "active"
    /\ mutators = 0
    /\ phase' = "draining"
    /\ pc' = [pc EXCEPT ![s] = "first"]
    /\ UNCHANGED <<uses, mutators, generation, held>>

(* restore_unchanged: operations_idle() said no; same generation resumes.  *)
RestoreUnchanged(s) ==
    /\ pc[s] \in {"first", "second"}
    /\ phase' = "active"
    /\ pc' = [pc EXCEPT ![s] = "out"]
    /\ UNCHANGED <<uses, mutators, generation, held>>

FirstIdle(s) ==
    /\ pc[s] = "first"
    /\ pc' = [pc EXCEPT ![s] = "drain"]
    /\ UNCHANGED <<phase, uses, mutators, generation, held>>

(* Variant: a drain that waits for nobody.                                 *)
DrainNothing(s) ==
    /\ pc[s] = "drain"
    /\ pc' = [pc EXCEPT ![s] = "second"]
    /\ UNCHANGED <<phase, uses, mutators, generation, held>>

(* One turn of `while state.uses != 0 { wait }'.                           *)
Drain(s) ==
    /\ pc[s] = "drain"
    /\ pc' = [pc EXCEPT ![s] = IF uses = 0 THEN "second" ELSE "wait"]
    /\ UNCHANGED <<phase, uses, mutators, generation, held>>

SecondIdle(s) ==
    /\ pc[s] = "second"
    /\ pc' = [pc EXCEPT ![s] = "held"]
    /\ UNCHANGED <<phase, uses, mutators, generation, held>>

(* begin_recovery: only a gate in recovery, and only once its uses ended.  *)
BeginRecovery(s) ==
    /\ pc[s] = "out"
    /\ phase = "recovery"
    /\ uses = 0
    /\ phase' = "draining"
    /\ pc' = [pc EXCEPT ![s] = "held"]
    /\ UNCHANGED <<uses, mutators, generation, held>>

(* activated: the composition root rebuilt every service.                  *)
Activated(s) ==
    /\ pc[s] = "held"
    /\ generation < MaxGeneration
    /\ generation' = generation + 1
    /\ phase' = "active"
    /\ pc' = [pc EXCEPT ![s] = "out"]
    /\ UNCHANGED <<uses, mutators, held>>

(* Drop of an unsettled Switch: the move failed, or operations_idle()      *)
(* panicked and unwinds through begin_switch.                              *)
DropSwitch(s) ==
    /\ pc[s] \in {"first", "second", "held"}
    /\ phase' = "recovery"
    /\ pc' = [Notified EXCEPT ![s] = "out"]
    /\ UNCHANGED <<uses, mutators, generation, held>>

----------------------------------------------------------------------------
Client(c) == DropUse(c) \/ \E kind \in {"reader", "mutator"} : Enter(c, kind)

Switcher(s) ==
    \/ BeginSwitch(s) \/ FirstIdle(s) \/ Drain(s) \/ SecondIdle(s)
    \/ RestoreUnchanged(s) \/ BeginRecovery(s) \/ Activated(s) \/ DropSwitch(s)

Next == (\E c \in Clients : Client(c)) \/ (\E s \in Switchers : Switcher(s))

Spec == Init /\ [][Next]_vars

----------------------------------------------------------------------------
Holders == {c \in Clients : held[c] # NoUse}
Mutators == {c \in Clients : held[c].kind = "mutator"}

TypeOK ==
    /\ phase \in Phases
    /\ uses \in Nat
    /\ mutators \in Nat
    /\ generation \in 0..MaxGeneration
    /\ held \in [Clients -> Uses]
    /\ pc \in [Switchers -> SwitchPoints]

(* The counters of the gate are the numbers of live guards, so neither     *)
(* saturating_sub in Drop for LibraryUse ever saturates: "exactly one      *)
(* decrement corresponds to each entry" (lifecycle.rs, Drop).              *)
CountersExact ==
    /\ uses = Cardinality(Holders)
    /\ mutators = Cardinality(Mutators)

(* Draining has exactly one owner, and only draining has one: a switch is  *)
(* never lost (intake closed for ever) nor granted twice.                  *)
OneSwitchOwner ==
    /\ phase = "draining" <=> \E s \in Switchers : pc[s] \in Owning
    /\ \A s, t \in Switchers : pc[s] \in Owning /\ pc[t] \in Owning => s = t

(* While a Switch is owned -- across DB close, copy and reconstruction --  *)
(* no client holds a LibraryUse.                                           *)
SwitchExcludesUses ==
    \A s \in Switchers : pc[s] \in {"second", "held"} => Holders = {}

(* A move never overlaps a mutation, not even while it is still draining   *)
(* readers.                                                                *)
SwitchExcludesMutators ==
    (\E s \in Switchers : pc[s] \in Owning) => Mutators = {}

(* A LibraryUse stays in the generation it entered: activation never       *)
(* happens under a live use.                                               *)
UsesAreCurrent == \A c \in Holders : held[c].gen = generation

(* A blocked switcher has someone left to wake it.                         *)
NoLostWakeup == \A s \in Switchers : pc[s] = "wait" => Holders # {}
============================================================================
