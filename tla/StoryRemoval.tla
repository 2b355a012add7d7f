---------------------------- MODULE StoryRemoval ----------------------------
(***************************************************************************)
(* crates/librairii-storage/src/removal.rs and platform/unix/removal.rs:   *)
(* removing a story moves its archive from the managed area to the trash   *)
(* and deletes its row.  The two live in different stores, so a removal    *)
(* intent is committed first; a failure at any point, or the recovery of   *)
(* the next start, reads what was really committed and either reports the  *)
(* removal or puts the archive back.                                       *)
(*                                                                         *)
(* SQLite commits are durable.  A rename is visible at once and durable    *)
(* after the flush of its directories: `onDisk' is the set of places in    *)
(* which a power loss may leave the archive.  A rename is atomic on disk.  *)
(* One removal runs at a time (the custody of the library is exclusive).   *)
(***************************************************************************)
EXTENDS Naturals, FiniteSets

CONSTANTS
    Stories,
    NoStory,
    MaxFaults,     \* bound: store and file calls that fail
    MaxCrashes     \* bound: process deaths and power losses

ASSUME NoStoryAssumption == NoStory \notin Stories
ASSUME BoundsAssumption == MaxFaults \in Nat /\ MaxCrashes \in Nat

VARIABLES
    rows,        \* stories that have a row
    intents,     \* stories that have a row in removal_intents
    place,       \* where the archive of each story is now
    onDisk,      \* where a power loss may leave it
    phase,       \* "down", "recovering" (recover_removals) or "open"
    pc,          \* where the removing thread is
    story,       \* the story of Removals.pending, or NoStory
    fenced,      \* Database.fenced, the authority's effect fence
    intake,      \* QueueState.ordinary_open
    cancelled,   \* the WorkCancellation of the current removal
    told,        \* what the window was told of its last request
    faults,
    crashes

disk == <<rows, intents, place, onDisk>>
runtime == <<phase, fenced, intake, cancelled>>
bounds == <<faults, crashes>>
vars == <<disk, runtime, pc, story, told, bounds>>

Places == {"managed", "trash"}

(* Points of remove_with ("insert", "move", "moved", "delete"), of         *)
(* rollback ("rollback", "restore", "restored", "forget", "confirm") and   *)
(* of recover_removals ("scan").                                           *)
Points == {"idle", "insert", "move", "moved", "delete", "rollback",
           "restore", "restored", "forget", "confirm", "scan"}

TypeOK ==
    /\ rows \subseteq Stories
    /\ intents \subseteq Stories
    /\ place \in [Stories -> Places]
    /\ onDisk \in [Stories -> SUBSET Places]
    /\ phase \in {"down", "recovering", "open"}
    /\ pc \in Points
    /\ story \in Stories \cup {NoStory}
    /\ fenced \in BOOLEAN
    /\ intake \in BOOLEAN
    /\ cancelled \in BOOLEAN
    /\ told \in [Stories -> {"nothing", "removed", "kept"}]
    /\ faults \in 0..MaxFaults
    /\ crashes \in 0..MaxCrashes

Init ==
    /\ rows = Stories
    /\ intents = {}
    /\ place = [s \in Stories |-> "managed"]
    /\ onDisk = [s \in Stories |-> {"managed"}]
    /\ phase = "down"
    /\ pc = "idle"
    /\ story = NoStory
    /\ fenced = FALSE
    /\ intake = TRUE
    /\ cancelled = FALSE
    /\ told = [s \in Stories |-> "nothing"]
    /\ faults = 0
    /\ crashes = 0

Fault == faults < MaxFaults /\ faults' = faults + 1 /\ UNCHANGED crashes

At(here) == pc = here
Goto(there) == pc' = there

----------------------------------------------------------------------------
(* Files: RemovalFile::relocate.                                           *)

(* The rename, with NOREPLACE; a file that is there already stays.         *)
Rename(there) ==
    /\ place' = [place EXCEPT ![story] = there]
    /\ onDisk' = [onDisk EXCEPT ![story] = @ \cup {there}]
    /\ UNCHANGED <<rows, intents>>

(* Variant: success without the flush of the two directories.              *)
NoFlush == UNCHANGED disk

(* The file and both directories are flushed.                              *)
Flush ==
    /\ onDisk' = [onDisk EXCEPT ![story] = {place[story]}]
    /\ UNCHANGED <<rows, intents, place>>

----------------------------------------------------------------------------
(* The transactions of a removal, as changes of the database.              *)

InsertIntent ==
    /\ intents' = intents \cup {story}
    /\ UNCHANGED <<rows, place, onDisk>>

(* The intent's foreign key cascades.                                      *)
DeleteStory ==
    /\ rows' = rows \ {story}
    /\ intents' = intents \ {story}
    /\ UNCHANGED <<place, onDisk>>

DeleteIntent ==
    /\ intents' = intents \ {story}
    /\ UNCHANGED <<rows, place, onDisk>>

(* An ordinary transaction that is refused, or proven not committed: fenced*)
(* runtime, closed intake, cancellation before the commit, or a failure.   *)
NotCommitted ==
    /\ \/ fenced \/ ~intake \/ cancelled
       \/ faults < MaxFaults
    /\ faults' = IF fenced \/ ~intake \/ cancelled THEN faults ELSE faults + 1
    /\ UNCHANGED <<disk, fenced, crashes>>

(* CommitUncertain: the writer fences; the commit happened or it did not.  *)
Uncertain(effect) ==
    /\ Fault
    /\ fenced' = TRUE
    /\ effect \/ UNCHANGED disk

----------------------------------------------------------------------------
(* Removals::remove_with.                                                  *)

(* Custody, the scope read and RemovalFile::open.  A refusal before this   *)
(* point has touched nothing and is not a step.                            *)
Remove(s) ==
    /\ phase = "open" /\ At("idle")
    /\ ~fenced /\ intake
    /\ s \in rows /\ place[s] = "managed"
    /\ story' = s
    /\ cancelled' = FALSE
    /\ told' = [told EXCEPT ![s] = "nothing"]
    /\ Goto("insert")
    /\ UNCHANGED <<disk, phase, fenced, intake, bounds>>

(* Variant: the outcome of the insert is not looked at.                    *)
InsertUnchecked ==
    /\ At("insert")
    /\ \/ /\ InsertIntent
          /\ UNCHANGED <<fenced, bounds>>
       \/ NotCommitted
    /\ Goto("move")
    /\ UNCHANGED <<phase, intake, cancelled, story, told>>

Insert ==
    /\ At("insert")
    /\ \/ /\ ~fenced /\ intake /\ ~cancelled
          /\ story \in rows /\ story \notin intents
          /\ InsertIntent
          /\ Goto("move")
          /\ UNCHANGED <<fenced, bounds>>
       \/ NotCommitted /\ Goto("rollback")
       \/ ~fenced /\ intake /\ Uncertain(InsertIntent) /\ Goto("rollback")
    /\ UNCHANGED <<phase, intake, cancelled, story, told>>

(* move_to_trash, up to the rename.                                        *)
Move ==
    /\ At("move")
    /\ \/ ~cancelled /\ ~fenced /\ Rename("trash") /\ Goto("moved")
          /\ UNCHANGED bounds
       \/ (cancelled \/ fenced) /\ Goto("rollback") /\ UNCHANGED <<disk, bounds>>
       \/ Fault /\ Goto("rollback") /\ UNCHANGED disk
    /\ UNCHANGED <<runtime, story, told>>

(* The rest of relocate.                                                   *)
Moved ==
    /\ At("moved")
    /\ \/ Flush /\ Goto("delete") /\ UNCHANGED bounds
       \/ Fault /\ Goto("rollback") /\ UNCHANGED disk
    /\ UNCHANGED <<runtime, story, told>>

Settled(answer) ==
    /\ story' = NoStory
    /\ told' = IF phase = "open" THEN [told EXCEPT ![story] = answer] ELSE told
    /\ Goto(IF phase = "open" THEN "idle" ELSE "scan")

(* Variant: an uncertain delete is reported as done.                       *)
DeleteOptimistic ==
    /\ At("delete")
    /\ \/ /\ ~fenced /\ intake /\ ~cancelled
          /\ DeleteStory
          /\ UNCHANGED <<fenced, bounds>>
          /\ Settled("removed")
       \/ NotCommitted /\ Goto("rollback") /\ UNCHANGED <<story, told>>
       \/ Uncertain(DeleteStory) /\ Settled("removed")
    /\ UNCHANGED <<phase, intake, cancelled>>

Delete ==
    /\ At("delete")
    /\ \/ /\ ~fenced /\ intake /\ ~cancelled
          /\ story \in rows /\ story \in intents
          /\ DeleteStory
          /\ UNCHANGED <<fenced, bounds>>
          /\ Settled("removed")
       \/ NotCommitted /\ Goto("rollback") /\ UNCHANGED <<story, told>>
       \/ /\ ~fenced /\ intake
          /\ Uncertain(DeleteStory)
          /\ Goto("rollback") /\ UNCHANGED <<story, told>>
    /\ UNCHANGED <<phase, intake, cancelled>>

----------------------------------------------------------------------------
(* Removals::retry_rollback, from remove_with, from the window's loop over *)
(* has_unsettled_removal, and from recover_removals.                       *)

(* The rollback failed: fence_external_effect.  The window tries again;    *)
(* recovery gives up and the library does not open.                        *)
RollbackFailed ==
    /\ Fault
    /\ fenced' = TRUE
    /\ \/ phase = "open" /\ Goto("rollback") /\ UNCHANGED <<phase, story>>
       \/ phase = "recovering" /\ phase' = "down" /\ Goto("idle") /\ story' = NoStory
    /\ UNCHANGED <<disk, intake, cancelled, told>>

(* The barrier read: neither row nor intent means the delete committed.    *)
Rollback ==
    /\ At("rollback")
    /\ \/ /\ story \notin rows /\ story \notin intents
          /\ Settled("removed")
       \/ story \in rows /\ Goto("restore") /\ UNCHANGED <<story, told>>
    /\ UNCHANGED <<disk, runtime, bounds>>

Restore ==
    /\ At("restore")
    /\ Rename("managed") /\ Goto("restored")
    /\ UNCHANGED <<runtime, story, told, bounds>>

Restored ==
    /\ At("restored")
    /\ Flush /\ Goto("forget")
    /\ UNCHANGED <<runtime, story, told, bounds>>

(* The repair transaction that deletes the intent; its queue may be full,  *)
(* which only waits.                                                       *)
Forget ==
    /\ At("forget")
    /\ story \in rows
    /\ \/ /\ DeleteIntent
          /\ Settled("kept")
          /\ UNCHANGED <<fenced, bounds>>
       \/ Uncertain(DeleteIntent) /\ Goto("confirm") /\ UNCHANGED <<story, told>>
    /\ UNCHANGED <<phase, intake, cancelled>>

(* Variant: an intent that is still there is read again, not deleted again.*)
ConfirmStuck ==
    /\ At("confirm")
    /\ story \in rows
    /\ \/ story \notin intents /\ Settled("kept")
       \/ story \in intents /\ UNCHANGED <<pc, story, told>>
    /\ UNCHANGED <<disk, runtime, bounds>>

(* The barrier read after an uncertain deletion.                           *)
Confirm ==
    /\ At("confirm")
    /\ story \in rows
    /\ \/ story \notin intents /\ Settled("kept")
       \/ story \in intents /\ Goto("forget") /\ UNCHANGED <<story, told>>
    /\ UNCHANGED <<disk, runtime, bounds>>

RollbackFails ==
    /\ pc \in {"rollback", "restore", "restored", "forget", "confirm"}
    /\ RollbackFailed

----------------------------------------------------------------------------
(* Start and stop of a library.                                            *)

(* Database::open_owned, up to recover_removals.                           *)
Open ==
    /\ phase = "down"
    /\ phase' = "recovering"
    /\ fenced' = FALSE
    /\ intake' = TRUE
    /\ cancelled' = FALSE
    /\ Goto("scan")
    /\ UNCHANGED <<disk, story, told, bounds>>

(* Variant: intents of another start are left alone.                       *)
ScanNothing ==
    /\ At("scan")
    /\ phase' = "open" /\ Goto("idle") /\ UNCHANGED story
    /\ UNCHANGED <<disk, fenced, intake, cancelled, told, bounds>>

(* recover_removals: one intent at a time; a failed read or open of its    *)
(* file ends the start.                                                    *)
Scan ==
    /\ At("scan")
    /\ \/ /\ intents = {}
          /\ phase' = "open" /\ Goto("idle")
          /\ UNCHANGED <<story, fenced, bounds>>
       \/ /\ \E s \in intents: story' = s
          /\ Goto("rollback")
          /\ UNCHANGED <<phase, fenced, bounds>>
       \/ /\ Fault
          /\ phase' = "down" /\ Goto("idle") /\ fenced' = TRUE
          /\ UNCHANGED story
    /\ UNCHANGED <<disk, intake, cancelled, told>>

(* Database::stop_ordinary, at any time.                                   *)
StopIntake ==
    /\ phase = "open" /\ intake
    /\ intake' = FALSE
    /\ UNCHANGED <<disk, phase, fenced, cancelled, pc, story, told, bounds>>

(* The window cancels the command that is running.                         *)
Cancel ==
    /\ story # NoStory /\ phase = "open" /\ ~cancelled
    /\ cancelled' = TRUE
    /\ UNCHANGED <<disk, phase, fenced, intake, pc, story, told, bounds>>

(* A commit of another command is uncertain and fences the runtime.        *)
FencedElsewhere ==
    /\ phase = "open" /\ ~fenced
    /\ Fault
    /\ fenced' = TRUE
    /\ UNCHANGED <<disk, phase, intake, cancelled, pc, story, told>>

(* Database::close, once the command thread has returned.                  *)
Close ==
    /\ phase = "open" /\ At("idle")
    /\ phase' = "down"
    /\ UNCHANGED <<disk, fenced, intake, cancelled, pc, story, told, bounds>>

(* The process dies: the committed rows stay, an archive is found in one   *)
(* of the places its unflushed renames allow.                              *)
Crash ==
    /\ crashes < MaxCrashes
    /\ crashes' = crashes + 1
    /\ \E found \in [Stories -> Places]:
          /\ \A s \in Stories: found[s] \in onDisk[s]
          /\ place' = found
          /\ onDisk' = [s \in Stories |-> {found[s]}]
    /\ phase' = "down"
    /\ Goto("idle")
    /\ story' = NoStory
    /\ UNCHANGED <<rows, intents, fenced, intake, cancelled, told, faults>>

Thread ==
    \/ Insert \/ Move \/ Moved \/ Delete
    \/ Rollback \/ Restore \/ Restored \/ Forget \/ Confirm \/ RollbackFails
    \/ Scan

Next ==
    \/ \E s \in Stories: Remove(s)
    \/ Thread
    \/ Open \/ StopIntake \/ Cancel \/ FencedElsewhere \/ Close \/ Crash

Spec == Init /\ [][Next]_vars

(* The removing thread keeps running; the window and the user owe nothing. *)
FairSpec == Spec /\ WF_vars(Thread)

----------------------------------------------------------------------------
(* Properties.                                                             *)

(* The archive of a story that still has its row is in the managed area,   *)
(* now and after any crash, unless an intent says where to look: a removal *)
(* that is cut short can always be undone by recover_removals.             *)
MisplacedIsKnown ==
    \A s \in rows: onDisk[s] # {"managed"} => s \in intents

(* A story whose row is gone has its archive in the trash, durably: no     *)
(* crash leaves an archive in the managed area that no row describes.      *)
RemovedIsStored ==
    \A s \in Stories \ rows: place[s] = "trash" /\ onDisk[s] = {"trash"}

(* While the library is open, every story but the one being removed is     *)
(* whole: its archive is in place and no intent of a previous life is left *)
(* for it, so recover_removals ran to its end before intake opened.        *)
OpenIsWhole ==
    phase = "open" =>
        /\ intents \subseteq {story}
        /\ \A s \in rows \ {story}: place[s] = "managed"

(* remove() returns the truth, whatever acknowledgement was lost: a story  *)
(* reported removed has no row, and one whose removal is reported as failed*)
(* has its row, its archive and no intent.                                 *)
AnswerIsTrue ==
    \A s \in Stories:
        /\ told[s] = "removed" => s \notin rows
        /\ told[s] = "kept" => s \in rows /\ place[s] = "managed"

(* A removal or a recovery ends: the thread does not retry for ever once   *)
(* the failures stop.                                                      *)
RemovalSettles == pc # "idle" ~> pc = "idle"
============================================================================
