-------------------------- MODULE StoryRemovalProofs --------------------------
(***************************************************************************)
(* The safety of story removal, for any number of stories, failures and    *)
(* crashes.  Custody is the inductive invariant: it ties every point of the*)
(* removing thread to what is committed and flushed at that point.         *)
(***************************************************************************)
EXTENDS StoryRemoval, TLAPS

RollbackPoints == {"rollback", "restore", "restored", "forget", "confirm"}

(* Who is at work: nobody while the library is down, recovery between two  *)
(* intents or inside a rollback, at most one removal while it is open.     *)
Shape ==
    /\ phase = "down" => pc = "idle"
    /\ phase = "recovering" => pc \in RollbackPoints \cup {"scan"}
    /\ phase = "open" => pc # "scan"
    /\ (story = NoStory) <=> (pc \in {"idle", "scan"})

(* What each point of the thread may rely on.                              *)
Progress ==
    /\ pc = "insert" => story \in rows /\ onDisk[story] = {"managed"}
    /\ pc = "move" => story \in intents
    /\ pc = "moved" => story \in intents /\ place[story] = "trash"
    /\ pc = "delete" => story \in intents /\ onDisk[story] = {"trash"}
    /\ pc \in {"restore", "restored", "forget", "confirm"} => story \in rows
    /\ pc = "restored" => place[story] = "managed"
    /\ pc \in {"forget", "confirm"} => onDisk[story] = {"managed"}

(* The window has not been answered for a removal that is not settled.     *)
Unanswered == \A s \in Stories: s \in intents \/ s = story => told[s] = "nothing"

Custody ==
    /\ TypeOK
    /\ Shape
    /\ Progress
    /\ Unanswered
    /\ \A s \in Stories: place[s] \in onDisk[s]
    /\ intents \subseteq rows
    /\ phase = "open" => intents \subseteq {story}
    /\ MisplacedIsKnown
    /\ RemovedIsStored
    /\ AnswerIsTrue
----------------------------------------------------------------------------
(* One step of the system preserves the invariant: one case per action.    *)

LEMMA CustodyIsInductive == Custody /\ [Next]_vars => Custody'
  <1> SUFFICES ASSUME Custody, [Next]_vars PROVE Custody'
    OBVIOUS
  <1> USE NoStoryAssumption, BoundsAssumption
          DEF Custody, TypeOK, Shape, Progress, Unanswered, MisplacedIsKnown,
              RemovedIsStored, AnswerIsTrue, Places, Points, RollbackPoints,
              disk, runtime, bounds, At, Goto
  <1>1. ASSUME NEW s \in Stories, Remove(s) PROVE Custody'
    <2>1. TypeOK'
      BY <1>1 DEF Remove
    <2>2. Shape' /\ Progress' /\ Unanswered'
      BY <1>1 DEF Remove
    <2>3. AnswerIsTrue' /\ MisplacedIsKnown' /\ RemovedIsStored'
      BY <1>1 DEF Remove
    <2> QED
      BY <1>1, <2>1, <2>2, <2>3 DEF Remove
  <1>2. CASE Insert
    <2>0. fenced' \in BOOLEAN
      BY <1>2 DEF Insert, InsertIntent, NotCommitted, Uncertain, Fault
    <2>1. faults' \in 0..MaxFaults
      BY <1>2 DEF Insert, InsertIntent, NotCommitted, Uncertain, Fault
    <2>2. story' \in Stories \cup {NoStory} /\ pc' \in Points
      BY <1>2 DEF Insert, InsertIntent, NotCommitted, Uncertain, Fault
    <2>3. TypeOK'
      BY <1>2, <2>0, <2>1, <2>2 DEF Insert, InsertIntent, NotCommitted, Uncertain, Fault
    <2>4. Shape' /\ Progress' /\ Unanswered'
      BY <1>2 DEF Insert, InsertIntent, NotCommitted, Uncertain, Fault
    <2>5. MisplacedIsKnown' /\ RemovedIsStored' /\ AnswerIsTrue'
      BY <1>2 DEF Insert, InsertIntent, NotCommitted, Uncertain, Fault
    <2> QED
      BY <1>2, <2>3, <2>4, <2>5 DEF Insert, InsertIntent, NotCommitted, Uncertain, Fault
  <1>3. CASE Move
    BY <1>3 DEF Move, Rename, Fault
  <1>4. CASE Moved
    BY <1>4 DEF Moved, Flush, Fault
  <1>5. CASE Delete
    <2>0. fenced' \in BOOLEAN
      BY <1>5 DEF Delete, DeleteStory, NotCommitted, Uncertain, Fault, Settled
    <2>1. faults' \in 0..MaxFaults
      BY <1>5 DEF Delete, DeleteStory, NotCommitted, Uncertain, Fault, Settled
    <2>2. story' \in Stories \cup {NoStory} /\ pc' \in Points
      BY <1>5 DEF Delete, DeleteStory, NotCommitted, Uncertain, Fault, Settled
    <2>3. TypeOK'
      BY <1>5, <2>0, <2>1, <2>2 DEF Delete, DeleteStory, NotCommitted, Uncertain, Fault, Settled
    <2>4. Shape' /\ Progress' /\ Unanswered'
      BY <1>5 DEF Delete, DeleteStory, NotCommitted, Uncertain, Fault, Settled
    <2>5. MisplacedIsKnown' /\ RemovedIsStored' /\ AnswerIsTrue'
      BY <1>5 DEF Delete, DeleteStory, NotCommitted, Uncertain, Fault, Settled
    <2> QED
      BY <1>5, <2>3, <2>4, <2>5 DEF Delete, DeleteStory, NotCommitted, Uncertain, Fault, Settled
  <1>6. CASE Rollback
    BY <1>6 DEF Rollback, Settled
  <1>7. CASE Restore
    BY <1>7 DEF Restore, Rename
  <1>8. CASE Restored
    BY <1>8 DEF Restored, Flush
  <1>9. CASE Forget
    <2>0. fenced' \in BOOLEAN
      BY <1>9 DEF Forget, DeleteIntent, Uncertain, Fault, Settled
    <2>1. faults' \in 0..MaxFaults
      BY <1>9 DEF Forget, DeleteIntent, Uncertain, Fault, Settled
    <2>2. story' \in Stories \cup {NoStory} /\ pc' \in Points
      BY <1>9 DEF Forget, DeleteIntent, Uncertain, Fault, Settled
    <2>3. TypeOK'
      BY <1>9, <2>0, <2>1, <2>2 DEF Forget, DeleteIntent, Uncertain, Fault, Settled
    <2>4. Shape' /\ Progress' /\ Unanswered'
      BY <1>9 DEF Forget, DeleteIntent, Uncertain, Fault, Settled
    <2>5. MisplacedIsKnown' /\ RemovedIsStored' /\ AnswerIsTrue'
      BY <1>9 DEF Forget, DeleteIntent, Uncertain, Fault, Settled
    <2> QED
      BY <1>9, <2>3, <2>4, <2>5 DEF Forget, DeleteIntent, Uncertain, Fault, Settled
  <1>10. CASE Confirm
    BY <1>10 DEF Confirm, Settled
  <1>11. CASE RollbackFails
    BY <1>11 DEF RollbackFails, RollbackFailed, Fault
  <1>12. CASE Scan
    <2>0. fenced' \in BOOLEAN
      BY <1>12 DEF Scan, Fault
    <2>1. faults' \in 0..MaxFaults
      BY <1>12 DEF Scan, Fault
    <2>2. story' \in Stories \cup {NoStory} /\ pc' \in Points
      BY <1>12 DEF Scan, Fault
    <2>3. TypeOK'
      BY <1>12, <2>0, <2>1, <2>2 DEF Scan, Fault
    <2>4. Shape' /\ Progress' /\ Unanswered'
      BY <1>12 DEF Scan, Fault
    <2>5. MisplacedIsKnown' /\ RemovedIsStored' /\ AnswerIsTrue'
      BY <1>12 DEF Scan, Fault
    <2> QED
      BY <1>12, <2>3, <2>4, <2>5 DEF Scan, Fault
  <1>13. CASE Open
    BY <1>13 DEF Open
  <1>14. CASE StopIntake
    BY <1>14 DEF StopIntake
  <1>15. CASE Cancel
    BY <1>15 DEF Cancel
  <1>16. CASE FencedElsewhere
    BY <1>16 DEF FencedElsewhere, Fault
  <1>17. CASE Close
    BY <1>17 DEF Close
  <1>18. CASE Crash
    BY <1>18 DEF Crash
  <1>19. CASE UNCHANGED vars
    BY <1>19 DEF vars
  <1> QED
    BY <1>1, <1>2, <1>3, <1>4, <1>5, <1>6, <1>7, <1>8, <1>9, <1>10, <1>11, <1>12, <1>13, <1>14, <1>15, <1>16, <1>17, <1>18, <1>19 DEF Next, Thread

(* The library starts with every archive in place and nothing intended.    *)
LEMMA CustodyAtStart == Init => Custody
  <1> SUFFICES ASSUME Init PROVE Custody
    OBVIOUS
  <1>1. TypeOK
    <2>1. fenced \in BOOLEAN /\ intake \in BOOLEAN /\ cancelled \in BOOLEAN
      BY DEF Init
    <2>2. onDisk \in [Stories -> SUBSET Places] /\ place \in [Stories -> Places]
      BY DEF Init, Places
    <2>3. faults \in 0..MaxFaults /\ crashes \in 0..MaxCrashes
      BY BoundsAssumption DEF Init
    <2> QED
      BY <2>1, <2>2, <2>3 DEF Init, TypeOK, Points
  <1>2. Shape /\ Progress
    BY DEF Init, Shape, Progress
  <1>3. Unanswered /\ AnswerIsTrue
    BY DEF Init, Unanswered, AnswerIsTrue
  <1>4. MisplacedIsKnown /\ RemovedIsStored
    BY DEF Init, MisplacedIsKnown, RemovedIsStored
  <1> QED
    BY <1>1, <1>2, <1>3, <1>4 DEF Init, Custody

LEMMA CustodyAlways == Spec => []Custody
  BY CustodyAtStart, CustodyIsInductive, PTL DEF Spec

(* While the library is open, what the intents and the archives say follows*)
(* from the invariant: an archive is where the disk may show it.           *)
LEMMA WholeWhenOpen == Custody => OpenIsWhole
  <1> SUFFICES ASSUME Custody, phase = "open"
               PROVE  /\ intents \subseteq {story}
                      /\ \A s \in rows \ {story}: place[s] = "managed"
    BY DEF OpenIsWhole
  <1>1. intents \subseteq {story}
    BY DEF Custody
  <1>2. ASSUME NEW s \in rows \ {story} PROVE place[s] = "managed"
    <2>1. s \in Stories /\ s \notin intents
      BY <1>1 DEF Custody, TypeOK
    <2>2. onDisk[s] = {"managed"}
      BY <2>1 DEF Custody, MisplacedIsKnown
    <2> QED
      BY <2>1, <2>2 DEF Custody
  <1> QED
    BY <1>1, <1>2

(* The state of story removal is well typed.                               *)
THEOREM RemovalTypeCorrect == Spec => []TypeOK
  <1>1. Custody => TypeOK
    BY DEF Custody
  <1> QED
    BY <1>1, CustodyAlways, PTL

(* Whatever fails and whenever the process dies, an archive that is not    *)
(* where its row says has an intent: remove_with and relocate order their  *)
(* commits and flushes correctly.                                          *)
THEOREM RemovalIsRecoverable == Spec => []MisplacedIsKnown
  <1>1. Custody => MisplacedIsKnown
    BY DEF Custody
  <1> QED
    BY <1>1, CustodyAlways, PTL

(* Whatever fails and whenever the process dies, the archive of a story    *)
(* whose row remove_with deleted is in the trash.                          *)
THEOREM RemovalLosesNothing == Spec => []RemovedIsStored
  <1>1. Custody => RemovedIsStored
    BY DEF Custody
  <1> QED
    BY <1>1, CustodyAlways, PTL

(* recover_removals leaves no trace of an earlier removal when the library *)
(* opens, and a running removal disturbs no other story.                   *)
THEOREM OpenLibraryIsWhole == Spec => []OpenIsWhole
  BY WholeWhenOpen, CustodyAlways, PTL

(* remove() and its retries report what was committed.                     *)
THEOREM RemovalAnswersTruly == Spec => []AnswerIsTrue
  <1>1. Custody => AnswerIsTrue
    BY DEF Custody
  <1> QED
    BY <1>1, CustodyAlways, PTL
============================================================================
