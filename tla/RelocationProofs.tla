--------------------------- MODULE RelocationProofs ---------------------------
(***************************************************************************)
(* The safety of a move, for any folders, files, versions, moves, failures *)
(* and interferences, and for any number of deaths or of power losses.     *)
(*                                                                         *)
(* MoveInv is the inductive invariant.  The folder that the profile names  *)
(* is live; the journal and the attempt speak of a genuine move; and every *)
(* step of the attempt may rely on what the steps before it established.   *)
(***************************************************************************)
EXTENDS Relocation, TLAPS

(* The library is in folder r, whole but for the files a power loss took,  *)
(* and nobody else wrote there.                                            *)
Live(r) ==
    /\ place[r] = "there" /\ mayBe[r] = {"there"}
    /\ control[r] = Controls
    /\ \A e \in Entries \ damage: tree[r][e] = truth[e]
    /\ \A e \in Entries: tree[r][e] # "foreign"

Authority == profile \in profiles /\ Live(profile)

(* A folder that was removed, or never made, holds nothing.                *)
Folder(r) ==
    /\ place[r] \in mayBe[r]
    /\ "none" \in mayBe[r] => place[r] = "none"
    /\ place[r] = "none" => r \notin extra /\ \A d \in Data: tree[r][d] = "absent"

Folders == \A r \in Roots: Folder(r)

(* The exchanged profile is not flushed, and nothing else was done since.  *)
Hanging ==
    /\ app \in {"move", "failed"} /\ att.uncertain
    /\ profile = dst /\ profiles = {src, dst}
    /\ Live(src)

(* As long as no process died, the profile is durable or hangs.            *)
Durable == deaths = 0 => profiles = {profile} \/ Hanging

(* The intent of a move that was begun.  A folder that was selected for it *)
(* is never under a workspace name.                                        *)
Genuine(i) ==
    /\ i.move \in 1..moves
    /\ i.src # i.dst
    /\ \A e \in Entries: i.manifest[e] # "foreign"
    /\ i.selected /\ proof[i.dst] = i.move => "workspace" \notin mayBe[i.dst]

Recorded == journal.state # "none"

Moves ==
    /\ intent = NoIntent \/ Genuine(intent)
    /\ Recorded => Genuine(journal.intent)
    /\ Recorded /\ journal.intent.move = intent.move => journal.intent = intent

Before == {"own", "journal", "jflush", "copy", "flush", "check", "commit"}
After == {"finish", "clean", "ack", "controls", "rmdir", "close"}

(* The journal is that of the attempt, unless a failed retirement took it. *)
OwnJournal ==
    /\ journal.state \in {"none", "intent"}
    /\ Recorded => journal.intent = intent

(* What holds of an attempt from its beginning to its end, a failure       *)
(* included.                                                               *)
Attempting ==
    app \in {"move", "failed"} =>
        /\ intent # NoIntent
        /\ place[dst] # "none"
        /\ att.published \/ intent.selected => place[dst] = "there"
        /\ att.committed => ~att.uncertain /\ profile = dst
        /\ ~att.committed /\ ~att.uncertain => profile = src
        /\ att.uncertain => att.journal
        /\ att.journal /\ ~att.committed => OwnJournal

(* The destination is owned by the move.                                   *)
Mine == control[dst] = Controls /\ proof[dst] = intent.move

(* What each step may rely on.                                             *)
Stages ==
    app = "move" =>
        /\ at \in Before \cup {"sync"} \cup After
        /\ at \in Before => ~att.committed /\ ~att.uncertain
        /\ at \in Before \ {"own"} => Mine
        /\ at \in Before \ {"own", "flush"} => mayBe[dst] = {place[dst]}
        /\ at \in {"journal", "jflush"} => ~att.journal
        /\ at = "jflush" => journal.state = "torn" /\ journal.intent = intent
        /\ at \in {"copy", "flush", "check", "commit"} => att.journal
        /\ at \in {"flush", "check", "commit"} => place[dst] = "there"
        /\ at = "commit" => Live(dst)
        /\ at = "sync" => /\ ~att.committed /\ att.uncertain
                          /\ profile = dst /\ profiles = {src, dst} /\ Live(src)
        /\ at \in After => att.committed

(* The move is committed: only the old folder is touched.                  *)
Committing ==
    app = "recover" \/ (app \in {"move", "failed"} /\ att.committed) =>
        /\ intent # NoIntent
        /\ profile = dst
        /\ Recorded => journal.intent = intent /\ journal.state # "torn"

Cleanup ==
    app \in {"move", "recover"} =>
        /\ app = "recover" => at \in After \cup {"reopen"}
        /\ at \in {"ack", "controls", "rmdir"} => \A d \in Data: tree[src][d] = "absent"

(* The start asks what to do with a move that was not committed.           *)
Asking ==
    app = "asks" =>
        /\ intent # NoIntent /\ profile = src
        /\ att.journal /\ ~att.committed /\ ~att.uncertain
        /\ Recorded => journal.state = "intent" /\ journal.intent = intent

MoveInv ==
    /\ TypeOK
    /\ Folders
    /\ Authority
    /\ Durable
    /\ Moves
    /\ Attempting
    /\ Stages
    /\ Committing
    /\ Cleanup
    /\ Asking
    /\ ReceiptIsTrue

(* Only a failed call or a dead process leaves a copy that is not flushed, *)
(* only such a copy is taken by a power loss, and nobody else wrote it.    *)
LooseInv ==
    /\ faults = 0 /\ deaths = 0 => loose = {} /\ damage = {}
    /\ \A x \in loose: tree[x[1]][x[2]] # "foreign"

----------------------------------------------------------------------------
(* What a step keeps by leaving things alone.                              *)

(* The flags of an attempt that decide what it may do.                     *)
FlagsKept ==
    /\ att'.journal <=> att.journal
    /\ att'.published <=> att.published
    /\ att'.uncertain <=> att.uncertain
    /\ att'.committed <=> att.committed

LEMMA PendingKeeps ==
  ASSUME att \in Attempts, NEW b \in BOOLEAN, att' = [att EXCEPT !.pending = b]
  PROVE  att' \in Attempts /\ FlagsKept
  BY DEF Attempts, FlagsKept

LEMMA SameFlags ==
  ASSUME att' = att
  PROVE  FlagsKept
  BY DEF FlagsKept

(* Folders, the profile and the journal are left alone.                    *)
LEMMA StillThere ==
  ASSUME MoveInv,
         UNCHANGED <<tree, control, proof, place, mayBe, extra, loose, profile, profiles, journal, truth, damage, moves>>
  PROVE  /\ Folders' /\ Authority' /\ ReceiptIsTrue'
         /\ intent' = intent => Moves'
         /\ \A i: Genuine(i)' <=> Genuine(i)
         /\ \A r \in Roots: Live(r)' <=> Live(r)
  <1>1. Folders' /\ Authority' /\ ReceiptIsTrue'
    BY DEF MoveInv, Folders, Folder, Authority, Live, ReceiptIsTrue
  <1>2. \A i: Genuine(i)' <=> Genuine(i)
    BY DEF Genuine
  <1>3. ASSUME intent' = intent PROVE Moves'
    BY <1>3 DEF MoveInv, Moves, Genuine, Recorded
  <1>4. \A r \in Roots: Live(r)' <=> Live(r)
    BY DEF Live
  <1> QED
    BY <1>1, <1>2, <1>3, <1>4

(* What the type invariant says of the parts such steps change.            *)
LEMMA TypesKept ==
  ASSUME TypeOK,
         UNCHANGED <<tree, control, proof, place, mayBe, extra, loose, profile, profiles, residue,
                     journal, truth, damage, moves>>,
         epoch' \in [Roots -> Nat], intent' \in Intents, att' \in Attempts,
         app' \in {"start", "asks", "open", "move", "failed", "recover", "refused"},
         at' \in Steps, faults' \in 0..MaxFaults, UNCHANGED <<deaths, outages>>
  PROVE  TypeOK'
  BY DEF TypeOK

LEMMA FaultBounded ==
  ASSUME TypeOK, Fault
  PROVE  faults' \in 0..MaxFaults /\ UNCHANGED <<moves, deaths, outages>>
  BY BoundsAssumption DEF Fault, TypeOK

LEMMA CountersKept ==
  ASSUME TypeOK, UNCHANGED counters
  PROVE  faults' \in 0..MaxFaults /\ UNCHANGED <<moves, deaths, outages>>
  BY DEF counters, TypeOK
----------------------------------------------------------------------------
(* Steps of the thread alone.                                              *)

LEMMA CheckInductive ==
  ASSUME MoveInv, Check
  PROVE  MoveInv'
  <1>1. /\ app = "move" /\ at = "check"
        /\ UNCHANGED <<disk, namespace, attempt, truth, damage>>
        /\ faults' \in 0..MaxFaults /\ UNCHANGED <<moves, deaths, outages>>
        /\ \/ app' = "move" /\ at' = "commit" /\ MayCommit
           \/ app' = "failed" /\ at' = at
    BY FaultBounded, CountersKept DEF MoveInv, Check, Working, Go, Fail
  <1>2. UNCHANGED <<tree, control, proof, place, mayBe, extra, loose, epoch, profile, profiles, residue, journal, intent, att>>
    BY <1>1 DEF disk, namespace, attempt
  <1>3. TypeOK'
    BY <1>1, <1>2, TypesKept DEF MoveInv, TypeOK, Steps
  <1>4. Folders' /\ Authority' /\ ReceiptIsTrue' /\ Moves'
    BY <1>1, <1>2, StillThere
  <1>5. src \in Roots /\ dst \in Roots
    BY DEF MoveInv, TypeOK, Intents, src, dst
  <1>6. Live(src)' <=> Live(src)
    BY <1>1, <1>2 DEF Live, src
  <1>7. Durable'
    BY <1>1, <1>2, <1>6 DEF MoveInv, Durable, Hanging, src, dst, Stages, Before
  <1>8. Attempting' /\ Committing' /\ Asking'
    BY <1>1, <1>2 DEF MoveInv, Attempting, OwnJournal, Committing, Asking, Recorded, src, dst
  <1>9. Stages'
    <2>1. MayCommit => Live(dst)
      BY <1>1 DEF MoveInv, MayCommit, Verified, SourceSame, Live, Stages, Mine, Before, Authority, Attempting, OwnJournal, Recorded
    <2>2. Live(dst)' <=> Live(dst)
      BY <1>1, <1>2 DEF Live, dst
    <2> QED
      BY <1>1, <1>2, <2>1, <2>2 DEF MoveInv, Stages, Mine, Before, After, src, dst
  <1>10. Cleanup'
    BY <1>1 DEF Cleanup
  <1> QED
    BY <1>3, <1>4, <1>7, <1>8, <1>9, <1>10 DEF MoveInv

(* The steps after the commit that only decide what comes next.            *)
LEMMA DecideInductive ==
  ASSUME MoveInv, Finish \/ Cleaned \/ ControlsFail
  PROVE  MoveInv'
  <1>1. /\ app \in {"move", "recover"} /\ at \in After
        /\ UNCHANGED <<disk, namespace, intent, truth, damage>>
        /\ faults' \in 0..MaxFaults /\ UNCHANGED <<moves, deaths, outages>>
        /\ att' \in Attempts /\ FlagsKept
        /\ \/ app' = app /\ at' \in {"clean", "close"}
           \/ app' = app /\ at' = "ack" /\ ~Left
           \/ app' = app /\ at' = "controls" /\ Retired
           \/ app = "move" /\ app' = "failed" /\ at' = at
    <2>1. att \in Attempts
      BY DEF MoveInv, TypeOK
    <2>2. CASE Finish
      <3>1. \/ Fault \/ UNCHANGED counters
        BY <2>2 DEF Finish
      <3>2. \/ att' = [att EXCEPT !.pending = FALSE] /\ Go("clean")
            \/ att' = [att EXCEPT !.pending = TRUE] /\ Go("close")
            \/ att' = att /\ app = "move" /\ Fail
        BY <2>2 DEF Finish, Pending
      <3>3. att' \in Attempts /\ FlagsKept
        BY <2>1, <3>2, PendingKeeps, SameFlags
      <3> QED
        BY <2>2, <3>1, <3>2, <3>3, FaultBounded, CountersKept
           DEF MoveInv, Finish, Cleaning, Go, Fail, After
    <2>3. CASE Cleaned
      <3>1. \/ att' = [att EXCEPT !.pending = TRUE] /\ Go("close")
            \/ att' = att /\ ~Left /\ Go(IF Retired THEN "controls" ELSE "ack")
        BY <2>3 DEF Cleaned, Pending
      <3>2. att' \in Attempts /\ FlagsKept
        BY <2>1, <3>1, PendingKeeps, SameFlags
      <3> QED
        BY <2>3, <3>1, <3>2, CountersKept DEF MoveInv, Cleaned, Cleaning, Go, After
    <2>4. CASE ControlsFail
      <3>1. att' \in Attempts /\ FlagsKept
        BY <2>1, <2>4, PendingKeeps DEF ControlsFail, Pending
      <3> QED
        BY <2>4, <3>1, FaultBounded DEF MoveInv, ControlsFail, Cleaning, Pending, Go, After
    <2> QED
      BY <2>2, <2>3, <2>4
  <1>2. UNCHANGED <<tree, control, proof, place, mayBe, extra, loose, epoch, profile, profiles, residue, journal>>
    BY <1>1 DEF disk, namespace
  <1>3. (att.committed /\ ~att.uncertain /\ profile = dst /\ intent # NoIntent) \/ app = "recover"
    BY <1>1 DEF MoveInv, Stages, Attempting, OwnJournal, Recorded
  <1>4. TypeOK'
    BY <1>1, <1>2, TypesKept DEF MoveInv, TypeOK, Steps, After
  <1>5. Folders' /\ Authority' /\ ReceiptIsTrue' /\ Moves'
    BY <1>1, <1>2, StillThere
  <1>6. Durable'
    BY <1>1, <1>2, <1>3 DEF MoveInv, Durable, Hanging
  <1>7. Attempting'
    BY <1>1, <1>2, <1>3 DEF MoveInv, Attempting, OwnJournal, Recorded, FlagsKept, src, dst
  <1>8. Committing' /\ Asking'
    BY <1>1, <1>2, <1>3 DEF MoveInv, Committing, Asking, Recorded, FlagsKept, dst
  <1>9. Stages'
    BY <1>1, <1>2, <1>3 DEF Stages, FlagsKept, Before, After
  <1>10. Cleanup'
    <2>1. ~Left => \A d \in Data: tree[src][d] = "absent"
      BY DEF Left
    <2>2. Retired => \A d \in Data: tree[src][d] = "absent"
      BY <1>1, <1>3 DEF MoveInv, Committing, ReceiptIsTrue, Recorded, Retired, src
    <2> QED
      BY <1>1, <1>2, <2>1, <2>2 DEF MoveInv, Cleanup, After, src
  <1> QED
    BY <1>4, <1>5, <1>6, <1>7, <1>8, <1>9, <1>10 DEF MoveInv

(* RelocationFailure::retry.                                               *)
LEMMA RetryInductive ==
  ASSUME MoveInv, Retry
  PROVE  MoveInv'
  <1>1. /\ app = "failed" /\ ~att.uncertain /\ app' = "move"
        /\ at' = IF att.committed THEN "finish" ELSE "own"
        /\ UNCHANGED <<tree, control, proof, place, mayBe, extra, loose, epoch, profile, profiles, residue, journal, intent, att, truth, damage>>
        /\ UNCHANGED <<moves, faults, deaths, outages>>
    BY DEF Retry, disk, namespace, attempt, counters
  <1>2. TypeOK'
    BY <1>1, TypesKept DEF MoveInv, TypeOK, Steps
  <1>3. Folders' /\ Authority' /\ ReceiptIsTrue' /\ Moves'
    BY <1>1, StillThere
  <1>4. Durable'
    BY <1>1 DEF MoveInv, Durable, Hanging
  <1>5. Attempting' /\ Committing' /\ Asking'
    BY <1>1 DEF MoveInv, Attempting, OwnJournal, Committing, Asking, Recorded, src, dst
  <1>6. Stages' /\ Cleanup'
    BY <1>1 DEF Stages, Before, After, Cleanup
  <1> QED
    BY <1>2, <1>3, <1>4, <1>5, <1>6 DEF MoveInv

(* TryAgain and Reopen: nobody attempts a move afterwards.                 *)
LEMMA StartInductive ==
  ASSUME MoveInv, TryAgain \/ Reopen
  PROVE  MoveInv'
  <1>1. /\ app \in {"refused", "asks", "start", "recover"}
        /\ app' \in {"start", "open", "refused"} /\ at' \in Steps
        /\ UNCHANGED <<tree, control, proof, place, mayBe, extra, loose, profile, profiles, residue, journal, intent, att, truth, damage>>
        /\ UNCHANGED <<moves, faults, deaths, outages>>
        /\ epoch' \in [Roots -> Nat]
    <2>1. at \in Steps /\ epoch \in [Roots -> Nat] /\ profile \in Roots
      BY DEF MoveInv, TypeOK
    <2>2. CASE TryAgain
      BY <2>1, <2>2 DEF TryAgain, disk, namespace, attempt, counters, Steps
    <2>3. CASE Reopen
      <3>1. [epoch EXCEPT ![profile] = @ + 1] \in [Roots -> Nat]
        BY <2>1
      <3>2. /\ epoch' \in {epoch, [epoch EXCEPT ![profile] = @ + 1]}
            /\ at' \in {at, "idle"}
            /\ app \in {"start", "recover"} /\ app' \in {"open", "refused"}
        BY <2>3 DEF Reopen, OpenAt
      <3>3. /\ UNCHANGED <<tree, control, proof, place, mayBe, extra, loose, profile, profiles, residue, journal, intent, att, truth, damage>>
            /\ UNCHANGED <<moves, faults, deaths, outages>>
        BY <2>3 DEF Reopen, namespace, attempt, counters
      <3> QED
        BY <2>1, <3>1, <3>2, <3>3 DEF Steps
    <2> QED
      BY <2>2, <2>3
  <1>2. TypeOK'
    BY <1>1, TypesKept DEF MoveInv, TypeOK
  <1>3. Folders' /\ Authority' /\ ReceiptIsTrue' /\ Moves'
    BY <1>1, StillThere
  <1>4. Durable'
    BY <1>1 DEF MoveInv, Durable, Hanging
  <1>5. Attempting' /\ Committing' /\ Asking' /\ Stages' /\ Cleanup'
    BY <1>1 DEF Attempting, OwnJournal, Recorded, Committing, Asking, Stages, Cleanup
  <1> QED
    BY <1>2, <1>3, <1>4, <1>5 DEF MoveInv

(* retry_relocation: the recorded workspace is taken over.                 *)
LEMMA RetryMoveInductive ==
  ASSUME MoveInv, RetryMove
  PROVE  MoveInv'
  <1>1. /\ app = "asks" /\ Recorded /\ app' = "move" /\ at' = "own"
        /\ place[dst] # "none" /\ proof[dst] = intent.move
        /\ UNCHANGED <<tree, control, proof, place, mayBe, extra, loose, epoch, profile, profiles, residue, journal, intent, truth, damage>>
        /\ UNCHANGED <<moves, faults, deaths, outages>>
        /\ att' = [att EXCEPT !.startup = TRUE, !.published = ~intent.selected /\ place[dst] = "there"]
    BY DEF RetryMove, disk, namespace, counters, Recorded
  <1>2. /\ att' \in Attempts
        /\ att'.published <=> (~intent.selected /\ place[dst] = "there")
        /\ att'.journal <=> att.journal
        /\ att'.uncertain <=> att.uncertain
        /\ att'.committed <=> att.committed
    BY <1>1 DEF MoveInv, TypeOK, Attempts
  <1>3. att.journal /\ ~att.committed /\ ~att.uncertain /\ profile = src /\ intent # NoIntent
        /\ journal.state = "intent" /\ journal.intent = intent
    BY <1>1 DEF MoveInv, Asking
  <1>4. intent.selected => place[dst] = "there"
    <2>1. Genuine(intent)
      BY <1>3 DEF MoveInv, Moves
    <2>2. dst \in Roots /\ place[dst] \in Places /\ place[dst] \in mayBe[dst]
      BY DEF MoveInv, TypeOK, Intents, dst, Folders, Folder
    <2> QED
      BY <1>1, <2>1, <2>2 DEF Genuine, Places, dst
  <1>5. TypeOK'
    BY <1>1, <1>2, TypesKept DEF MoveInv, TypeOK, Steps
  <1>6. Folders' /\ Authority' /\ ReceiptIsTrue' /\ Moves'
    BY <1>1, StillThere
  <1>7. Durable'
    BY <1>1 DEF MoveInv, Durable, Hanging
  <1>8. Attempting'
    BY <1>1, <1>2, <1>3, <1>4 DEF Attempting, OwnJournal, Recorded, src, dst
  <1>9. Committing' /\ Asking' /\ Stages' /\ Cleanup'
    BY <1>1, <1>2, <1>3 DEF Committing, Asking, Stages, Cleanup, Before, After
  <1> QED
    BY <1>5, <1>6, <1>7, <1>8, <1>9 DEF MoveInv

(* recover_relocation, up to the cleanup.                                  *)
LEMMA RecoverInductive ==
  ASSUME MoveInv, Recover
  PROVE  MoveInv'
  <1>1. /\ app = "start" /\ Recorded
        /\ UNCHANGED <<tree, control, proof, place, mayBe, extra, loose, epoch, profile, profiles, residue, journal, truth, damage>>
        /\ faults' \in 0..MaxFaults /\ UNCHANGED <<moves, deaths, outages>>
    BY FaultBounded, CountersKept DEF MoveInv, Recover, disk, namespace, Recorded
  <1>2. \/ app' = "refused" /\ UNCHANGED <<at, intent, att>>
        \/ /\ journal.state # "torn" /\ Qualified(journal.intent)
           /\ intent' = journal.intent
           /\ att' = [NewAttempt EXCEPT !.journal = TRUE, !.committed = Committed]
           /\ IF Committed THEN app' = "recover" /\ at' = "finish" ELSE app' = "asks" /\ UNCHANGED at
    BY DEF Recover, attempt
  <1>3. Genuine(journal.intent) /\ journal.intent \in Intents /\ journal.intent # NoIntent
    BY <1>1 DEF MoveInv, Moves, TypeOK, Journals, Genuine, NoIntent
  <1>4. CASE app' = "refused" /\ UNCHANGED <<at, intent, att>>
    <2>1. TypeOK'
      BY <1>1, <1>4, TypesKept DEF MoveInv, TypeOK
    <2>2. Folders' /\ Authority' /\ ReceiptIsTrue' /\ Moves'
      BY <1>1, <1>4, StillThere
    <2>3. Durable'
      BY <1>1, <1>4 DEF MoveInv, Durable, Hanging
    <2>4. Attempting' /\ Committing' /\ Asking' /\ Stages' /\ Cleanup'
      BY <1>4 DEF Attempting, OwnJournal, Recorded, Committing, Asking, Stages, Cleanup
    <2> QED
      BY <2>1, <2>2, <2>3, <2>4 DEF MoveInv
  <1>5. CASE /\ journal.state # "torn" /\ Qualified(journal.intent)
             /\ intent' = journal.intent
             /\ att' = [NewAttempt EXCEPT !.journal = TRUE, !.committed = Committed]
             /\ IF Committed THEN app' = "recover" /\ at' = "finish" ELSE app' = "asks" /\ UNCHANGED at
    <2>1. /\ att' \in Attempts
          /\ att'.journal /\ ~att'.uncertain
          /\ att'.committed <=> Committed
      BY <1>5 DEF Attempts, NewAttempt, Committed
    <2>2. TypeOK'
      BY <1>1, <1>3, <1>5, <2>1, TypesKept DEF MoveInv, TypeOK, Steps
    <2>3. Folders' /\ Authority' /\ ReceiptIsTrue'
      BY <1>1, StillThere
    <2>4. Moves'
      BY <1>1, <1>3, <1>5, StillThere DEF Moves, Recorded
    <2>5. Durable'
      BY <1>1, <1>5 DEF MoveInv, Durable, Hanging
    <2>6. Attempting' /\ Stages' /\ Cleanup'
      BY <1>5 DEF Attempting, OwnJournal, Recorded, Stages, Cleanup, After
    <2>7. Committing'
      BY <1>1, <1>3, <1>5, <2>1 DEF Committing, Committed, Recorded, dst
    <2>8. Asking'
      <3>1. CASE ~Committed
        <4>1. profile = journal.intent.src /\ journal.state # "retired"
          BY <1>5, <3>1 DEF Qualified, Retired, Committed
        <4>2. journal.state = "intent"
          BY <1>1, <1>5, <4>1 DEF MoveInv, TypeOK, Journals, Recorded
        <4> QED
          BY <1>1, <1>3, <1>5, <2>1, <3>1, <4>1, <4>2 DEF Asking, src
      <3>2. CASE Committed
        BY <1>5, <3>2 DEF Asking
      <3> QED
        BY <3>1, <3>2
    <2> QED
      BY <2>2, <2>3, <2>4, <2>5, <2>6, <2>7, <2>8 DEF MoveInv
  <1> QED
    BY <1>2, <1>4, <1>5

----------------------------------------------------------------------------
(* Steps that change the journal.                                          *)

LEMMA FoldersStay ==
  ASSUME MoveInv, UNCHANGED <<tree, control, proof, place, mayBe, extra, loose, profile, truth, damage, moves>>
  PROVE  /\ Folders' /\ (profile \in profiles' => Authority')
         /\ \A i: Genuine(i)' <=> Genuine(i)
         /\ \A r \in Roots: Live(r)' <=> Live(r)
  BY DEF MoveInv, Folders, Folder, Authority, Live, Genuine

LEMMA JournalTypes ==
  ASSUME TypeOK, UNCHANGED <<tree, control, proof, place, mayBe, extra, loose, profile, residue, truth, damage, moves>>,
         epoch' \in [Roots -> Nat], profiles' \subseteq Roots, journal' \in Journals,
         intent' \in Intents, att' \in Attempts,
         app' \in {"start", "asks", "open", "move", "failed", "recover", "refused"},
         at' \in Steps, faults' \in 0..MaxFaults, UNCHANGED <<deaths, outages>>
  PROVE  TypeOK'
  BY DEF TypeOK

(* create_move_journal, the write.                                         *)
LEMMA WriteJournalInductive ==
  ASSUME MoveInv, WriteJournal
  PROVE  MoveInv'
  <1>1. /\ app = "move" /\ at = "journal"
        /\ UNCHANGED <<tree, control, proof, place, mayBe, extra, loose, epoch, profile, profiles, residue, intent, att, truth, damage>>
        /\ UNCHANGED <<moves, faults, deaths, outages>>
        /\ \/ /\ journal' = [state |-> "torn", intent |-> intent]
              /\ app' = "move" /\ at' = "jflush"
           \/ journal' = journal /\ app' = "failed" /\ at' = at
    BY DEF WriteJournal, Working, Go, Fail, disk, attempt, counters
  <1>2. /\ intent # NoIntent /\ Genuine(intent) /\ ~att.journal /\ ~att.committed /\ ~att.uncertain
        /\ profile = src /\ place[dst] # "none"
        /\ att.published \/ intent.selected => place[dst] = "there"
    BY <1>1 DEF MoveInv, Attempting, OwnJournal, Recorded, Stages, Moves, Before
  <1>3. journal' \in Journals /\ (journal' = journal \/ (journal'.state = "torn" /\ journal'.intent = intent))
    BY <1>1 DEF MoveInv, TypeOK, Journals
  <1>4. TypeOK'
    BY <1>1, <1>3, JournalTypes DEF MoveInv, TypeOK, Steps
  <1>5. Folders' /\ Authority'
    BY <1>1, FoldersStay DEF MoveInv, Authority
  <1>6. Moves'
    BY <1>1, <1>2, <1>3, FoldersStay DEF MoveInv, Moves, Recorded
  <1>7. ReceiptIsTrue'
    BY <1>1, <1>3 DEF MoveInv, ReceiptIsTrue
  <1>8. Durable'
    BY <1>1, <1>2 DEF MoveInv, Durable, Hanging
  <1>9. Attempting' /\ Committing' /\ Asking' /\ Cleanup'
    BY <1>1, <1>2 DEF Attempting, OwnJournal, Recorded, Committing, Asking, Cleanup, After, src, dst
  <1>10. Stages'
    BY <1>1, <1>2, <1>3 DEF MoveInv, Stages, Before, After, Mine, dst
  <1> QED
    BY <1>4, <1>5, <1>6, <1>7, <1>8, <1>9, <1>10 DEF MoveInv

LEMMA TornKeepsIntent ==
  ASSUME journal \in Journals, NEW j \in TornJournals
  PROVE  j \in Journals /\ j.state \in {"torn", "intent"} /\ j.intent = journal.intent
  BY DEF TornJournals, Journals

(* create_move_journal, the flush.                                         *)
LEMMA FlushJournalInductive ==
  ASSUME MoveInv, FlushJournal
  PROVE  MoveInv'
  <1>1. /\ app = "move" /\ at = "jflush"
        /\ UNCHANGED <<tree, control, proof, place, mayBe, extra, loose, epoch, profile, profiles, residue, intent, truth, damage>>
        /\ faults' \in 0..MaxFaults /\ UNCHANGED <<moves, deaths, outages>>
        /\ \/ /\ journal' = [journal EXCEPT !.state = "intent"]
              /\ att' = [att EXCEPT !.journal = TRUE]
              /\ app' = "move" /\ at' = IF att.published THEN "check" ELSE "copy"
           \/ journal' \in TornJournals /\ att' = att /\ app' = "failed" /\ at' = at
    BY FaultBounded, CountersKept DEF MoveInv, FlushJournal, Working, Go, Fail, disk
  <1>2. /\ intent # NoIntent /\ Genuine(intent) /\ ~att.journal /\ ~att.committed /\ ~att.uncertain
        /\ profile = src /\ place[dst] # "none" /\ journal.intent = intent
        /\ att.published \/ intent.selected => place[dst] = "there"
        /\ Mine /\ mayBe[dst] = {place[dst]}
    BY <1>1 DEF MoveInv, Attempting, OwnJournal, Recorded, Stages, Moves, Before
  <1>3. /\ journal' \in Journals /\ journal'.intent = intent /\ journal'.state \in {"torn", "intent"}
        /\ app' = "move" => journal'.state = "intent"
    <2>1. journal \in Journals
      BY DEF MoveInv, TypeOK
    <2>2. CASE journal' = [journal EXCEPT !.state = "intent"]
      BY <1>2, <2>1, <2>2 DEF Journals
    <2>3. CASE journal' \in TornJournals /\ app' = "failed"
      BY <1>2, <2>1, <2>3, TornKeepsIntent
    <2> QED
      BY <1>1, <2>2, <2>3
  <1>4. /\ att' \in Attempts
        /\ att'.published <=> att.published
        /\ ~att'.uncertain /\ ~att'.committed
        /\ att'.journal <=> app' = "move"
    BY <1>1, <1>2 DEF MoveInv, TypeOK, Attempts
  <1>5. TypeOK'
    BY <1>1, <1>3, <1>4, JournalTypes DEF MoveInv, TypeOK, Steps
  <1>6. Folders' /\ Authority'
    BY <1>1, FoldersStay DEF MoveInv, Authority
  <1>7. Moves'
    BY <1>1, <1>2, <1>3, FoldersStay DEF MoveInv, Moves, Recorded
  <1>8. ReceiptIsTrue'
    BY <1>3 DEF ReceiptIsTrue
  <1>9. Durable'
    BY <1>1, <1>2 DEF MoveInv, Durable, Hanging
  <1>10. Attempting' /\ Committing' /\ Asking' /\ Cleanup'
    BY <1>1, <1>2, <1>3, <1>4 DEF Attempting, OwnJournal, Recorded, Committing, Asking, Cleanup, After, src, dst
  <1>11. Stages'
    BY <1>1, <1>2, <1>3, <1>4 DEF Stages, Before, After, Mine, dst
  <1> QED
    BY <1>5, <1>6, <1>7, <1>8, <1>9, <1>10, <1>11 DEF MoveInv

(* acknowledge_move_retirement.                                            *)
LEMMA AcknowledgeInductive ==
  ASSUME MoveInv, Acknowledge
  PROVE  MoveInv'
  <1>1. /\ app \in {"move", "recover"} /\ at = "ack" /\ app' = app /\ at' \in {"controls", "close"}
        /\ UNCHANGED <<tree, control, proof, place, mayBe, extra, loose, epoch, profile, residue, intent, truth, damage>>
        /\ faults' \in 0..MaxFaults /\ UNCHANGED <<moves, deaths, outages>>
        /\ profiles' = profiles \/ profiles' = {profile}
        /\ journal' = journal \/ (journal.state = "intent" /\ journal' = [journal EXCEPT !.state = "retired"])
        /\ att' \in Attempts /\ FlagsKept
    <2>1. att \in Attempts /\ journal \in Journals
      BY DEF MoveInv, TypeOK
    <2>2. att' = att \/ att' = [att EXCEPT !.pending = TRUE]
      BY DEF Acknowledge, Pending
    <2>3. att' \in Attempts /\ FlagsKept
      BY <2>1, <2>2, PendingKeeps, SameFlags
    <2>4. [journal EXCEPT !.state = IF @ = "intent" THEN "retired" ELSE @]
            = IF journal.state = "intent" THEN [journal EXCEPT !.state = "retired"] ELSE journal
      BY <2>1 DEF Journals
    <2>5. journal' = journal \/ (journal.state = "intent" /\ journal' = [journal EXCEPT !.state = "retired"])
      BY <2>4 DEF Acknowledge, Receipt
    <2> QED
      BY <2>3, <2>5, FaultBounded, CountersKept
         DEF MoveInv, Acknowledge, Cleaning, Go, Pending, FlushNamespace, disk
  <1>2. intent # NoIntent /\ profile = dst /\ (Recorded => journal.intent = intent /\ journal.state # "torn")
        /\ (\A d \in Data: tree[src][d] = "absent")
    BY <1>1 DEF MoveInv, Committing, Stages, Cleanup, After
  <1>3. app = "move" => att.committed /\ ~att.uncertain
    BY <1>1 DEF MoveInv, Stages, After, Attempting, OwnJournal, Recorded
  <1>4. /\ journal' \in Journals /\ journal'.intent = journal.intent
        /\ journal'.state = "none" <=> journal.state = "none"
        /\ journal'.state # "torn" \/ journal.state = "torn"
        /\ journal' = journal \/ (journal.state = "intent" /\ journal'.state = "retired")
    BY <1>1 DEF MoveInv, TypeOK, Journals
  <1>5. TypeOK'
    BY <1>1, <1>4, JournalTypes DEF MoveInv, TypeOK, Steps
  <1>6. Folders' /\ Authority'
    BY <1>1, FoldersStay DEF MoveInv, Authority
  <1>7. Moves'
    BY <1>1, <1>4, FoldersStay DEF MoveInv, Moves, Recorded
  <1>8. ReceiptIsTrue'
    BY <1>1, <1>2, <1>4 DEF MoveInv, ReceiptIsTrue, Recorded, src, dst
  <1>9. Durable'
    BY <1>1, <1>3 DEF MoveInv, Durable, Hanging
  <1>10. Attempting'
    BY <1>1, <1>2, <1>3 DEF MoveInv, Attempting, OwnJournal, Recorded, FlagsKept, src, dst
  <1>11. Committing' /\ Asking' /\ Cleanup'
    BY <1>1, <1>2, <1>4 DEF Committing, Asking, Cleanup, After, Recorded, src, dst
  <1>12. Stages'
    BY <1>1, <1>3 DEF Stages, FlagsKept, Before, After
  <1> QED
    BY <1>5, <1>6, <1>7, <1>8, <1>9, <1>10, <1>11, <1>12 DEF MoveInv

LEMMA NoJournalTyped == NoJournal \in Journals /\ NoJournal.state = "none" /\ NoIntent \in Intents
  BY HomeAssumption, BoundsAssumption DEF NoJournal, NoIntent, Journals, Intents, Nothing, Content

(* A journal that is left alone or retired proves nothing new.             *)
LEMMA JournalEnds ==
  ASSUME MoveInv, UNCHANGED <<tree, control, proof, place, mayBe, extra, loose, profile, intent, truth, damage, moves>>,
         profiles' = profiles \/ profiles' = {profile},
         journal' \in {journal, NoJournal}
  PROVE  Folders' /\ Authority' /\ Moves' /\ ReceiptIsTrue'
  <1>1. Folders' /\ Authority'
    BY FoldersStay DEF MoveInv, Authority
  <1>2. Moves'
    BY FoldersStay, NoJournalTyped DEF MoveInv, Moves, Recorded
  <1>3. ReceiptIsTrue'
    BY NoJournalTyped DEF MoveInv, ReceiptIsTrue
  <1> QED
    BY <1>1, <1>2, <1>3

(* The end of finish: the journal is retired.                              *)
LEMMA CloseMoveInductive ==
  ASSUME MoveInv, CloseMove
  PROVE  MoveInv'
  <1>1. /\ app \in {"move", "recover"} /\ at = "close"
        /\ UNCHANGED <<tree, control, proof, place, mayBe, extra, loose, profile, residue, intent, att, truth, damage>>
        /\ profiles' = profiles \/ profiles' = {profile}
        /\ journal' \in {journal, NoJournal}
        /\ faults' \in 0..MaxFaults /\ UNCHANGED <<moves, deaths, outages>>
    BY FaultBounded, CountersKept DEF MoveInv, CloseMove, Cleaning, attempt, FlushNamespace
  <1>2. \/ app' \in {"open", "start", "refused"} /\ at' \in {at, "idle"}
        \/ app = "move" /\ app' = "failed" /\ at' = at
        \/ app = "recover" /\ app' = "recover" /\ at' = "reopen"
    BY DEF CloseMove, Cleaning, OpenAt, CloseAt, Go, Fail
  <1>3. epoch' \in [Roots -> Nat]
    <2>1. epoch \in [Roots -> Nat] /\ dst \in Roots
      BY DEF MoveInv, TypeOK, Intents, dst
    <2>2. epoch' = epoch \/ epoch' = [epoch EXCEPT ![dst] = @ + 1]
      BY DEF CloseMove, OpenAt, CloseAt
    <2> QED
      BY <2>1, <2>2
  <1>4. intent # NoIntent /\ profile = dst /\ (Recorded => journal.intent = intent /\ journal.state # "torn")
        /\ (app = "move" => att.committed /\ ~att.uncertain)
    BY <1>1 DEF MoveInv, Committing, Stages, After, Attempting, OwnJournal, Recorded
  <1>5. TypeOK'
    BY <1>1, <1>2, <1>3, NoJournalTyped, JournalTypes DEF MoveInv, TypeOK, Steps
  <1>6. Folders' /\ Authority' /\ Moves' /\ ReceiptIsTrue'
    BY <1>1, JournalEnds
  <1>7. Durable'
    BY <1>1, <1>4 DEF MoveInv, Durable, Hanging
  <1>8. Attempting'
    BY <1>1, <1>2, <1>4 DEF MoveInv, Attempting, OwnJournal, Recorded, src, dst
  <1>9. Committing'
    BY <1>1, <1>2, <1>4, NoJournalTyped DEF Committing, Recorded, dst
  <1>10. Stages' /\ Cleanup' /\ Asking'
    BY <1>1, <1>2 DEF Stages, Cleanup, Asking, After
  <1> QED
    BY <1>5, <1>6, <1>7, <1>8, <1>9, <1>10 DEF MoveInv

(* resume_source.                                                          *)
LEMMA ResumeSourceInductive ==
  ASSUME MoveInv, ResumeSource
  PROVE  MoveInv'
  <1>1. /\ app = "failed" /\ ~att.uncertain /\ ~att.committed
        /\ UNCHANGED <<tree, control, proof, place, mayBe, extra, loose, profile, profiles, residue, intent, truth, damage>>
        /\ faults' \in 0..MaxFaults /\ UNCHANGED <<moves, deaths, outages>>
        /\ journal' \in {journal, NoJournal}
        /\ \/ /\ app' \in {"open", "start"} /\ at' = "idle"
              /\ att' = [att EXCEPT !.journal = FALSE]
              /\ epoch' = [epoch EXCEPT ![src] = @ + 1]
           \/ UNCHANGED <<att, app, at, epoch>>
    BY FaultBounded, CountersKept DEF MoveInv, ResumeSource, OpenAt, CloseAt
  <1>2. att' \in Attempts /\ epoch' \in [Roots -> Nat]
    <2>1. att \in Attempts /\ epoch \in [Roots -> Nat] /\ src \in Roots
      BY DEF MoveInv, TypeOK, Intents, src
    <2>2. [att EXCEPT !.journal = FALSE] \in Attempts
      BY <2>1 DEF Attempts
    <2>3. [epoch EXCEPT ![src] = @ + 1] \in [Roots -> Nat]
      BY <2>1
    <2> QED
      BY <1>1, <2>1, <2>2, <2>3
  <1>3. TypeOK'
    BY <1>1, <1>2, NoJournalTyped, JournalTypes DEF MoveInv, TypeOK, Steps
  <1>4. Folders' /\ Authority' /\ Moves' /\ ReceiptIsTrue'
    BY <1>1, JournalEnds
  <1>5. Durable'
    BY <1>1 DEF MoveInv, Durable, Hanging
  <1>6. Attempting' /\ Committing' /\ Stages' /\ Cleanup' /\ Asking'
    BY <1>1, NoJournalTyped DEF MoveInv, Attempting, OwnJournal, Committing, Stages, Cleanup, Asking, Recorded, src, dst
  <1> QED
    BY <1>3, <1>4, <1>5, <1>6 DEF MoveInv

(* cancel_relocation.                                                      *)
LEMMA KeepSourceInductive ==
  ASSUME MoveInv, KeepSource
  PROVE  MoveInv'
  <1>1. /\ app = "asks"
        /\ UNCHANGED <<tree, control, proof, place, mayBe, extra, loose, epoch, profile, residue, intent, att, truth, damage>>
        /\ profiles' = profiles \/ profiles' = {profile}
        /\ journal' \in {journal, NoJournal}
        /\ faults' \in 0..MaxFaults /\ UNCHANGED <<moves, deaths, outages>>
        /\ (app' = "start" /\ at' = "idle") \/ (app' = app /\ at' = at)
    BY FaultBounded, CountersKept DEF MoveInv, KeepSource, FlushNamespace, disk, attempt
  <1>2. TypeOK'
    BY <1>1, NoJournalTyped, JournalTypes DEF MoveInv, TypeOK, Steps
  <1>3. Folders' /\ Authority' /\ Moves' /\ ReceiptIsTrue'
    BY <1>1, JournalEnds
  <1>4. Durable'
    BY <1>1 DEF MoveInv, Durable, Hanging
  <1>5. Attempting' /\ Committing' /\ Stages' /\ Cleanup'
    BY <1>1 DEF Attempting, OwnJournal, Recorded, Committing, Stages, Cleanup
  <1>6. Asking'
    BY <1>1, NoJournalTyped DEF MoveInv, Asking, Recorded, src
  <1> QED
    BY <1>2, <1>3, <1>4, <1>5, <1>6 DEF MoveInv
----------------------------------------------------------------------------
(* The commit.                                                             *)

(* replace_owned_config: the profile is exchanged.                         *)
LEMMA ExchangeInductive ==
  ASSUME MoveInv, Exchange
  PROVE  MoveInv'
  <1>1. /\ app = "move" /\ at = "commit"
        /\ UNCHANGED <<tree, control, proof, place, mayBe, extra, loose, epoch, journal, intent, truth, damage>>
        /\ faults' \in 0..MaxFaults /\ UNCHANGED <<moves, deaths, outages>>
        /\ att' = [att EXCEPT !.uncertain = TRUE]
        /\ residue' \in BOOLEAN
        /\ \/ profile' = dst /\ profiles' = {src, dst} /\ app' = "move" /\ at' = "sync"
           \/ UNCHANGED <<profile, profiles>> /\ app' = "failed" /\ at' = at
    BY FaultBounded, CountersKept DEF MoveInv, Exchange, Working, Go, Fail, disk, Uncertain
  <1>2. /\ att' \in Attempts /\ att'.uncertain
        /\ att'.journal <=> att.journal
        /\ att'.published <=> att.published
        /\ att'.committed <=> att.committed
    BY <1>1 DEF MoveInv, TypeOK, Attempts
  <1>3. /\ intent # NoIntent /\ att.journal /\ ~att.committed /\ profile = src /\ Live(src) /\ Live(dst)
        /\ src \in Roots /\ dst \in Roots /\ src # dst
        /\ OwnJournal
        /\ place[dst] # "none" /\ (att.published \/ intent.selected => place[dst] = "there")
    BY <1>1 DEF MoveInv, Attempting, OwnJournal, Recorded, Stages, Before, Authority, Moves, Genuine, TypeOK, Intents, src, dst
  <1>4. TypeOK'
    BY <1>1, <1>2, <1>3 DEF MoveInv, TypeOK, Steps
  <1>5. \A r \in Roots: Live(r)' <=> Live(r)
    BY <1>1 DEF Live
  <1>6. Folders' /\ Moves'
    BY <1>1 DEF MoveInv, Folders, Folder, Moves, Genuine, Recorded
  <1>7. Authority'
    <2>1. CASE profile' = dst /\ profiles' = {src, dst}
      BY <1>1, <1>3, <2>1 DEF Authority, Live
    <2>2. CASE UNCHANGED <<profile, profiles>>
      BY <1>1, <2>2 DEF MoveInv, Authority, Live
    <2> QED
      BY <1>1, <2>1, <2>2
  <1>8. ReceiptIsTrue'
    BY <1>1, <1>3 DEF ReceiptIsTrue, OwnJournal, Recorded
  <1>9. Live(src)'
    BY <1>1, <1>3 DEF Live, src
  <1>10. Durable'
    <2>1. CASE profile' = dst /\ profiles' = {src, dst} /\ app' = "move"
      BY <1>1, <1>2, <1>9, <2>1 DEF Durable, Hanging, src, dst
    <2>2. CASE UNCHANGED <<profile, profiles>>
      <3>1. ~att.uncertain
        BY <1>1 DEF MoveInv, Stages, Before
      <3> QED
        BY <1>1, <2>2, <3>1 DEF MoveInv, Durable, Hanging
    <2> QED
      BY <1>1, <2>1, <2>2
  <1>11. Attempting'
    BY <1>1, <1>2, <1>3 DEF Attempting, OwnJournal, Recorded, src, dst
  <1>12. Stages'
    BY <1>1, <1>2, <1>3, <1>9 DEF Stages, Before, After, src, dst
  <1>13. Committing' /\ Cleanup' /\ Asking'
    BY <1>1, <1>2, <1>3 DEF Committing, Cleanup, Asking
  <1> QED
    BY <1>4, <1>6, <1>7, <1>8, <1>10, <1>11, <1>12, <1>13 DEF MoveInv

(* The namespace is flushed.                                               *)
LEMMA SyncInductive ==
  ASSUME MoveInv, Sync
  PROVE  MoveInv'
  <1>1. /\ app = "move" /\ at = "sync"
        /\ UNCHANGED <<tree, control, proof, place, mayBe, extra, loose, epoch, profile, journal, intent, truth, damage>>
        /\ faults' \in 0..MaxFaults /\ UNCHANGED <<moves, deaths, outages>>
        /\ \/ /\ profiles' = {dst} /\ residue' = FALSE /\ app' = "move" /\ at' = "finish"
              /\ att' = [att EXCEPT !.uncertain = FALSE, !.committed = TRUE]
           \/ /\ profiles' \in {profiles, {dst}} /\ residue' \in {residue, FALSE}
              /\ app' = "failed" /\ at' = at /\ att' = att
    BY FaultBounded, CountersKept DEF MoveInv, Sync, Working, Go, Fail, disk
  <1>2. /\ intent # NoIntent /\ att.journal /\ ~att.committed /\ att.uncertain
        /\ profile = dst /\ profiles = {src, dst} /\ Live(src)
        /\ src \in Roots /\ dst \in Roots
        /\ OwnJournal
        /\ place[dst] # "none" /\ (att.published \/ intent.selected => place[dst] = "there")
    BY <1>1 DEF MoveInv, Attempting, OwnJournal, Recorded, Stages, TypeOK, Intents, src, dst
  <1>3. /\ att' \in Attempts
        /\ att'.journal
        /\ att'.published <=> att.published
        /\ att'.committed <=> app' = "move"
        /\ att'.uncertain <=> app' = "failed"
    <2>1. att \in Attempts
      BY DEF MoveInv, TypeOK
    <2>2. CASE att' = att /\ app' = "failed"
      BY <1>2, <2>1, <2>2
    <2>3. CASE att' = [att EXCEPT !.uncertain = FALSE, !.committed = TRUE] /\ app' = "move"
      BY <1>2, <2>1, <2>3 DEF Attempts
    <2> QED
      BY <1>1, <2>2, <2>3
  <1>4. TypeOK'
    BY <1>1, <1>2, <1>3 DEF MoveInv, TypeOK, Steps
  <1>5. Folders' /\ Moves'
    BY <1>1 DEF MoveInv, Folders, Folder, Moves, Genuine, Recorded
  <1>6. Authority'
    BY <1>1, <1>2 DEF MoveInv, Authority, Live
  <1>7. ReceiptIsTrue'
    BY <1>1, <1>2 DEF ReceiptIsTrue, OwnJournal, Recorded
  <1>8. Live(src)'
    BY <1>1, <1>2 DEF Live, src
  <1>9. Durable'
    BY <1>1, <1>2, <1>3, <1>8 DEF Durable, Hanging, src, dst
  <1>10. Attempting'
    BY <1>1, <1>2, <1>3 DEF Attempting, OwnJournal, Recorded, src, dst
  <1>11. Stages'
    BY <1>1, <1>2, <1>3 DEF Stages, Before, After
  <1>12. Committing' /\ Cleanup' /\ Asking'
    BY <1>1, <1>2, <1>3 DEF Committing, Cleanup, Asking, OwnJournal, Recorded, dst
  <1> QED
    BY <1>4, <1>5, <1>6, <1>7, <1>9, <1>10, <1>11, <1>12 DEF MoveInv

----------------------------------------------------------------------------
(* Steps before the commit: only the destination is touched.               *)

(* What is known of the two folders while the move is not committed.       *)
LEMMA TwoFolders ==
  ASSUME MoveInv, app = "move", at \in Before
  PROVE  /\ src \in Roots /\ dst \in Roots /\ src # dst /\ profile = src
         /\ intent # NoIntent /\ Genuine(intent) /\ intent \in Intents
         /\ place[dst] # "none" /\ (att.published \/ intent.selected => place[dst] = "there")
         /\ ~att.committed /\ ~att.uncertain
         /\ att.journal => OwnJournal
         /\ deaths = 0 => profiles = {profile}
  BY DEF MoveInv, Attempting, OwnJournal, Recorded, Stages, Moves, Genuine, TypeOK, Intents, src, dst, Durable, Hanging

(* Lease, state record and proof of the destination.                       *)
LEMMA OwnInductive ==
  ASSUME MoveInv, Own
  PROVE  MoveInv'
  <1>1. /\ app = "move" /\ at = "own" /\ at \in Before
        /\ UNCHANGED <<tree, place, extra, loose, profile, profiles, residue, journal, intent, truth, damage>>
        /\ faults' \in 0..MaxFaults /\ UNCHANGED <<moves, deaths, outages>>
    BY FaultBounded, CountersKept DEF MoveInv, Own, Working, namespace, Before
  <1>2. /\ src \in Roots /\ dst \in Roots /\ src # dst /\ profile = src
        /\ intent # NoIntent /\ Genuine(intent) /\ intent \in Intents
        /\ place[dst] # "none" /\ (att.published \/ intent.selected => place[dst] = "there")
        /\ ~att.committed /\ ~att.uncertain
        /\ att.journal => OwnJournal
        /\ deaths = 0 => profiles = {profile}
    BY <1>1, TwoFolders
  <1>3. CASE app' = "failed" /\ at' = at /\ UNCHANGED <<mayBe, control, proof, epoch, att>>
    <2>1. TypeOK'
      BY <1>1, <1>3, TypesKept DEF MoveInv, TypeOK
    <2>2. Folders' /\ Authority' /\ ReceiptIsTrue' /\ Moves'
      BY <1>1, <1>3, StillThere
    <2>3. Durable' /\ Attempting' /\ Stages' /\ Committing' /\ Cleanup' /\ Asking'
      BY <1>1, <1>2, <1>3 DEF Durable, Attempting, OwnJournal, Recorded, Stages, Committing, Cleanup, Asking, src, dst
    <2> QED
      BY <2>1, <2>2, <2>3 DEF MoveInv
  <1>4. CASE /\ mayBe' = [mayBe EXCEPT ![dst] = {place[dst]}]
             /\ control' = [control EXCEPT ![dst] = Controls]
             /\ proof' = [proof EXCEPT ![dst] = intent.move]
             /\ epoch' = [epoch EXCEPT ![dst] = intent.epoch]
             /\ att' = [att EXCEPT !.published = @ \/ (~intent.selected /\ place[dst] = "there")]
             /\ app' = "move"
             /\ at' = IF ~att.journal THEN "journal" ELSE IF att'.published THEN "check" ELSE "copy"
    <2>1. /\ att' \in Attempts
          /\ att'.published <=> att.published \/ (~intent.selected /\ place[dst] = "there")
          /\ att'.journal <=> att.journal
          /\ ~att'.uncertain /\ ~att'.committed
      BY <1>2, <1>4 DEF MoveInv, TypeOK, Attempts
    <2>2. /\ mayBe' \in [Roots -> SUBSET Places] /\ mayBe'[dst] = {place[dst]}
          /\ \A r \in Roots: r # dst => mayBe'[r] = mayBe[r]
      BY <1>2, <1>4 DEF MoveInv, TypeOK
    <2>3. /\ control' \in [Roots -> SUBSET Controls] /\ control'[dst] = Controls
          /\ \A r \in Roots: r # dst => control'[r] = control[r]
      BY <1>2, <1>4 DEF MoveInv, TypeOK
    <2>4. /\ proof' \in [Roots -> 0..MaxMoves] /\ proof'[dst] = intent.move
          /\ \A r \in Roots: r # dst => proof'[r] = proof[r]
      BY <1>2, <1>4 DEF MoveInv, TypeOK, Intents
    <2>5. epoch' \in [Roots -> Nat]
      BY <1>2, <1>4 DEF MoveInv, TypeOK, Intents
    <2>6. TypeOK'
      BY <1>1, <1>4, <2>1, <2>2, <2>3, <2>4, <2>5 DEF MoveInv, TypeOK, Steps
    <2>7. Folders'
      BY <1>1, <1>2, <2>2 DEF MoveInv, Folders, Folder
    <2>8. Authority'
      BY <1>1, <1>2, <2>2, <2>3 DEF MoveInv, Authority, Live
    <2>9. Genuine(intent)'
      BY <1>1, <1>2, <2>2, <2>4 DEF Genuine, dst
    <2>10. Moves'
      <3>1. ASSUME Recorded PROVE Genuine(journal.intent)'
        <4>1. Genuine(journal.intent)
          BY <3>1 DEF MoveInv, Moves
        <4>2. CASE journal.intent = intent
          BY <1>1, <2>9, <4>2 DEF Genuine
        <4>3. CASE journal.intent # intent
          <5>1. journal.intent.move # intent.move /\ journal.intent.dst \in Roots
            BY <3>1, <4>3 DEF MoveInv, Moves, TypeOK, Journals, Intents
          <5> QED
            BY <1>1, <2>2, <2>4, <4>1, <5>1 DEF Genuine
        <4> QED
          BY <4>2, <4>3
      <3> QED
        BY <1>1, <2>9, <3>1 DEF MoveInv, Moves, Recorded
    <2>11. ReceiptIsTrue'
      BY <1>1 DEF MoveInv, ReceiptIsTrue
    <2>12. Durable'
      BY <1>1, <1>2 DEF Durable
    <2>13. Attempting' /\ Committing' /\ Asking' /\ Cleanup'
      BY <1>1, <1>2, <1>4, <2>1 DEF Attempting, OwnJournal, Recorded, Committing, Asking, Cleanup, After, src, dst
    <2>14. Stages'
      BY <1>1, <1>2, <1>4, <2>1, <2>2, <2>3, <2>4 DEF Stages, Before, After, Mine, dst
    <2> QED
      BY <2>6, <2>7, <2>8, <2>10, <2>11, <2>12, <2>13, <2>14 DEF MoveInv
  <1> QED
    BY <1>1, <1>3, <1>4 DEF Own, FlushParent, Go, Fail

(* One file of one folder is changed.                                      *)
LEMMA OneFileChanges ==
  ASSUME MoveInv, NEW f \in Roots, NEW e \in Entries, NEW c \in Content,
         tree' = [tree EXCEPT ![f][e] = c]
  PROVE  /\ tree' \in [Roots -> [Entries -> Content]]
         /\ \A r \in Roots: r # f => tree'[r] = tree[r]
         /\ tree'[f][e] = c
         /\ \A x \in Entries: x # e => tree'[f][x] = tree[f][x]
  <1>1. tree \in [Roots -> [Entries -> Content]] /\ tree[f] \in [Entries -> Content]
    BY DEF MoveInv, TypeOK
  <1>2. tree' = [tree EXCEPT ![f] = [tree[f] EXCEPT ![e] = c]]
    BY <1>1
  <1>3. [tree[f] EXCEPT ![e] = c] \in [Entries -> Content]
    BY <1>1
  <1>4. tree' \in [Roots -> [Entries -> Content]] /\ tree'[f] = [tree[f] EXCEPT ![e] = c]
    BY <1>1, <1>2, <1>3
  <1>5. \A r \in Roots: r # f => tree'[r] = tree[r]
    BY <1>1, <1>2
  <1>6. tree'[f][e] = c /\ \A x \in Entries: x # e => tree'[f][x] = tree[f][x]
    BY <1>1, <1>4
  <1> QED
    BY <1>4, <1>5, <1>6

(* What a folder that is neither the library nor the source of a receipt   *)
(* holds may change, if absent files of no folder appear.                  *)
LEMMA OtherFolderChanges ==
  ASSUME MoveInv, NEW f \in Roots, f # profile, tree' \in [Roots -> [Entries -> Content]],
         \A r \in Roots: r # f => tree'[r] = tree[r],
         place[f] # "none" \/ \A d \in Data: tree[f][d] = "absent" => tree'[f][d] = "absent",
         journal.state = "retired" =>
             \A d \in Data: tree[f][d] = "absent" => tree'[f][d] = "absent",
         UNCHANGED <<control, proof, place, mayBe, extra, profile, profiles, journal, truth, damage, moves>>
  PROVE  /\ Folders' /\ Authority' /\ ReceiptIsTrue'
         /\ intent' = intent => Moves'
  <1>1. Folders'
    <2> SUFFICES ASSUME NEW r \in Roots PROVE Folder(r)'
      BY DEF Folders
    <2>1. Folder(r)
      BY DEF MoveInv, Folders
    <2>2. CASE r = f
      BY <2>1, <2>2 DEF Folder
    <2>3. CASE r # f
      BY <2>1, <2>3 DEF Folder
    <2> QED
      BY <2>2, <2>3
  <1>2. Authority'
    BY DEF MoveInv, TypeOK, Authority, Live
  <1>3. ReceiptIsTrue'
    <2>1. journal.intent.src \in Roots
      BY DEF MoveInv, TypeOK, Journals, Intents
    <2>2. CASE journal.intent.src = f
      BY <2>2 DEF MoveInv, ReceiptIsTrue
    <2>3. CASE journal.intent.src # f
      BY <2>1, <2>3 DEF MoveInv, ReceiptIsTrue
    <2> QED
      BY <2>2, <2>3
  <1>4. ASSUME intent' = intent PROVE Moves'
    BY <1>4 DEF MoveInv, Moves, Genuine, Recorded
  <1> QED
    BY <1>1, <1>2, <1>3, <1>4

(* copy_entry.                                                             *)
LEMMA CopyInductive ==
  ASSUME MoveInv, NEW e \in Entries, Copy(e)
  PROVE  MoveInv'
  <1>1. /\ app = "move" /\ at = "copy" /\ at \in Before
        /\ UNCHANGED <<control, epoch, proof, place, mayBe, extra, profile, profiles, residue, journal, intent, att, truth, damage>>
        /\ loose' \in {loose, loose \cup {<<dst, e>>}}
        /\ faults' \in 0..MaxFaults /\ UNCHANGED <<moves, deaths, outages>>
        /\ (app' = "move" \/ app' = "failed") /\ at' = "copy"
    BY FaultBounded, CountersKept DEF MoveInv, Copy, Working, namespace, attempt, Before, Go, Fail
  <1>2. /\ src \in Roots /\ dst \in Roots /\ src # dst /\ profile = src
        /\ intent # NoIntent /\ Genuine(intent) /\ intent \in Intents
        /\ place[dst] # "none" /\ (att.published \/ intent.selected => place[dst] = "there")
        /\ ~att.committed /\ ~att.uncertain
        /\ att.journal => OwnJournal
        /\ deaths = 0 => profiles = {profile}
    BY <1>1, TwoFolders
  <1>3. att.journal /\ Mine /\ mayBe[dst] = {place[dst]}
    BY <1>1 DEF MoveInv, Stages, Before
  <1>4. /\ tree' \in [Roots -> [Entries -> Content]]
        /\ \A r \in Roots: r # dst => tree'[r] = tree[r]
    <2>1. \E c \in Content: tree' = [tree EXCEPT ![dst][e] = c] \/ tree' = tree
      <3>1. intent.manifest[e] \in Content /\ "absent" \in Content /\ "partial" \in Content
        BY <1>2 DEF Intents, Content
      <3> QED
        BY <3>1 DEF Copy
    <2>2. tree \in [Roots -> [Entries -> Content]]
      BY DEF MoveInv, TypeOK
    <2> QED
      BY <1>2, <2>1, <2>2
  <1>5. TypeOK'
    <2>1. loose' \subseteq Roots \X Entries
      BY <1>1, <1>2 DEF MoveInv, TypeOK
    <2> QED
      BY <1>1, <1>4, <2>1 DEF MoveInv, TypeOK
  <1>6. Folders' /\ Authority' /\ ReceiptIsTrue' /\ Moves'
    <2>1. journal.state # "retired"
      BY <1>2, <1>3 DEF OwnJournal, Recorded
    <2> QED
      BY <1>1, <1>2, <1>4, <2>1, OtherFolderChanges
  <1>7. Durable'
    BY <1>1, <1>2 DEF Durable
  <1>8. Attempting' /\ Committing' /\ Asking' /\ Cleanup'
    BY <1>1, <1>2 DEF Attempting, OwnJournal, Recorded, Committing, Asking, Cleanup, After, src, dst
  <1>9. Stages'
    BY <1>1, <1>2, <1>3 DEF Stages, Before, After, Mine, dst
  <1> QED
    BY <1>5, <1>6, <1>7, <1>8, <1>9 DEF MoveInv

(* publish_directory.                                                      *)
LEMMA PublishInductive ==
  ASSUME MoveInv, Publish
  PROVE  MoveInv'
  <1>1. /\ app = "move" /\ at = "copy" /\ at \in Before
        /\ UNCHANGED <<tree, control, epoch, proof, extra, loose, profile, profiles, residue, journal, intent, truth, damage>>
        /\ faults' \in 0..MaxFaults /\ UNCHANGED <<moves, deaths, outages>>
    BY FaultBounded, CountersKept DEF MoveInv, Publish, Working, namespace, Before
  <1>2. /\ src \in Roots /\ dst \in Roots /\ src # dst /\ profile = src
        /\ intent # NoIntent /\ Genuine(intent) /\ intent \in Intents
        /\ place[dst] # "none" /\ (att.published \/ intent.selected => place[dst] = "there")
        /\ ~att.committed /\ ~att.uncertain
        /\ att.journal => OwnJournal
        /\ deaths = 0 => profiles = {profile}
    BY <1>1, TwoFolders
  <1>3. att.journal /\ Mine /\ mayBe[dst] = {place[dst]}
    BY <1>1 DEF MoveInv, Stages, Before
  <1>4. \/ /\ intent.selected /\ att' = [att EXCEPT !.published = TRUE]
           /\ app' = "move" /\ at' = "check" /\ UNCHANGED <<place, mayBe>>
        \/ /\ ~intent.selected /\ app' = "move" /\ at' = "flush" /\ UNCHANGED att
           /\ place' = [place EXCEPT ![dst] = "there"]
           /\ mayBe' = [mayBe EXCEPT ![dst] = {"workspace", "there"}]
        \/ app' = "failed" /\ at' = at /\ UNCHANGED <<att, place, mayBe>>
    BY <1>1 DEF Publish, Go, Fail
  <1>5. /\ att' \in Attempts
        /\ att'.published => att.published \/ intent.selected
        /\ att'.journal /\ ~att'.uncertain /\ ~att'.committed
    <2>1. att \in Attempts
      BY DEF MoveInv, TypeOK
    <2>2. CASE att' = att
      BY <1>2, <1>3, <2>1, <2>2
    <2>3. CASE att' = [att EXCEPT !.published = TRUE] /\ intent.selected
      BY <1>2, <1>3, <2>1, <2>3 DEF Attempts
    <2> QED
      BY <1>4, <2>2, <2>3
  <1>6. /\ place' \in [Roots -> Places] /\ mayBe' \in [Roots -> SUBSET Places]
        /\ \A r \in Roots: r # dst => place'[r] = place[r] /\ mayBe'[r] = mayBe[r]
        /\ place'[dst] # "none" /\ place'[dst] \in mayBe'[dst] /\ "none" \notin mayBe'[dst]
        /\ intent.selected => mayBe'[dst] = mayBe[dst]
        /\ place'[dst] = place[dst] \/ place'[dst] = "there"
        /\ at' # "flush" => mayBe'[dst] = {place'[dst]}
        /\ at' = "flush" => place'[dst] = "there"
    <2>1. place \in [Roots -> Places] /\ mayBe \in [Roots -> SUBSET Places]
      BY DEF MoveInv, TypeOK
    <2>2. CASE UNCHANGED <<place, mayBe>> /\ at' # "flush"
      BY <1>2, <1>3, <2>1, <2>2
    <2>3. CASE /\ ~intent.selected /\ at' = "flush"
               /\ place' = [place EXCEPT ![dst] = "there"]
               /\ mayBe' = [mayBe EXCEPT ![dst] = {"workspace", "there"}]
      BY <1>2, <2>1, <2>3 DEF Places
    <2> QED
      BY <1>1, <1>4, <2>2, <2>3
  <1>7. TypeOK'
    BY <1>1, <1>4, <1>5, <1>6 DEF MoveInv, TypeOK, Steps
  <1>8. Folders'
    BY <1>1, <1>6 DEF MoveInv, Folders, Folder
  <1>9. Authority'
    BY <1>1, <1>2, <1>6 DEF MoveInv, Authority, Live
  <1>10. Moves'
    <2>1. Recorded => journal.intent = intent
      BY <1>2, <1>3 DEF OwnJournal, Recorded
    <2>2. Genuine(intent)'
      BY <1>1, <1>2, <1>6 DEF Genuine, dst
    <2> QED
      BY <1>1, <2>1, <2>2 DEF Moves, Recorded, Genuine
  <1>11. ReceiptIsTrue'
    BY <1>1, <1>2, <1>3 DEF ReceiptIsTrue, OwnJournal, Recorded
  <1>12. Durable'
    BY <1>1, <1>2 DEF Durable
  <1>13. Attempting' /\ Committing' /\ Asking' /\ Cleanup'
    BY <1>1, <1>2, <1>3, <1>4, <1>5, <1>6 DEF Attempting, OwnJournal, Recorded, Committing, Asking, Cleanup, After, src, dst
  <1>14. Stages'
    BY <1>1, <1>2, <1>3, <1>4, <1>5, <1>6 DEF Stages, Before, After, Mine, dst
  <1> QED
    BY <1>7, <1>8, <1>9, <1>10, <1>11, <1>12, <1>13, <1>14 DEF MoveInv

(* The parent of the published folder is flushed.                          *)
LEMMA FlushPublishedInductive ==
  ASSUME MoveInv, FlushPublished
  PROVE  MoveInv'
  <1>1. /\ app = "move" /\ at = "flush" /\ at \in Before
        /\ UNCHANGED <<tree, control, epoch, proof, place, extra, loose, profile, profiles, residue, journal, intent, truth, damage>>
        /\ faults' \in 0..MaxFaults /\ UNCHANGED <<moves, deaths, outages>>
        /\ \/ /\ mayBe' = [mayBe EXCEPT ![dst] = {place[dst]}]
              /\ att' = [att EXCEPT !.published = TRUE]
              /\ app' = "move" /\ at' = "check"
           \/ app' = "failed" /\ at' = at /\ UNCHANGED <<mayBe, att>>
    BY FaultBounded, CountersKept DEF MoveInv, FlushPublished, Working, namespace, Before, Go, Fail
  <1>2. /\ src \in Roots /\ dst \in Roots /\ src # dst /\ profile = src
        /\ intent # NoIntent /\ Genuine(intent) /\ intent \in Intents
        /\ place[dst] # "none" /\ (att.published \/ intent.selected => place[dst] = "there")
        /\ ~att.committed /\ ~att.uncertain
        /\ att.journal => OwnJournal
        /\ deaths = 0 => profiles = {profile}
    BY <1>1, TwoFolders
  <1>3. att.journal /\ Mine /\ place[dst] = "there"
    BY <1>1 DEF MoveInv, Stages, Before
  <1>4. att' \in Attempts /\ att'.journal /\ ~att'.uncertain /\ ~att'.committed
    <2>1. att \in Attempts
      BY DEF MoveInv, TypeOK
    <2>2. CASE att' = att
      BY <1>2, <1>3, <2>1, <2>2
    <2>3. CASE att' = [att EXCEPT !.published = TRUE]
      BY <1>2, <1>3, <2>1, <2>3 DEF Attempts
    <2> QED
      BY <1>1, <2>2, <2>3
  <1>5. /\ mayBe' \in [Roots -> SUBSET Places]
        /\ \A r \in Roots: r # dst => mayBe'[r] = mayBe[r]
        /\ mayBe'[dst] = mayBe[dst] \/ mayBe'[dst] = {place[dst]}
        /\ app' = "move" => mayBe'[dst] = {place[dst]}
    BY <1>1, <1>2 DEF MoveInv, TypeOK
  <1>6. TypeOK'
    BY <1>1, <1>4, <1>5 DEF MoveInv, TypeOK, Steps
  <1>7. Folders'
    BY <1>1, <1>3, <1>5 DEF MoveInv, Folders, Folder
  <1>8. Authority'
    BY <1>1, <1>2, <1>5 DEF MoveInv, Authority, Live
  <1>9. Moves'
    <2>1. Recorded => journal.intent = intent
      BY <1>2, <1>3 DEF OwnJournal, Recorded
    <2>2. Genuine(intent)'
      BY <1>1, <1>2, <1>3, <1>5 DEF Genuine, dst
    <2> QED
      BY <1>1, <2>1, <2>2 DEF Moves, Recorded, Genuine
  <1>10. ReceiptIsTrue'
    BY <1>1, <1>2, <1>3 DEF ReceiptIsTrue, OwnJournal, Recorded
  <1>11. Durable'
    BY <1>1, <1>2 DEF Durable
  <1>12. Attempting' /\ Committing' /\ Asking' /\ Cleanup'
    BY <1>1, <1>2, <1>3, <1>4 DEF Attempting, OwnJournal, Recorded, Committing, Asking, Cleanup, After, src, dst
  <1>13. Stages'
    BY <1>1, <1>2, <1>3, <1>4, <1>5 DEF Stages, Before, After, Mine, dst
  <1> QED
    BY <1>6, <1>7, <1>8, <1>9, <1>10, <1>11, <1>12, <1>13 DEF MoveInv

----------------------------------------------------------------------------
(* Steps after the commit: only the old folder is touched.                 *)

LEMMA AfterCommit ==
  ASSUME MoveInv, app \in {"move", "recover"}, at \in After
  PROVE  /\ src \in Roots /\ dst \in Roots /\ src # dst /\ profile = dst
         /\ intent # NoIntent /\ intent \in Intents
         /\ Recorded => journal.intent = intent /\ journal.state # "torn"
         /\ app = "move" => /\ att.committed /\ ~att.uncertain /\ place[dst] # "none"
                            /\ att.published \/ intent.selected => place[dst] = "there"
         /\ deaths = 0 => profiles = {profile}
  <1>1. app = "move" => att.committed /\ ~att.uncertain /\ place[dst] # "none"
                        /\ (att.published \/ intent.selected => place[dst] = "there")
    BY DEF MoveInv, Stages, Attempting, OwnJournal, Recorded
  <1>2. intent # NoIntent /\ profile = dst /\ (Recorded => journal.intent = intent /\ journal.state # "torn")
    BY <1>1 DEF MoveInv, Committing
  <1>3. Genuine(intent) /\ intent \in Intents
    BY <1>2 DEF MoveInv, Moves, TypeOK
  <1>4. deaths = 0 => profiles = {profile}
    BY <1>1 DEF MoveInv, Durable, Hanging
  <1> QED
    BY <1>1, <1>2, <1>3, <1>4 DEF Genuine, Intents, src, dst

(* A recorded file is removed.                                             *)
LEMMA CleanInductive ==
  ASSUME MoveInv, NEW d \in Data, Clean(d)
  PROVE  MoveInv'
  <1>1. /\ app \in {"move", "recover"} /\ at = "clean" /\ at \in After /\ ~Retired
        /\ UNCHANGED <<control, epoch, proof, place, mayBe, extra, loose, profile, profiles, residue, journal, intent, truth, damage>>
        /\ faults' \in 0..MaxFaults /\ UNCHANGED <<moves, deaths, outages>>
        /\ app' = app /\ at' = "clean"
        /\ att' \in Attempts /\ FlagsKept
    <2>1. att \in Attempts
      BY DEF MoveInv, TypeOK
    <2>2. att' = att \/ att' = [att EXCEPT !.pending = TRUE]
      BY DEF Clean, Pending
    <2>3. att' \in Attempts /\ FlagsKept
      BY <2>1, <2>2, PendingKeeps, SameFlags
    <2> QED
      BY <2>3, FaultBounded, CountersKept DEF MoveInv, Clean, Cleaning, Go, Pending, namespace, After
  <1>2. /\ src \in Roots /\ dst \in Roots /\ src # dst /\ profile = dst
        /\ intent # NoIntent /\ intent \in Intents
        /\ Recorded => journal.intent = intent /\ journal.state # "torn"
        /\ app = "move" => /\ att.committed /\ ~att.uncertain /\ place[dst] # "none"
                           /\ att.published \/ intent.selected => place[dst] = "there"
        /\ deaths = 0 => profiles = {profile}
    BY <1>1, AfterCommit
  <1>3. /\ tree' \in [Roots -> [Entries -> Content]]
        /\ \A r \in Roots: r # src => tree'[r] = tree[r]
        /\ \A x \in Data: tree[src][x] = "absent" => tree'[src][x] = "absent"
    <2>1. tree \in [Roots -> [Entries -> Content]] /\ d \in Entries
      BY DEF MoveInv, TypeOK, Entries
    <2>2. \E c \in {"absent", tree[src][d]}: tree' = [tree EXCEPT ![src][d] = c]
      BY DEF Clean
    <2>3. \A c \in {"absent", tree[src][d]}: c \in Content
      BY <1>2, <2>1 DEF Content
    <2>4. PICK c \in Content: tree' = [tree EXCEPT ![src][d] = c] /\ c \in {"absent", tree[src][d]}
      BY <2>2, <2>3
    <2>5. /\ tree' \in [Roots -> [Entries -> Content]]
          /\ \A r \in Roots: r # src => tree'[r] = tree[r]
          /\ tree'[src][d] = c
          /\ \A x \in Entries: x # d => tree'[src][x] = tree[src][x]
      BY <1>2, <2>1, <2>4, OneFileChanges
    <2> QED
      BY <2>4, <2>5 DEF Entries
  <1>4. TypeOK'
    BY <1>1, <1>3 DEF MoveInv, TypeOK
  <1>5. Folders' /\ Authority' /\ ReceiptIsTrue' /\ Moves'
    BY <1>1, <1>2, <1>3, OtherFolderChanges
  <1>6. Durable'
    BY <1>1, <1>2 DEF Durable
  <1>7. Attempting'
    BY <1>1, <1>2 DEF Attempting, OwnJournal, Recorded, FlagsKept, src, dst
  <1>8. Committing' /\ Asking' /\ Cleanup' /\ Stages'
    BY <1>1, <1>2 DEF Committing, Asking, Cleanup, Stages, Recorded, FlagsKept, Before, After, dst
  <1> QED
    BY <1>4, <1>5, <1>6, <1>7, <1>8 DEF MoveInv

(* Identity, state and lock of the old folder.                             *)
LEMMA RemoveControlsInductive ==
  ASSUME MoveInv, RemoveControls
  PROVE  MoveInv'
  <1>1. /\ app \in {"move", "recover"} /\ at = "controls" /\ at \in After
        /\ UNCHANGED <<epoch, proof, place, mayBe, extra, loose, profile, profiles, residue, journal, intent, att, truth, damage>>
        /\ UNCHANGED <<moves, faults, deaths, outages>>
        /\ app' = app /\ at' \in {"controls", "rmdir"}
    BY DEF RemoveControls, Cleaning, Go, namespace, attempt, counters, After
  <1>2. /\ src \in Roots /\ dst \in Roots /\ src # dst /\ profile = dst
        /\ intent # NoIntent /\ intent \in Intents
        /\ Recorded => journal.intent = intent /\ journal.state # "torn"
        /\ app = "move" => /\ att.committed /\ ~att.uncertain /\ place[dst] # "none"
                           /\ att.published \/ intent.selected => place[dst] = "there"
        /\ deaths = 0 => profiles = {profile}
    BY <1>1, AfterCommit
  <1>3. /\ tree' \in [Roots -> [Entries -> Content]]
        /\ \A r \in Roots: r # src => tree'[r] = tree[r]
        /\ \A x \in Data: tree'[src][x] = tree[src][x]
    <2>1. tree' = tree \/ tree' = [tree EXCEPT ![src]["identity"] = "absent"]
      BY DEF RemoveControls
    <2>2. CASE tree' = tree
      BY <2>2 DEF MoveInv, TypeOK
    <2>3. CASE tree' = [tree EXCEPT ![src]["identity"] = "absent"]
      <3>1. src \in Roots /\ "identity" \in Entries /\ "absent" \in Content
        BY <1>2 DEF Entries, Content
      <3>2. /\ tree' \in [Roots -> [Entries -> Content]]
            /\ \A r \in Roots: r # src => tree'[r] = tree[r]
            /\ \A x \in Entries: x # "identity" => tree'[src][x] = tree[src][x]
        BY ZenonT(30), <2>3, <3>1, OneFileChanges
      <3> QED
        BY <3>2, DataAssumption DEF Entries
    <2> QED
      BY <2>1, <2>2, <2>3
  <1>4. /\ control' \in [Roots -> SUBSET Controls]
        /\ \A r \in Roots: r # src => control'[r] = control[r]
    <2>1. control \in [Roots -> SUBSET Controls]
      BY DEF MoveInv, TypeOK
    <2>2. control' = control
          \/ control' = [control EXCEPT ![src] = IF "state" \in @ THEN @ \ {"state"} ELSE {}]
      BY DEF RemoveControls
    <2> QED
      BY <1>2, <2>1, <2>2
  <1>5. TypeOK'
    BY <1>1, <1>3, <1>4 DEF MoveInv, TypeOK, Steps
  <1>6. Folders'
    BY <1>1, <1>2, <1>3 DEF MoveInv, Folders, Folder
  <1>7. Authority'
    BY <1>1, <1>2, <1>3, <1>4 DEF MoveInv, Authority, Live
  <1>8. Moves'
    BY <1>1 DEF MoveInv, Moves, Recorded, Genuine
  <1>9. ReceiptIsTrue'
    BY <1>1, <1>2, <1>3 DEF MoveInv, ReceiptIsTrue, Recorded, src
  <1>10. Durable'
    BY <1>1, <1>2 DEF Durable
  <1>11. Attempting'
    BY <1>1, <1>2 DEF Attempting, OwnJournal, Recorded, src, dst
  <1>12. Cleanup'
    BY <1>1, <1>3 DEF MoveInv, Cleanup, After, src
  <1>13. Committing' /\ Asking' /\ Stages'
    BY <1>1, <1>2 DEF Committing, Asking, Stages, Recorded, Before, After, dst
  <1> QED
    BY <1>5, <1>6, <1>7, <1>8, <1>9, <1>10, <1>11, <1>12, <1>13 DEF MoveInv

(* The emptied folder is removed.                                          *)
LEMMA RemoveFolderInductive ==
  ASSUME MoveInv, RemoveFolder
  PROVE  MoveInv'
  <1>1. /\ app \in {"move", "recover"} /\ at = "rmdir" /\ at \in After
        /\ UNCHANGED <<tree, control, epoch, proof, extra, loose, profile, profiles, residue, journal, intent, truth, damage>>
        /\ faults' \in 0..MaxFaults /\ UNCHANGED <<moves, deaths, outages>>
        /\ app' = app /\ at' = "close"
        /\ att' \in Attempts /\ FlagsKept
    <2>1. att \in Attempts
      BY DEF MoveInv, TypeOK
    <2>2. att' = att \/ att' = [att EXCEPT !.pending = TRUE]
      BY DEF RemoveFolder, Pending
    <2>3. att' \in Attempts /\ FlagsKept
      BY <2>1, <2>2, PendingKeeps, SameFlags
    <2> QED
      BY <2>3, FaultBounded, CountersKept DEF MoveInv, RemoveFolder, Cleaning, Go, Pending, namespace, After
  <1>2. /\ src \in Roots /\ dst \in Roots /\ src # dst /\ profile = dst
        /\ intent # NoIntent /\ intent \in Intents
        /\ Recorded => journal.intent = intent /\ journal.state # "torn"
        /\ app = "move" => /\ att.committed /\ ~att.uncertain /\ place[dst] # "none"
                           /\ att.published \/ intent.selected => place[dst] = "there"
        /\ deaths = 0 => profiles = {profile}
    BY <1>1, AfterCommit
  <1>3. \A d \in Data: tree[src][d] = "absent"
    BY <1>1 DEF MoveInv, Cleanup
  <1>4. /\ place' \in [Roots -> Places] /\ mayBe' \in [Roots -> SUBSET Places]
        /\ \A r \in Roots: r # src => place'[r] = place[r] /\ mayBe'[r] = mayBe[r]
        /\ \/ place'[src] = place[src] /\ mayBe'[src] = mayBe[src]
           \/ place'[src] = "none" /\ mayBe'[src] = {"none"} /\ src \notin extra
    <2>1. place \in [Roots -> Places] /\ mayBe \in [Roots -> SUBSET Places]
      BY DEF MoveInv, TypeOK
    <2>2. CASE UNCHANGED <<place, mayBe>>
      BY <2>1, <2>2
    <2>3. CASE /\ place' = [place EXCEPT ![src] = "none"]
               /\ mayBe' = [mayBe EXCEPT ![src] = {"none"}]
               /\ src \notin extra
      BY <1>2, <2>1, <2>3 DEF Places
    <2> QED
      BY <2>2, <2>3 DEF RemoveFolder
  <1>5. TypeOK'
    BY <1>1, <1>4 DEF MoveInv, TypeOK, Steps
  <1>6. Folders'
    <2> SUFFICES ASSUME NEW r \in Roots PROVE Folder(r)'
      BY DEF Folders
    <2>1. Folder(r)
      BY DEF MoveInv, Folders
    <2>2. CASE r = src
      BY <1>1, <1>3, <1>4, <2>1, <2>2 DEF Folder
    <2>3. CASE r # src
      BY <1>1, <1>4, <2>1, <2>3 DEF Folder
    <2> QED
      BY <2>2, <2>3
  <1>7. Authority'
    BY <1>1, <1>2, <1>4 DEF MoveInv, Authority, Live
  <1>8. Moves'
    <2>1. \A i \in Intents: Genuine(i) => Genuine(i)'
      <3> SUFFICES ASSUME NEW i \in Intents, Genuine(i) PROVE Genuine(i)'
        OBVIOUS
      <3>1. i.dst \in Roots
        BY DEF Intents
      <3> QED
        BY <1>1, <1>4, <3>1 DEF Genuine
    <2>2. intent \in Intents /\ journal.intent \in Intents
      BY DEF MoveInv, TypeOK, Journals
    <2> QED
      BY <1>1, <2>1, <2>2 DEF MoveInv, Moves, Recorded
  <1>9. ReceiptIsTrue'
    BY <1>1 DEF MoveInv, ReceiptIsTrue
  <1>10. Durable'
    BY <1>1, <1>2 DEF Durable
  <1>11. Attempting'
    BY <1>1, <1>2, <1>4 DEF Attempting, OwnJournal, Recorded, FlagsKept, src, dst
  <1>12. Committing' /\ Asking' /\ Cleanup' /\ Stages'
    BY <1>1, <1>2 DEF Committing, Asking, Cleanup, Stages, Recorded, FlagsKept, Before, After, dst
  <1> QED
    BY <1>5, <1>6, <1>7, <1>8, <1>9, <1>10, <1>11, <1>12 DEF MoveInv

----------------------------------------------------------------------------
(* Use of the open library, and the beginning of a move.                   *)

LEMMA EditInductive ==
  ASSUME MoveInv, NEW d \in Data, NEW v \in Versions, Edit(d, v)
  PROVE  MoveInv'
  <1>1. /\ app = "open"
        /\ tree' = [tree EXCEPT ![profile][d] = v]
        /\ truth' = [truth EXCEPT ![d] = v]
        /\ UNCHANGED <<control, epoch, proof, place, mayBe, extra, loose, profile, profiles, residue, journal, app, at, intent, att, damage>>
        /\ UNCHANGED <<moves, faults, deaths, outages>>
    BY DEF Edit, namespace, attempt, counters
  <1>2. profile \in Roots /\ d \in Entries /\ v \in Content /\ truth \in [Entries -> Versions]
    BY DEF MoveInv, TypeOK, Entries, Content
  <1>3. /\ tree' \in [Roots -> [Entries -> Content]]
        /\ \A r \in Roots: r # profile => tree'[r] = tree[r]
        /\ tree'[profile][d] = v
        /\ \A x \in Entries: x # d => tree'[profile][x] = tree[profile][x]
    <2>1. tree' = [tree EXCEPT ![profile][d] = v]
      BY <1>1
    <2>2. profile \in Roots /\ d \in Entries /\ v \in Content
      BY <1>2
    <2> QED
      BY ZenonT(30), <2>1, <2>2, OneFileChanges
  <1>4. truth' \in [Entries -> Versions]
    BY <1>1, <1>2
  <1>5. TypeOK'
    BY <1>1, <1>3, <1>4 DEF MoveInv, TypeOK
  <1>6. Folders'
    <2> SUFFICES ASSUME NEW r \in Roots PROVE Folder(r)'
      BY DEF Folders
    <2>1. Folder(r)
      BY DEF MoveInv, Folders
    <2>2. CASE r = profile
      BY <1>1, <2>1, <2>2 DEF MoveInv, Authority, Live, Folder
    <2>3. CASE r # profile
      BY <1>1, <1>3, <2>1, <2>3 DEF Folder
    <2> QED
      BY <2>2, <2>3
  <1>7. Authority'
    <2>1. /\ \A x \in Entries \ damage: tree[profile][x] = truth[x]
          /\ \A x \in Entries: tree[profile][x] # "foreign"
      BY DEF MoveInv, Authority, Live
    <2>2. \A x \in Entries \ damage: tree'[profile][x] = truth'[x]
      BY <1>1, <1>2, <1>3, <2>1
    <2>3. \A x \in Entries: tree'[profile][x] # "foreign"
      BY <1>3, <2>1, VersionsAssumption
    <2> QED
      BY <1>1, <2>2, <2>3 DEF MoveInv, Authority, Live
  <1>8. Moves'
    BY <1>1 DEF MoveInv, Moves, Recorded, Genuine
  <1>9. ReceiptIsTrue'
    <2>1. ASSUME journal.state = "retired" PROVE journal.intent.src \in Roots /\ journal.intent.src # profile
      BY <2>1 DEF MoveInv, ReceiptIsTrue, Moves, Recorded, Genuine, TypeOK, Journals, Intents
    <2> QED
      BY <1>1, <1>3, <2>1 DEF MoveInv, ReceiptIsTrue
  <1>10. Durable'
    BY <1>1 DEF MoveInv, Durable, Hanging
  <1>11. Attempting' /\ Stages' /\ Committing' /\ Cleanup' /\ Asking'
    BY <1>1 DEF Attempting, OwnJournal, Recorded, Stages, Committing, Cleanup, Asking
  <1> QED
    BY <1>5, <1>6, <1>7, <1>8, <1>9, <1>10, <1>11 DEF MoveInv

(* The intent of a new move is genuine, and no other proof names it.       *)
LEMMA BeginMoveInductive ==
  ASSUME MoveInv, NEW t \in Roots, NEW sel \in BOOLEAN, BeginMove(t, sel)
  PROVE  MoveInv'
  <1>1. /\ app = "open" /\ app' = "move" /\ at' = "own"
        /\ t # profile /\ place[t] = "none" /\ moves < MaxMoves /\ moves' = moves + 1
        /\ intent' = [move |-> moves + 1, src |-> profile, dst |-> t, selected |-> sel,
                      epoch |-> epoch[profile], manifest |-> tree[profile]]
        /\ att' = NewAttempt
        /\ extra' = extra \ {t} /\ loose' = {x \in loose: x[1] # t}
        /\ UNCHANGED <<epoch, profile, profiles, residue, journal, truth, damage, faults, deaths, outages>>
    BY DEF BeginMove, namespace
  <1>2. profile \in Roots /\ moves \in Nat /\ MaxMoves \in Nat /\ moves' \in 0..MaxMoves
    BY <1>1, BoundsAssumption DEF MoveInv, TypeOK
  <1>3. /\ tree' \in [Roots -> [Entries -> Content]] /\ tree'[t] = Nothing
        /\ \A r \in Roots: r # t => tree'[r] = tree[r]
    <2>1. Nothing \in [Entries -> Content]
      BY DEF Nothing, Content
    <2> QED
      BY <2>1 DEF MoveInv, TypeOK, BeginMove
  <1>4. /\ control' \in [Roots -> SUBSET Controls]
        /\ \A r \in Roots: r # t => control'[r] = control[r]
    BY DEF MoveInv, TypeOK, BeginMove
  <1>5. /\ proof' \in [Roots -> 0..MaxMoves] /\ proof'[t] = 0
        /\ \A r \in Roots: r # t => proof'[r] = proof[r]
    BY <1>2 DEF MoveInv, TypeOK, BeginMove
  <1>6. /\ place' \in [Roots -> Places] /\ place'[t] = IF sel THEN "there" ELSE "workspace"
        /\ \A r \in Roots: r # t => place'[r] = place[r]
    BY DEF MoveInv, TypeOK, BeginMove, Places
  <1>7. /\ mayBe' \in [Roots -> SUBSET Places] /\ mayBe'[t] = {place'[t]}
        /\ \A r \in Roots: r # t => mayBe'[r] = mayBe[r]
    <2>1. place'[t] \in Places
      BY <1>6
    <2>2. mayBe' = [mayBe EXCEPT ![t] = {place'[t]}] /\ mayBe \in [Roots -> SUBSET Places]
      BY DEF MoveInv, TypeOK, BeginMove
    <2> QED
      BY <2>1, <2>2
  <1>8. /\ intent' \in Intents /\ intent' # NoIntent
        /\ intent'.move = moves + 1 /\ intent'.src = profile /\ intent'.dst = t
        /\ (intent'.selected <=> sel) /\ intent'.manifest = tree[profile]
    <2>1. epoch[profile] \in Nat /\ tree[profile] \in [Entries -> Content] /\ moves + 1 \in 0..MaxMoves
      BY <1>1, <1>2 DEF MoveInv, TypeOK
    <2>2. intent' \in Intents
      BY <1>1, <1>2, <2>1 DEF Intents
    <2>3. moves + 1 # 0
      BY <1>2
    <2> QED
      BY <1>1, <2>2, <2>3 DEF NoIntent
  <1>9. /\ att' \in Attempts
        /\ ~att'.journal /\ ~att'.published /\ ~att'.uncertain /\ ~att'.committed
    BY <1>1 DEF NewAttempt, Attempts
  <1>10. TypeOK'
    BY <1>1, <1>2, <1>3, <1>4, <1>5, <1>6, <1>7, <1>8, <1>9 DEF MoveInv, TypeOK, Steps
  <1>11. Folders'
    <2> SUFFICES ASSUME NEW r \in Roots PROVE Folder(r)'
      BY DEF Folders
    <2>1. Folder(r)
      BY DEF MoveInv, Folders
    <2>2. CASE r = t
      BY <1>6, <1>7, <2>2 DEF Folder
    <2>3. CASE r # t
      BY <1>1, <1>3, <1>6, <1>7, <2>1, <2>3 DEF Folder
    <2> QED
      BY <2>2, <2>3
  <1>12. Authority'
    BY <1>1, <1>2, <1>3, <1>4, <1>6, <1>7 DEF MoveInv, Authority, Live
  <1>13. Moves'
    <2>1. Genuine(intent)'
      <3>1. intent'.move \in 1..moves'
        BY <1>1, <1>2, <1>8
      <3>2. \A e \in Entries: intent'.manifest[e] # "foreign"
        BY <1>8 DEF MoveInv, Authority, Live
      <3>3. proof'[intent'.dst] # intent'.move
        BY <1>2, <1>5, <1>8
      <3> QED
        BY <1>1, <1>8, <3>1, <3>2, <3>3 DEF Genuine
    <2>2. ASSUME Recorded
          PROVE  Genuine(journal.intent)' /\ journal.intent.move # intent'.move
      <3>1. Genuine(journal.intent) /\ journal.intent.dst \in Roots
        BY <2>2 DEF MoveInv, Moves, TypeOK, Journals, Intents
      <3>2. journal.intent.move \in 1..moves' /\ journal.intent.move # moves + 1 /\ journal.intent.move # 0
        BY <1>1, <1>2, <3>1 DEF Genuine
      <3>3. CASE journal.intent.dst = t
        BY <1>1, <1>5, <1>8, <3>1, <3>2, <3>3 DEF Genuine
      <3>4. CASE journal.intent.dst # t
        BY <1>1, <1>5, <1>7, <1>8, <3>1, <3>2, <3>4 DEF Genuine
      <3> QED
        BY <3>3, <3>4
    <2> QED
      BY <1>1, <2>1, <2>2 DEF Moves, Recorded
  <1>14. ReceiptIsTrue'
    <2>1. journal.intent.src \in Roots
      BY DEF MoveInv, TypeOK, Journals, Intents
    <2>2. \A d \in Data: Nothing[d] = "absent"
      BY DEF Nothing, Entries
    <2>3. CASE journal.intent.src = t
      BY <1>1, <1>3, <2>2, <2>3 DEF MoveInv, ReceiptIsTrue
    <2>4. CASE journal.intent.src # t
      BY <1>1, <1>3, <2>1, <2>4 DEF MoveInv, ReceiptIsTrue
    <2> QED
      BY <2>3, <2>4
  <1>15. Durable'
    BY <1>1 DEF MoveInv, Durable, Hanging
  <1>16. Attempting'
    BY <1>1, <1>6, <1>8, <1>9 DEF Attempting, OwnJournal, Recorded, src, dst
  <1>17. Stages' /\ Committing' /\ Cleanup' /\ Asking'
    BY <1>1, <1>9 DEF Stages, Committing, Cleanup, Asking, Before, After
  <1> QED
    BY <1>10, <1>11, <1>12, <1>13, <1>14, <1>15, <1>16, <1>17 DEF MoveInv

----------------------------------------------------------------------------
(* Other programs.                                                         *)

LEMMA TamperInductive ==
  ASSUME MoveInv, NEW r \in Roots, NEW d \in Data, Tamper(r, d)
  PROVE  MoveInv'
  <1>1. /\ r \notin profiles /\ r # profile /\ ~Undecided
        /\ tree[r][d] # "absent"
        /\ tree' = [tree EXCEPT ![r][d] = "foreign"]
        /\ loose' \subseteq loose
        /\ UNCHANGED <<control, epoch, proof, place, mayBe, extra, profile, profiles, residue, journal, app, at, intent, att, truth, damage>>
        /\ faults' \in 0..MaxFaults /\ UNCHANGED <<moves, deaths, outages>>
    BY FaultBounded DEF MoveInv, Tamper, namespace, attempt
  <1>2. d \in Entries /\ "foreign" \in Content
    BY DEF Entries, Content
  <1>3. /\ tree' \in [Roots -> [Entries -> Content]]
        /\ \A x \in Roots: x # r => tree'[x] = tree[x]
        /\ \A x \in Entries: x # d => tree'[r][x] = tree[r][x]
    BY <1>1, <1>2, OneFileChanges
  <1>4. \A x \in Roots: \A e \in Data: tree[x][e] = "absent" => tree'[x][e] = "absent"
    BY <1>1, <1>3 DEF Entries
  <1>5. src \in Roots /\ dst \in Roots
    BY DEF MoveInv, TypeOK, Intents, src, dst
  <1>6. TypeOK'
    BY <1>1, <1>3 DEF MoveInv, TypeOK
  <1>7. Folders' /\ Authority' /\ ReceiptIsTrue' /\ Moves'
    BY <1>1, <1>3, <1>4, OtherFolderChanges
  <1>8. Durable'
    <2>1. CASE Hanging
      <3>1. src # r
        BY <1>1, <2>1 DEF Hanging
      <3>2. Live(src)'
        BY <1>1, <1>3, <1>5, <2>1, <3>1 DEF Hanging, Live, src
      <3> QED
        BY <1>1, <2>1, <3>2 DEF Durable, Hanging, src, dst
    <2>2. CASE ~Hanging
      BY <1>1, <2>2 DEF MoveInv, Durable
    <2> QED
      BY <2>1, <2>2
  <1>9. Attempting' /\ Committing' /\ Asking'
    BY <1>1 DEF MoveInv, Attempting, OwnJournal, Committing, Asking, Recorded, src, dst
  <1>10. Stages'
    BY <1>1 DEF MoveInv, Stages, Undecided, Mine, Before, After, src, dst
  <1>11. Cleanup'
    BY <1>1, <1>4, <1>5 DEF MoveInv, Cleanup, src
  <1> QED
    BY <1>6, <1>7, <1>8, <1>9, <1>10, <1>11 DEF MoveInv

LEMMA AddFileInductive ==
  ASSUME MoveInv, NEW r \in Roots, AddFile(r)
  PROVE  MoveInv'
  <1>1. /\ place[r] = "there" /\ extra' = extra \cup {r}
        /\ UNCHANGED <<tree, control, epoch, proof, place, mayBe, loose, profile, profiles, residue, journal, app, at, intent, att, truth, damage>>
        /\ faults' \in 0..MaxFaults /\ UNCHANGED <<moves, deaths, outages>>
    BY FaultBounded DEF MoveInv, AddFile, namespace, attempt
  <1>2. TypeOK'
    BY <1>1 DEF MoveInv, TypeOK
  <1>3. Folders'
    BY <1>1 DEF MoveInv, Folders, Folder
  <1>4. Authority' /\ ReceiptIsTrue' /\ Moves'
    BY <1>1 DEF MoveInv, Authority, Live, ReceiptIsTrue, Moves, Recorded, Genuine
  <1>5. Durable'
    BY <1>1 DEF MoveInv, Durable, Hanging, Live, src, dst
  <1>6. Attempting' /\ Committing' /\ Asking' /\ Cleanup'
    BY <1>1 DEF MoveInv, Attempting, OwnJournal, Committing, Asking, Cleanup, Recorded, src, dst
  <1>7. Stages'
    BY <1>1 DEF MoveInv, Stages, Mine, Live, src, dst
  <1> QED
    BY <1>2, <1>3, <1>4, <1>5, <1>6, <1>7 DEF MoveInv

----------------------------------------------------------------------------
(* The end of a process.                                                   *)

(* Only a copy that was under way can be left torn, in part or whole.      *)
LEMMA TornTree ==
  ASSUME MoveInv, NEW t \in Torn
  PROVE  /\ t \in [Roots -> [Entries -> Content]]
         /\ \/ t = tree
            \/ /\ app = "move" /\ at = "copy" /\ dst \in Roots /\ dst # profile
               /\ place[dst] # "none" /\ journal.state # "retired" /\ ~att.uncertain
               /\ \A r \in Roots: r # dst => t[r] = tree[r]
         /\ \A r \in Roots, x \in Entries:
               t[r][x] = tree[r][x] \/ (r = dst /\ tree[r][x] = "absent" /\ t[r][x] # "foreign")
  <1>1. CASE t = tree
    BY <1>1 DEF MoveInv, TypeOK
  <1>2. CASE t # tree
    <2>0. PICK e \in Entries: /\ Working("copy") /\ tree[dst][e] = "absent"
                              /\ \E c \in {"partial", intent.manifest[e]}: t = [tree EXCEPT ![dst][e] = c]
      <3>1. \/ t = tree
            \/ \E e \in Entries, whole \in BOOLEAN:
                  /\ Working("copy") /\ tree[dst][e] = "absent"
                  /\ t = [tree EXCEPT ![dst][e] = IF whole THEN intent.manifest[e] ELSE "partial"]
        BY DEF Torn
      <3> QED
        BY <1>2, <3>1
    <2>1. PICK c \in {"partial", intent.manifest[e]}: t = [tree EXCEPT ![dst][e] = c]
      BY <2>0
    <2>2. app = "move" /\ at = "copy" /\ at \in Before
      BY <2>0 DEF Working, Before
    <2>3. /\ dst \in Roots /\ dst # profile /\ place[dst] # "none" /\ ~att.uncertain
          /\ Genuine(intent) /\ intent \in Intents /\ OwnJournal
      BY <2>2, TwoFolders DEF MoveInv, Stages
    <2>4. c \in Content /\ c # "foreign"
      BY <2>1, <2>3 DEF Content, Genuine, Intents
    <2>5. tree \in [Roots -> [Entries -> Content]] /\ tree[dst] \in [Entries -> Content]
      BY <2>3 DEF MoveInv, TypeOK
    <2>6. t = [tree EXCEPT ![dst] = [tree[dst] EXCEPT ![e] = c]]
      BY <2>1, <2>5
    <2>7. [tree[dst] EXCEPT ![e] = c] \in [Entries -> Content]
      BY <2>4, <2>5
    <2>8. /\ t \in [Roots -> [Entries -> Content]] /\ t[dst] = [tree[dst] EXCEPT ![e] = c]
          /\ \A r \in Roots: r # dst => t[r] = tree[r]
      BY <2>3, <2>5, <2>6, <2>7
    <2>9. \A x \in Entries: t[dst][x] = IF x = e THEN c ELSE tree[dst][x]
      BY <2>5, <2>8
    <2>10. \A r \in Roots, x \in Entries:
              t[r][x] = tree[r][x] \/ (r = dst /\ tree[r][x] = "absent" /\ t[r][x] # "foreign")
      BY <2>0, <2>4, <2>8, <2>9
    <2>11. journal.state # "retired"
      BY <2>3 DEF OwnJournal
    <2> QED
      BY <2>2, <2>3, <2>8, <2>10, <2>11
  <1> QED
    BY <1>1, <1>2

(* A power loss takes files, whole or in part, and nothing else.           *)
LEMMA WithoutFiles ==
  ASSUME NEW t \in [Roots -> [Entries -> Content]], NEW gone, NEW u \in Without(t, gone)
  PROVE  /\ u \in [Roots -> [Entries -> Content]]
         /\ \A r \in Roots, e \in Entries:
               /\ <<r, e>> \notin gone => u[r][e] = t[r][e]
               /\ <<r, e>> \in gone => u[r][e] \in {"partial", "absent"}
  <1>1. PICK half \in SUBSET gone:
           u = [r \in Roots |-> [e \in Entries |->
                  IF <<r, e>> \notin gone THEN t[r][e] ELSE IF <<r, e>> \in half THEN "partial" ELSE "absent"]]
    BY DEF Without
  <1>2. "partial" \in Content /\ "absent" \in Content
    BY DEF Content
  <1> QED
    BY <1>1, <1>2

(* What the end of a process can leave of the journal.                     *)
LEMMA JournalLeft ==
  ASSUME MoveInv,
         IF Working("jflush") THEN journal' \in TornJournals \cup {NoJournal} ELSE UNCHANGED journal
  PROVE  /\ journal' \in Journals
         /\ journal'.state # "none" => Recorded /\ journal'.intent = journal.intent
         /\ journal' = journal \/ (journal'.state # "retired" /\ app = "move" /\ at = "jflush")
  <1>1. journal \in Journals
    BY DEF MoveInv, TypeOK
  <1>2. CASE Working("jflush")
    <2>1. Recorded /\ app = "move" /\ at = "jflush"
      BY <1>2 DEF MoveInv, Stages, Recorded, Working
    <2>2. CASE journal' = NoJournal
      BY <2>1, <2>2, NoJournalTyped
    <2>3. CASE journal' \in TornJournals
      BY <1>1, <2>1, <2>3, TornKeepsIntent
    <2> QED
      BY <1>2, <2>2, <2>3
  <1>3. CASE ~Working("jflush")
    BY <1>1, <1>3 DEF Recorded
  <1> QED
    BY <1>2, <1>3

(* Nobody attempts a move any more.                                        *)
LEMMA NobodyMoves ==
  ASSUME app' = "start"
  PROVE  Attempting' /\ Stages' /\ Committing' /\ Cleanup' /\ Asking'
  BY DEF Attempting, OwnJournal, Recorded, Stages, Committing, Cleanup, Asking

(* The process is killed, or ends by itself.                               *)
LEMMA DieInductive ==
  ASSUME MoveInv, Die
  PROVE  MoveInv'
  <1>1. /\ app' = "start" /\ at' = "idle"
        /\ tree' \in Torn
        /\ loose' = loose \cup {<<dst, e>>: e \in {x \in Entries: tree'[dst][x] # tree[dst][x]}}
        /\ residue' \in BOOLEAN
        /\ UNCHANGED <<control, epoch, proof, place, mayBe, extra, profile, profiles, intent, att, truth, damage, moves, faults, outages>>
        /\ IF Working("jflush") THEN journal' \in TornJournals \cup {NoJournal} ELSE UNCHANGED journal
    BY DEF MoveInv, TypeOK, Die, EndsProcess, attempt
  <1>2. deaths' \in 0..MaxDeaths /\ deaths' # 0
    BY BoundsAssumption DEF MoveInv, TypeOK, Die
  <1>3. /\ tree' \in [Roots -> [Entries -> Content]]
        /\ \/ tree' = tree
           \/ /\ app = "move" /\ at = "copy" /\ dst \in Roots /\ dst # profile
              /\ place[dst] # "none" /\ journal.state # "retired" /\ ~att.uncertain
              /\ \A r \in Roots: r # dst => tree'[r] = tree[r]
    BY <1>1, TornTree
  <1>4. /\ journal' \in Journals
        /\ journal'.state # "none" => Recorded /\ journal'.intent = journal.intent
        /\ journal' = journal \/ (journal'.state # "retired" /\ app = "move" /\ at = "jflush")
    BY <1>1, JournalLeft
  <1>5. TypeOK'
    <2>1. dst \in Roots
      BY DEF MoveInv, TypeOK, Intents, dst
    <2>2. loose' \subseteq Roots \X Entries
      BY <1>1, <2>1 DEF MoveInv, TypeOK
    <2> QED
      BY <1>1, <1>2, <1>3, <1>4, <2>2 DEF MoveInv, TypeOK, Steps
  <1>6. CASE tree' = tree
    <2>1. Folders' /\ Authority'
      BY <1>1, <1>6, FoldersStay DEF MoveInv, Authority
    <2>2. Moves'
      BY <1>1, <1>4, <1>6, FoldersStay DEF MoveInv, Moves, Recorded
    <2>3. ReceiptIsTrue'
      BY <1>1, <1>4, <1>6 DEF MoveInv, ReceiptIsTrue
    <2> QED
      BY <1>1, <1>2, <1>5, <2>1, <2>2, <2>3, NobodyMoves DEF MoveInv, Durable
  <1>7. CASE /\ app = "move" /\ at = "copy" /\ dst \in Roots /\ dst # profile
             /\ place[dst] # "none" /\ journal.state # "retired" /\ ~att.uncertain
             /\ \A r \in Roots: r # dst => tree'[r] = tree[r]
    <2>1. journal' = journal
      BY <1>4, <1>7
    <2>2. Folders' /\ Authority' /\ ReceiptIsTrue' /\ Moves'
      BY <1>1, <1>3, <1>7, <2>1, OtherFolderChanges
    <2> QED
      BY <1>1, <1>2, <1>5, <2>2, NobodyMoves DEF MoveInv, Durable
  <1> QED
    BY <1>3, <1>6, <1>7

(* The power fails: both folders that the profile may name then are live.  *)
LEMMA LosePowerInductive ==
  ASSUME MoveInv, LosePower
  PROVE  MoveInv'
  <1>1. /\ app' = "start" /\ at' = "idle"
        /\ residue' \in BOOLEAN
        /\ UNCHANGED <<control, epoch, proof, extra, intent, att, truth, moves, faults, deaths>>
        /\ IF Working("jflush") THEN journal' \in TornJournals \cup {NoJournal} ELSE UNCHANGED journal
        /\ profile' \in profiles /\ profiles' = {profile'}
        /\ loose' = {}
        /\ deaths = 0
    BY DEF MoveInv, TypeOK, LosePower, EndsProcess, attempt
  <1>2. outages' \in 0..MaxOutages
    BY BoundsAssumption DEF MoveInv, TypeOK, LosePower
  <1>3. PICK gone \in SUBSET Unflushed, t \in Torn:
           /\ tree' \in Without(t, gone)
           /\ damage' = damage \cup {e \in Entries: <<profile', e>> \in gone}
    BY DEF LosePower
  <1>4. /\ t \in [Roots -> [Entries -> Content]]
        /\ \/ t = tree
           \/ /\ app = "move" /\ at = "copy" /\ dst \in Roots /\ dst # profile
              /\ place[dst] # "none" /\ journal.state # "retired" /\ ~att.uncertain
              /\ \A r \in Roots: r # dst => t[r] = tree[r]
    BY TornTree
  <1>5. /\ tree' \in [Roots -> [Entries -> Content]]
        /\ \A r \in Roots, e \in Entries:
              /\ <<r, e>> \notin gone => tree'[r][e] = t[r][e]
              /\ <<r, e>> \in gone => tree'[r][e] \in {"partial", "absent"}
    BY <1>3, <1>4, WithoutFiles
  <1>6. \A r \in Roots, e \in Entries: tree[r][e] = "absent" => <<r, e>> \notin gone
    BY <1>3 DEF Unflushed
  <1>7. /\ journal' \in Journals
        /\ journal'.state # "none" => Recorded /\ journal'.intent = journal.intent
        /\ journal' = journal \/ (journal'.state # "retired" /\ app = "move" /\ at = "jflush")
    BY <1>1, JournalLeft
  <1>8. /\ place' \in [Roots -> Places]
        /\ \A r \in Roots: place'[r] \in mayBe[r] /\ mayBe'[r] = {place'[r]}
        /\ mayBe' \in [Roots -> SUBSET Places]
    <2>1. place' \in [Roots -> Places] /\ \A r \in Roots: place'[r] \in mayBe[r]
      BY DEF LosePower
    <2>2. mayBe' = [r \in Roots |-> {place'[r]}]
      BY DEF LosePower
    <2> QED
      BY <2>1, <2>2
  <1>9. TypeOK'
    <2>1. profile' \in Roots /\ profiles' \subseteq Roots
      BY <1>1 DEF MoveInv, TypeOK
    <2>2. damage' \subseteq Entries /\ loose' \subseteq Roots \X Entries
      BY <1>1, <1>3 DEF MoveInv, TypeOK
    <2> QED
      BY <1>1, <1>2, <1>5, <1>7, <1>8, <2>1, <2>2 DEF MoveInv, TypeOK, Steps
  <1>10. Folders'
    <2> SUFFICES ASSUME NEW r \in Roots PROVE Folder(r)'
      BY DEF Folders
    <2>1. Folder(r) /\ place'[r] \in mayBe[r] /\ mayBe'[r] = {place'[r]}
      BY <1>8 DEF MoveInv, Folders
    <2>2. place[r] = "none" => t[r] = tree[r]
      BY <1>4
    <2>3. ASSUME NEW d \in Data, place[r] = "none", tree[r][d] = "absent" PROVE tree'[r][d] = "absent"
      BY <1>5, <1>6, <2>2, <2>3 DEF Entries
    <2> QED
      BY <1>1, <2>1, <2>3 DEF Folder
  <1>11. \/ profile' = profile /\ t[profile] = tree[profile] /\ Live(profile)
         \/ /\ t = tree /\ profile' \in Roots /\ Live(profile')
            /\ journal' = journal /\ journal.state # "retired"
    <2>1. CASE profiles = {profile}
      BY <1>1, <1>4, <2>1 DEF MoveInv, TypeOK, Authority
    <2>2. CASE Hanging
      <3>1. /\ app \in {"move", "failed"} /\ att.uncertain /\ Live(src)
            /\ profile = dst /\ profile' \in {src, dst} /\ src \in Roots /\ dst \in Roots
        BY <1>1, <2>2 DEF Hanging, MoveInv, TypeOK, Intents, src, dst
      <3>2. journal.state # "retired"
        BY <3>1 DEF MoveInv, Attempting, OwnJournal
      <3>3. ~(app = "move" /\ at = "jflush")
        BY <3>1 DEF MoveInv, Stages, Before
      <3>4. Live(dst)
        BY <3>1 DEF MoveInv, Authority
      <3>5. Live(profile')
        BY <3>1, <3>4
      <3>6. profile' \in Roots
        BY <3>1
      <3> QED
        BY <1>4, <1>7, <3>1, <3>2, <3>3, <3>5, <3>6
    <2> QED
      BY <1>1, <2>1, <2>2 DEF MoveInv, Durable
  <1>12. Authority'
    <2>1. profile' \in Roots /\ t[profile'] = tree[profile'] /\ Live(profile')
      BY <1>11 DEF MoveInv, TypeOK
    <2>2. \A e \in Entries \ damage': tree'[profile'][e] = truth'[e]
      BY <1>1, <1>3, <1>5, <2>1 DEF Live
    <2>3. \A e \in Entries: tree'[profile'][e] # "foreign"
      BY <1>5, <2>1 DEF Live
    <2>4. place'[profile'] = "there" /\ mayBe'[profile'] = {"there"} /\ control'[profile'] = Controls
      BY <1>1, <1>8, <2>1 DEF Live
    <2> QED
      BY <1>1, <2>2, <2>3, <2>4 DEF Authority, Live
  <1>13. Moves'
    <2>1. \A i \in Intents: Genuine(i) => Genuine(i)'
      <3> SUFFICES ASSUME NEW i \in Intents, Genuine(i) PROVE Genuine(i)'
        OBVIOUS
      <3>1. i.dst \in Roots
        BY DEF Intents
      <3> QED
        BY <1>1, <1>8, <3>1 DEF Genuine
    <2>2. intent \in Intents /\ journal.intent \in Intents
      BY DEF MoveInv, TypeOK, Journals
    <2> QED
      BY <1>1, <1>7, <2>1, <2>2 DEF MoveInv, Moves, Recorded
  <1>14. ReceiptIsTrue'
    <2> SUFFICES ASSUME journal'.state = "retired"
                 PROVE  ReceiptIsTrue'
      BY DEF ReceiptIsTrue
    <2>1. journal' = journal /\ profile' = profile /\ t = tree
      BY <1>4, <1>7, <1>11
    <2>2. journal.intent.src \in Roots
      BY DEF MoveInv, TypeOK, Journals, Intents
    <2>3. \A d \in Data: tree[journal.intent.src][d] = "absent" => tree'[journal.intent.src][d] = "absent"
      BY <1>5, <1>6, <2>1, <2>2 DEF Entries
    <2> QED
      BY <2>1, <2>3 DEF MoveInv, ReceiptIsTrue
  <1>15. Durable'
    BY <1>1 DEF Durable
  <1> QED
    BY <1>1, <1>9, <1>10, <1>12, <1>13, <1>14, <1>15, NobodyMoves DEF MoveInv

----------------------------------------------------------------------------
(* The invariant holds.                                                    *)

LEMMA InitMove == Init => MoveInv
  <1> SUFFICES ASSUME Init PROVE MoveInv
    OBVIOUS
  <1>1. /\ app = "open" /\ journal = NoJournal /\ intent = NoIntent /\ profile = Home /\ profiles = {Home}
        /\ extra = {} /\ loose = {} /\ damage = {} /\ Home \in Roots
    BY HomeAssumption DEF Init
  <1>2. TypeOK
    <2>1. Nothing \in [Entries -> Content] /\ Original \in [Entries -> Content] /\ Original \in [Entries -> Versions]
      BY VersionsAssumption DEF Nothing, Original, Content
    <2>2. tree \in [Roots -> [Entries -> Content]] /\ truth \in [Entries -> Versions]
      BY <2>1 DEF Init
    <2>3. NewAttempt \in Attempts
      BY DEF NewAttempt, Attempts
    <2>4. /\ control \in [Roots -> SUBSET Controls] /\ epoch \in [Roots -> Nat]
          /\ proof \in [Roots -> 0..MaxMoves]
      BY BoundsAssumption DEF Init
    <2>5. place \in [Roots -> Places] /\ mayBe \in [Roots -> SUBSET Places]
      BY DEF Init, Places
    <2>6. /\ residue = FALSE /\ at = "idle" /\ att = NewAttempt
          /\ moves = 0 /\ faults = 0 /\ deaths = 0 /\ outages = 0
      BY DEF Init
    <2>7. journal \in Journals /\ intent \in Intents /\ att \in Attempts /\ residue \in BOOLEAN
      BY <1>1, <2>3, <2>6, NoJournalTyped
    <2>8. /\ moves \in 0..MaxMoves /\ faults \in 0..MaxFaults
          /\ deaths \in 0..MaxDeaths /\ outages \in 0..MaxOutages
      BY <2>6, BoundsAssumption
    <2> QED
      BY <1>1, <2>2, <2>4, <2>5, <2>6, <2>7, <2>8 DEF TypeOK, Steps
  <1>3. Folders
    <2> SUFFICES ASSUME NEW r \in Roots PROVE Folder(r)
      BY DEF Folders
    <2>1. mayBe[r] = {place[r]} /\ place[r] = IF r = Home THEN "there" ELSE "none"
      BY DEF Init
    <2>2. r # Home => \A d \in Data: tree[r][d] = "absent"
      BY DEF Init, Nothing, Entries
    <2> QED
      BY <1>1, <2>1, <2>2 DEF Folder
  <1>4. Authority
    <2>1. \A e \in Entries: Original[e] # "foreign"
      BY VersionsAssumption DEF Original
    <2> QED
      BY <1>1, <2>1 DEF Init, Authority, Live
  <1>5. Durable /\ Moves /\ ReceiptIsTrue
    BY <1>1, NoJournalTyped DEF Durable, Moves, ReceiptIsTrue, Recorded
  <1>6. Attempting /\ Stages /\ Committing /\ Cleanup /\ Asking
    BY <1>1 DEF Attempting, OwnJournal, Recorded, Stages, Committing, Cleanup, Asking
  <1> QED
    BY <1>2, <1>3, <1>4, <1>5, <1>6 DEF MoveInv

LEMMA StutterMove ==
  ASSUME MoveInv, UNCHANGED vars
  PROVE  MoveInv'
  <1>1. UNCHANGED <<tree, control, epoch, proof, place, mayBe, extra, loose, profile, profiles, residue, journal, app, at, intent, att, truth, damage, moves, faults, deaths, outages>>
    BY DEF vars, disk, namespace, attempt, counters
  <1>2. TypeOK' /\ Folders' /\ Authority' /\ ReceiptIsTrue' /\ Moves'
    BY <1>1, StillThere DEF MoveInv, TypeOK
  <1>3. Durable' /\ Stages'
    BY <1>1 DEF MoveInv, Durable, Hanging, Stages, Mine, Live, src, dst
  <1>4. Attempting' /\ Committing' /\ Cleanup' /\ Asking'
    BY <1>1 DEF MoveInv, Attempting, OwnJournal, Committing, Cleanup, Asking, Recorded, src, dst
  <1> QED
    BY <1>2, <1>3, <1>4 DEF MoveInv

LEMMA NextMove ==
  ASSUME MoveInv, [Next]_vars
  PROVE  MoveInv'
  <1>1. CASE \E d \in Data, v \in Versions: Edit(d, v)
    BY <1>1, EditInductive
  <1>2. CASE \E t \in Roots, sel \in BOOLEAN: BeginMove(t, sel)
    BY <1>2, BeginMoveInductive
  <1>3. CASE Move
    <2>1. CASE Own \/ WriteJournal \/ FlushJournal
      BY <2>1, OwnInductive, WriteJournalInductive, FlushJournalInductive
    <2>2. CASE \E e \in Entries: Copy(e)
      BY <2>2, CopyInductive
    <2>3. CASE Publish \/ FlushPublished \/ Check \/ Exchange \/ Sync
      BY <2>3, PublishInductive, FlushPublishedInductive, CheckInductive, ExchangeInductive, SyncInductive
    <2>4. CASE \E d \in Data: Clean(d)
      BY <2>4, CleanInductive
    <2>5. CASE Finish \/ Cleaned \/ ControlsFail
      BY <2>5, DecideInductive
    <2>6. CASE Acknowledge \/ RemoveControls \/ RemoveFolder \/ CloseMove
      BY <2>6, AcknowledgeInductive, RemoveControlsInductive, RemoveFolderInductive, CloseMoveInductive
    <2> QED
      BY <1>3, <2>1, <2>2, <2>3, <2>4, <2>5, <2>6 DEF Move
  <1>4. CASE Retry \/ ResumeSource \/ Die \/ LosePower
    BY <1>4, RetryInductive, ResumeSourceInductive, DieInductive, LosePowerInductive
  <1>5. CASE Recover \/ Reopen \/ TryAgain \/ RetryMove \/ KeepSource
    BY <1>5, RecoverInductive, StartInductive, RetryMoveInductive, KeepSourceInductive
  <1>6. CASE \E r \in Roots, d \in Data: Tamper(r, d)
    BY <1>6, TamperInductive
  <1>7. CASE \E r \in Roots: AddFile(r)
    BY <1>7, AddFileInductive
  <1>8. CASE UNCHANGED vars
    BY <1>8, StutterMove
  <1> QED
    BY <1>1, <1>2, <1>3, <1>4, <1>5, <1>6, <1>7, <1>8 DEF Next

LEMMA MoveInvHolds == Spec => []MoveInv
  <1>1. Init => MoveInv
    BY InitMove
  <1>2. MoveInv /\ [Next]_vars => MoveInv'
    BY NextMove
  <1> QED
    BY <1>1, <1>2, PTL DEF Spec

----------------------------------------------------------------------------
(* Copies that were not flushed, and what a power loss took.               *)

(* Failing calls and deaths are not forgotten.                             *)
CountsKept == faults' = 0 /\ deaths' = 0 => faults = 0 /\ deaths = 0

LEMMA FaultCounts ==
  ASSUME TypeOK, Fault
  PROVE  faults' # 0
  BY BoundsAssumption DEF TypeOK, Fault

LEMMA CountersCount ==
  ASSUME UNCHANGED counters
  PROVE  CountsKept
  BY DEF counters, CountsKept

(* A step that flushes nothing less and writes nothing foreign into what   *)
(* is loose.                                                               *)
LEMMA LooseStays ==
  ASSUME MoveInv, LooseInv, CountsKept, loose' \subseteq loose, damage' = damage,
         \A r \in Roots, e \in Entries:
            <<r, e>> \in loose' => tree'[r][e] = tree[r][e] \/ tree'[r][e] # "foreign"
  PROVE  LooseInv'
  <1>1. \A x \in loose': x = <<x[1], x[2]>> /\ x[1] \in Roots /\ x[2] \in Entries
    BY DEF MoveInv, TypeOK
  <1>2. \A x \in loose': tree'[x[1]][x[2]] # "foreign"
    BY <1>1 DEF LooseInv
  <1>3. faults' = 0 /\ deaths' = 0 => loose' = {} /\ damage' = {}
    BY DEF LooseInv, CountsKept
  <1> QED
    BY <1>2, <1>3 DEF LooseInv

LEMMA QuietKeepsLoose ==
  ASSUME MoveInv, LooseInv, CountsKept, UNCHANGED <<tree, loose, damage>>
  PROVE  LooseInv'
  BY LooseStays

(* One file that is not foreign is written.                                *)
LEMMA OneFileKeepsLoose ==
  ASSUME MoveInv, LooseInv, CountsKept, UNCHANGED <<loose, damage>>,
         NEW f \in Roots, NEW e \in Entries, NEW c \in Content,
         tree' = [tree EXCEPT ![f][e] = c], c # "foreign" \/ c = tree[f][e]
  PROVE  LooseInv'
  <1>1. /\ \A r \in Roots: r # f => tree'[r] = tree[r]
        /\ tree'[f][e] = c
        /\ \A x \in Entries: x # e => tree'[f][x] = tree[f][x]
    BY OneFileChanges
  <1> QED
    BY <1>1, LooseStays

LEMMA MoveKeepsLoose ==
  ASSUME MoveInv, LooseInv, Move
  PROVE  LooseInv'
  <1>1. Fault => CountsKept
    BY FaultCounts DEF MoveInv, CountsKept
  <1>2. CASE Own \/ WriteJournal \/ FlushJournal \/ Publish \/ FlushPublished \/ Check \/ Exchange \/ Sync
    <2>1. UNCHANGED counters \/ Fault
      BY <1>2 DEF Own, WriteJournal, FlushJournal, Publish, FlushPublished, Check, Exchange, Sync
    <2>2. UNCHANGED <<tree, loose, damage>>
      BY <1>2 DEF Own, WriteJournal, FlushJournal, Publish, FlushPublished, Check, Exchange, Sync, disk
    <2> QED
      BY <1>1, <2>1, <2>2, CountersCount, QuietKeepsLoose
  <1>3. CASE Finish \/ Cleaned \/ Acknowledge \/ ControlsFail \/ RemoveFolder \/ CloseMove
    <2>1. UNCHANGED counters \/ Fault
      BY <1>3 DEF Finish, Cleaned, Acknowledge, ControlsFail, RemoveFolder, CloseMove
    <2>2. UNCHANGED <<tree, loose, damage>>
      BY <1>3 DEF Finish, Cleaned, Acknowledge, ControlsFail, RemoveFolder, CloseMove, disk
    <2> QED
      BY <1>1, <2>1, <2>2, CountersCount, QuietKeepsLoose
  <1>4. ASSUME NEW e \in Entries, Copy(e) PROVE LooseInv'
    <2>1. dst \in Roots /\ intent.manifest[e] \in Content /\ intent.manifest[e] # "foreign"
      BY <1>4, TwoFolders DEF Copy, Working, Before, Genuine, Intents
    <2>2. PICK c \in {"absent", "partial", intent.manifest[e]}:
             \/ UNCHANGED <<loose, counters>> /\ (tree' = tree \/ tree' = [tree EXCEPT ![dst][e] = c])
             \/ /\ Fault /\ loose' \in {loose, loose \cup {<<dst, e>>}}
                /\ tree' = [tree EXCEPT ![dst][e] = c]
      BY <1>4 DEF Copy
    <2>3. c \in Content /\ c # "foreign"
      BY <2>1, <2>2 DEF Content
    <2>4. CASE UNCHANGED <<loose, counters>> /\ (tree' = tree \/ tree' = [tree EXCEPT ![dst][e] = c])
      <3>1. damage' = damage
        BY <1>4 DEF Copy
      <3> QED
        BY <2>1, <2>2, <2>3, <2>4, <3>1, CountersCount, QuietKeepsLoose, OneFileKeepsLoose DEF counters
    <2>5. CASE Fault /\ loose' \in {loose, loose \cup {<<dst, e>>}} /\ tree' = [tree EXCEPT ![dst][e] = c]
      <3>1. /\ \A r \in Roots: r # dst => tree'[r] = tree[r]
            /\ tree'[dst][e] = c
            /\ \A x \in Entries: x # e => tree'[dst][x] = tree[dst][x]
        BY <2>1, <2>3, <2>5, OneFileChanges
      <3>2. \A x \in loose: x = <<x[1], x[2]>> /\ x[1] \in Roots /\ x[2] \in Entries
        BY DEF MoveInv, TypeOK
      <3>3. \A x \in loose: tree'[x[1]][x[2]] # "foreign"
        BY <2>3, <3>1, <3>2 DEF LooseInv
      <3>4. \A x \in loose': tree'[x[1]][x[2]] # "foreign"
        BY <2>3, <2>5, <3>1, <3>3
      <3> QED
        BY <2>5, <3>4, FaultCounts DEF MoveInv, LooseInv
    <2> QED
      BY <2>2, <2>4, <2>5
  <1>5. ASSUME NEW d \in Data, Clean(d) PROVE LooseInv'
    <2>1. UNCHANGED <<loose, damage>> /\ (UNCHANGED counters \/ Fault) /\ d \in Entries /\ src \in Roots
      BY <1>5 DEF Clean, MoveInv, TypeOK, Intents, src, Entries
    <2>2. PICK c \in {"absent", tree[src][d]}: tree' = [tree EXCEPT ![src][d] = c]
      BY <1>5 DEF Clean
    <2>3. c \in Content /\ (c # "foreign" \/ c = tree[src][d])
      BY <2>1, <2>2 DEF MoveInv, TypeOK, Content
    <2> QED
      BY <1>1, <2>1, <2>2, <2>3, CountersCount, OneFileKeepsLoose
  <1>6. CASE RemoveControls
    <2>1. /\ UNCHANGED <<loose, damage>> /\ UNCHANGED counters
          /\ "identity" \in Entries /\ "absent" \in Content /\ src \in Roots
      BY <1>6 DEF RemoveControls, MoveInv, TypeOK, Intents, src, Entries, Content
    <2>2. tree' = tree \/ tree' = [tree EXCEPT ![src]["identity"] = "absent"]
      BY <1>6 DEF RemoveControls
    <2> QED
      BY <2>1, <2>2, CountersCount, QuietKeepsLoose, OneFileKeepsLoose
  <1> QED
    BY <1>2, <1>3, <1>4, <1>5, <1>6 DEF Move

LEMMA UseKeepsLoose ==
  ASSUME MoveInv, LooseInv, (\E d \in Data, v \in Versions: Edit(d, v)) \/ (\E t \in Roots, sel \in BOOLEAN: BeginMove(t, sel))
  PROVE  LooseInv'
  <1>1. ASSUME NEW d \in Data, NEW v \in Versions, Edit(d, v) PROVE LooseInv'
    <2>1. /\ tree' = [tree EXCEPT ![profile][d] = v] /\ UNCHANGED <<loose, damage>> /\ UNCHANGED counters
          /\ profile \in Roots /\ d \in Entries /\ v \in Content
      BY <1>1 DEF MoveInv, TypeOK, Edit, Entries, Content
    <2>2. v # "foreign"
      BY VersionsAssumption
    <2> QED
      BY <2>1, <2>2, CountersCount, OneFileKeepsLoose
  <1>2. ASSUME NEW t \in Roots, NEW sel \in BOOLEAN, BeginMove(t, sel) PROVE LooseInv'
    <2>1. /\ tree' = [tree EXCEPT ![t] = Nothing] /\ loose' = {x \in loose: x[1] # t}
          /\ UNCHANGED <<damage, faults, deaths>>
      BY <1>2 DEF BeginMove
    <2>2. \A r \in Roots: r # t => tree'[r] = tree[r]
      BY <2>1 DEF MoveInv, TypeOK
    <2>3. \A r \in Roots, e \in Entries: <<r, e>> \in loose' => tree'[r][e] = tree[r][e]
      BY <2>1, <2>2
    <2>4. CountsKept /\ loose' \subseteq loose
      BY <2>1 DEF CountsKept
    <2> QED
      BY <2>1, <2>3, <2>4, LooseStays
  <1> QED
    BY <1>1, <1>2

LEMMA EndKeepsLoose ==
  ASSUME MoveInv, LooseInv, Die \/ LosePower
  PROVE  LooseInv'
  <1>1. CASE Die
    <2>1. deaths' # 0
      BY <1>1, BoundsAssumption DEF MoveInv, TypeOK, Die
    <2>2. /\ tree' \in Torn /\ dst \in Roots
          /\ loose' = loose \cup {<<dst, e>>: e \in {x \in Entries: tree'[dst][x] # tree[dst][x]}}
      BY <1>1 DEF Die, MoveInv, TypeOK, Intents, dst
    <2>3. \A r \in Roots, x \in Entries:
             tree'[r][x] = tree[r][x] \/ (r = dst /\ tree'[r][x] # "foreign")
      BY <2>2, TornTree
    <2>4. \A x \in loose: x = <<x[1], x[2]>> /\ x[1] \in Roots /\ x[2] \in Entries
      BY DEF MoveInv, TypeOK
    <2>5. \A x \in loose: tree'[x[1]][x[2]] # "foreign"
      BY <2>3, <2>4 DEF LooseInv
    <2>6. \A e \in Entries: tree'[dst][e] # tree[dst][e] => tree'[dst][e] # "foreign"
      BY <2>2, <2>3
    <2>7. \A x \in loose': tree'[x[1]][x[2]] # "foreign"
      BY <2>2, <2>5, <2>6
    <2> QED
      BY <2>1, <2>7 DEF LooseInv
  <1>2. CASE LosePower
    <2>1. /\ loose' = {} /\ UNCHANGED <<faults, deaths>>
          /\ \E gone \in SUBSET Unflushed: damage' = damage \cup {e \in Entries: <<profile', e>> \in gone}
      BY <1>2 DEF LosePower, EndsProcess
    <2>2. faults' = 0 /\ deaths' = 0 => damage' = {}
      BY <2>1 DEF LooseInv, Unflushed
    <2> QED
      BY <2>1, <2>2 DEF LooseInv
  <1> QED
    BY <1>1, <1>2

LEMMA OthersKeepLoose ==
  ASSUME MoveInv, LooseInv, (\E r \in Roots, d \in Data: Tamper(r, d)) \/ (\E r \in Roots: AddFile(r))
  PROVE  LooseInv'
  <1>1. Fault => CountsKept
    BY FaultCounts DEF MoveInv, CountsKept
  <1>2. ASSUME NEW r \in Roots, NEW d \in Data, Tamper(r, d) PROVE LooseInv'
    <2>1. /\ Fault /\ tree' = [tree EXCEPT ![r][d] = "foreign"]
          /\ loose' = loose \ {<<r, d>>} /\ damage' = damage
          /\ d \in Entries /\ "foreign" \in Content
      BY <1>2 DEF Tamper, Entries, Content
    <2>2. /\ \A f \in Roots: f # r => tree'[f] = tree[f]
          /\ \A x \in Entries: x # d => tree'[r][x] = tree[r][x]
      BY <2>1, OneFileChanges
    <2>3. \A f \in Roots, e \in Entries: <<f, e>> \in loose' => tree'[f][e] = tree[f][e]
      BY <2>1, <2>2
    <2> QED
      BY <1>1, <2>1, <2>3, LooseStays
  <1>3. ASSUME NEW r \in Roots, AddFile(r) PROVE LooseInv'
    BY <1>1, <1>3, QuietKeepsLoose DEF AddFile
  <1> QED
    BY <1>2, <1>3

LEMMA NextLoose ==
  ASSUME MoveInv, LooseInv, [Next]_vars
  PROVE  LooseInv'
  <1>1. Fault => CountsKept
    BY FaultCounts DEF MoveInv, CountsKept
  <1>2. CASE Retry \/ ResumeSource \/ Recover \/ Reopen \/ TryAgain \/ RetryMove \/ KeepSource
    <2>1. UNCHANGED counters \/ Fault
      BY <1>2 DEF Retry, ResumeSource, Recover, Reopen, TryAgain, RetryMove, KeepSource
    <2>2. UNCHANGED <<tree, loose, damage>>
      BY <1>2 DEF Retry, ResumeSource, Recover, Reopen, TryAgain, RetryMove, KeepSource, disk
    <2> QED
      BY <1>1, <2>1, <2>2, CountersCount, QuietKeepsLoose
  <1>3. CASE UNCHANGED vars
    BY <1>3, CountersCount, QuietKeepsLoose DEF vars, disk
  <1> QED
    BY <1>2, <1>3, MoveKeepsLoose, UseKeepsLoose, EndKeepsLoose, OthersKeepLoose DEF Next

LEMMA LooseInvHolds == Spec => []LooseInv
  <1>1. Init => LooseInv
    BY DEF Init, LooseInv
  <1>2. MoveInv /\ LooseInv /\ [Next]_vars => LooseInv'
    BY NextLoose
  <1> QED
    BY <1>1, <1>2, MoveInvHolds, PTL DEF Spec

----------------------------------------------------------------------------
(* What somebody else wrote.                                               *)

ForeignKept ==
    \A r \in Roots :
        /\ \A d \in Data : tree[r][d] = "foreign" => tree'[r][d] = "foreign"
        /\ r \in extra => r \in extra'
        /\ r \in extra /\ place[r] = "there" /\ outages' = outages => place'[r] = "there"

(* A step that only gives one file, not a foreign one, another content.    *)
LEMMA OneOwnFile ==
  ASSUME MoveInv, NEW f \in Roots, NEW e \in Entries, NEW c \in Content,
         tree' = [tree EXCEPT ![f][e] = c],
         e \in Data => tree[f][e] # "foreign",
         UNCHANGED <<extra, place>>
  PROVE  ForeignKept
  <1>1. /\ \A r \in Roots: r # f => tree'[r] = tree[r]
        /\ \A x \in Entries: x # e => tree'[f][x] = tree[f][x]
    BY OneFileChanges
  <1> QED
    BY <1>1 DEF ForeignKept, Entries

LEMMA UseKeepsForeign ==
  ASSUME MoveInv, (\E d \in Data, v \in Versions: Edit(d, v)) \/ (\E t \in Roots, sel \in BOOLEAN: BeginMove(t, sel))
  PROVE  ForeignKept
  <1>1. ASSUME NEW d \in Data, NEW v \in Versions, Edit(d, v) PROVE ForeignKept
    <2>1. /\ tree' = [tree EXCEPT ![profile][d] = v] /\ UNCHANGED <<extra, place>>
          /\ profile \in Roots /\ d \in Entries /\ v \in Content
      BY <1>1 DEF MoveInv, TypeOK, Edit, Entries, Content
    <2>2. tree[profile][d] # "foreign"
      BY <2>1 DEF MoveInv, Authority, Live
    <2> QED
      BY <2>1, <2>2, OneOwnFile
  <1>2. ASSUME NEW t \in Roots, NEW sel \in BOOLEAN, BeginMove(t, sel) PROVE ForeignKept
    <2>1. /\ tree' = [tree EXCEPT ![t] = Nothing] /\ extra' = extra \ {t} /\ place[t] = "none"
          /\ place' = [place EXCEPT ![t] = IF sel THEN "there" ELSE "workspace"]
      BY <1>2 DEF BeginMove
    <2>2. t \notin extra /\ \A d \in Data: tree[t][d] = "absent"
      BY <2>1 DEF MoveInv, Folders, Folder
    <2>3. \A r \in Roots: r # t => tree'[r] = tree[r] /\ place'[r] = place[r]
      BY <2>1 DEF MoveInv, TypeOK
    <2> QED
      BY <2>1, <2>2, <2>3 DEF ForeignKept
  <1> QED
    BY <1>1, <1>2

LEMMA CopyKeepsForeign ==
  ASSUME MoveInv, NEW e \in Entries, Copy(e)
  PROVE  ForeignKept
  <1>1. dst \in Roots /\ UNCHANGED <<extra, place>>
    BY DEF MoveInv, TypeOK, Intents, Copy, dst
  <1>2. CASE tree' = tree
    BY <1>1, <1>2 DEF ForeignKept
  <1>3. CASE tree' # tree
    <2>1. intent.manifest[e] \in Content /\ "absent" \in Content /\ "partial" \in Content
      BY DEF MoveInv, TypeOK, Intents, Content
    <2>2. PICK c \in Content: tree' = [tree EXCEPT ![dst][e] = c] /\ tree[dst][e] = "absent"
      BY <1>3, <2>1 DEF Copy
    <2> QED
      BY <1>1, <2>2, OneOwnFile
  <1> QED
    BY <1>2, <1>3

(* Removable: what stands under a recorded name is not the recorded file.  *)
LEMMA CleanKeepsForeign ==
  ASSUME MoveInv, NEW d \in Data, Clean(d)
  PROVE  ForeignKept
  <1>1. /\ UNCHANGED <<extra, place>> /\ d \in Entries
        /\ app \in {"move", "recover"} /\ at \in After
        /\ tree[src][d] = intent.manifest[d]
    BY DEF Clean, Removable, Cleaning, After, Entries
  <1>2. src \in Roots /\ intent # NoIntent
    BY <1>1, AfterCommit
  <1>3. tree[src][d] # "foreign"
    BY <1>1, <1>2 DEF MoveInv, Moves, Genuine
  <1>4. \A c \in {"absent", tree[src][d]}: c \in Content
    BY <1>1, <1>2 DEF MoveInv, TypeOK, Content
  <1>5. PICK c \in Content: tree' = [tree EXCEPT ![src][d] = c]
    BY <1>4 DEF Clean
  <1> QED
    BY <1>1, <1>2, <1>3, <1>5, OneOwnFile

LEMMA FoldersKeepForeign ==
  ASSUME MoveInv, Publish \/ RemoveFolder \/ RemoveControls
  PROVE  ForeignKept
  <1>1. src \in Roots /\ dst \in Roots
    BY DEF MoveInv, TypeOK, Intents, src, dst
  <1>2. CASE Publish
    BY <1>1, <1>2 DEF MoveInv, TypeOK, Publish, ForeignKept
  <1>3. CASE RemoveFolder
    BY <1>1, <1>3 DEF MoveInv, TypeOK, RemoveFolder, ForeignKept
  <1>4. CASE RemoveControls
    <2>1. "identity" \in Entries /\ "absent" \in Content
      BY DEF Entries, Content
    <2>2. UNCHANGED <<extra, place>>
      BY <1>4 DEF RemoveControls
    <2>3. CASE tree' = tree
      BY <2>2, <2>3 DEF ForeignKept
    <2>4. CASE tree' = [tree EXCEPT ![src]["identity"] = "absent"]
      BY <1>1, <2>1, <2>2, <2>4, OneOwnFile, DataAssumption
    <2> QED
      BY <1>4, <2>3, <2>4 DEF RemoveControls
  <1> QED
    BY <1>2, <1>3, <1>4

LEMMA EndKeepsForeign ==
  ASSUME MoveInv, LooseInv, Die \/ LosePower
  PROVE  ForeignKept
  <1>1. extra' = extra /\ (outages' = outages => place' = place)
    BY DEF MoveInv, TypeOK, Die, LosePower, EndsProcess
  <1>2. ASSUME NEW r \in Roots, NEW d \in Data, tree[r][d] = "foreign" PROVE tree'[r][d] = "foreign"
    <2>1. d \in Entries
      BY DEF Entries
    <2>2. \A t \in Torn: t[r][d] = "foreign"
      BY <1>2, <2>1, TornTree
    <2>3. CASE Die
      BY <2>2, <2>3 DEF Die
    <2>4. CASE LosePower
      <3>1. PICK gone \in SUBSET Unflushed, t \in Torn: tree' \in Without(t, gone)
        BY <2>4 DEF LosePower
      <3>2. <<r, d>> \notin gone
        BY <1>2, <3>1 DEF LooseInv, Unflushed
      <3>3. t \in [Roots -> [Entries -> Content]]
        BY <3>1, TornTree
      <3> QED
        BY <2>1, <2>2, <3>1, <3>2, <3>3, WithoutFiles
    <2> QED
      BY <2>3, <2>4
  <1> QED
    BY <1>1, <1>2 DEF ForeignKept

LEMMA OthersKeepForeign ==
  ASSUME MoveInv, (\E r \in Roots, d \in Data: Tamper(r, d)) \/ (\E r \in Roots: AddFile(r))
  PROVE  ForeignKept
  <1>1. ASSUME NEW r \in Roots, NEW d \in Data, Tamper(r, d) PROVE ForeignKept
    <2>1. /\ tree' = [tree EXCEPT ![r][d] = "foreign"] /\ tree[r][d] # "foreign"
          /\ UNCHANGED <<extra, place>> /\ d \in Entries /\ "foreign" \in Content
      BY <1>1 DEF Tamper, Entries, Content
    <2> QED
      BY <2>1, OneOwnFile
  <1>2. ASSUME NEW r \in Roots, AddFile(r) PROVE ForeignKept
    BY <1>2 DEF AddFile, ForeignKept
  <1> QED
    BY <1>1, <1>2

LEMMA EveryStepKeepsForeign ==
  ASSUME MoveInv, LooseInv, [Next]_vars
  PROVE  ForeignKept
  <1>1. CASE UNCHANGED <<tree, extra, place>>
    BY <1>1 DEF ForeignKept
  <1>2. CASE Own \/ WriteJournal \/ FlushJournal \/ FlushPublished \/ Check \/ Exchange \/ Sync
    BY <1>1, <1>2 DEF Own, WriteJournal, FlushJournal, FlushPublished, Check, Exchange, Sync, disk
  <1>3. CASE Finish \/ Cleaned \/ Acknowledge \/ ControlsFail \/ CloseMove
    BY <1>1, <1>3 DEF Finish, Cleaned, Acknowledge, ControlsFail, CloseMove, disk
  <1>4. CASE Retry \/ ResumeSource \/ Recover \/ Reopen \/ TryAgain \/ RetryMove \/ KeepSource
    BY <1>1, <1>4 DEF Retry, ResumeSource, Recover, Reopen, TryAgain, RetryMove, KeepSource, disk
  <1>5. CASE UNCHANGED vars
    BY <1>1, <1>5 DEF vars, disk
  <1>6. CASE Move
    BY <1>2, <1>3, <1>6, CopyKeepsForeign, CleanKeepsForeign, FoldersKeepForeign DEF Move
  <1> QED
    BY <1>4, <1>5, <1>6, UseKeepsForeign, EndKeepsForeign, OthersKeepForeign DEF Next

----------------------------------------------------------------------------
(* The theorems.                                                           *)

(* The state of a move is always well typed.                               *)
THEOREM MoveTypeCorrect == Spec => []TypeOK
  <1>1. MoveInv => TypeOK
    BY DEF MoveInv
  <1> QED
    BY <1>1, MoveInvHolds, PTL

(* Whatever fails, dies or loses power, the folder that the profile names  *)
(* holds the whole library as its user knows it, but for the files that a  *)
(* power loss took because copy_entry had not flushed them; and unless a   *)
(* call failed or a process died, no file is taken.                        *)
THEOREM LibraryStaysWhole == Spec => []AuthorityIsWhole
  <1>1. MoveInv /\ LooseInv => AuthorityIsWhole
    BY DEF MoveInv, LooseInv, Authority, Live, AuthorityIsWhole
  <1> QED
    BY <1>1, MoveInvHolds, LooseInvHolds, PTL

(* What RelocationFailure::commit_status reports is so.                    *)
THEOREM CommitStatusIsTrue == Spec => []StatusIsTrue
  <1>1. MoveInv => StatusIsTrue
    BY DEF MoveInv, Attempting, OwnJournal, Recorded, StatusIsTrue
  <1> QED
    BY <1>1, MoveInvHolds, PTL

(* A retirement receipt proves the commit and the emptied folder.          *)
THEOREM ReceiptsAreTrue == Spec => []ReceiptIsTrue
  <1>1. MoveInv => ReceiptIsTrue
    BY DEF MoveInv
  <1> QED
    BY <1>1, MoveInvHolds, PTL

(* No step of a move or of a recovery takes away what somebody else put    *)
(* into a folder, or the folder he put it in.                              *)
THEOREM OthersLoseNothing == Spec => ForeignStays
  <1>1. MoveInv /\ LooseInv /\ [Next]_vars => [ForeignKept]_vars
    BY EveryStepKeepsForeign
  <1>2. Spec => [][ForeignKept]_vars
    BY <1>1, MoveInvHolds, LooseInvHolds, PTL DEF Spec
  <1> QED
    BY <1>2 DEF ForeignStays, ForeignKept
============================================================================
