---------------------------- MODULE ExportsProofs ----------------------------
(***************************************************************************)
(* The safety of exports, for any exports, stories and output names, and   *)
(* for any number of changes, faults, deaths and power losses.             *)
(*                                                                         *)
(* ExportInv is the inductive invariant.  It follows every export from the *)
(* plan to the settled workspace: what its worker remembers, what the      *)
(* record and the destination hold at each point, and what a loss of power *)
(* may leave of it.                                                        *)
(***************************************************************************)
EXTENDS Exports, TLAPS

(* Nothing of the export was ever made.                                    *)
Untouched(j) == place[j] = "none" /\ mayBe[j] = {"none"} /\ reg[j] = {"none"}

(* The destination and what a loss of power may leave of it.               *)
Space(j) ==
    /\ place[j] \in mayBe[j]
    /\ mayBe[j] \cap Out # {} => place[j] \in Out
    /\ place[j] \in Out <=> holder[Name[j]] = j
    /\ ~ (mayBe[j] \subseteq Bare) => "none" \notin reg[j]

(* What the row says is so; before the item runs there is nothing.         *)
Told(j) ==
    /\ row[j] \in {"absent", "queued"} => Untouched(j) /\ job[j].pc = "idle"
    /\ row[j] = "succeeded" => mayBe[j] \subseteq Out
    /\ row[j] \in Ends \ {"succeeded"} => place[j] \notin Out

Early == {"check1", "custody", "check2", "reserve"}
Making == {"mkdir", "payload", "register"}
Made == {"check3", "copy", "publish", "flush"}
Settling == {"retire", "upgrade", "remove", "sync", "forget"}

(* The worker, its row and the application.                                *)
Runs(j) ==
    /\ job[j].pc = "idle" =>
          /\ job[j].outcome = "none" /\ job[j].mem = "none" /\ ~job[j].owned
          /\ app = "open" => row[j] # "running" /\ mayBe[j] \subseteq Bare
    /\ job[j].pc # "idle" => app = "open"
    /\ job[j].pc \in Early \cup Making \cup Made => row[j] = "running" /\ job[j].outcome = "none"
    /\ job[j].uncertain => job[j].pc = "publish"

(* Nothing was made yet.                                                   *)
Starts(j) ==
    job[j].pc \in Early => Untouched(j) /\ job[j].mem = "none" /\ ~job[j].owned

(* The workspace is reserved, made and registered.                         *)
Makes(j) ==
    /\ job[j].pc \in Making => job[j].mem = "reserved" /\ reg[j] = {"reserved"}
    /\ job[j].pc = "mkdir" => place[j] = "none" /\ mayBe[j] = {"none"} /\ ~job[j].owned
    /\ job[j].pc = "payload" => place[j] = "dir" /\ mayBe[j] = {"none", "dir"} /\ job[j].owned
    /\ job[j].pc = "register" => place[j] = "payload" /\ mayBe[j] = {"payload"} /\ job[j].owned

(* The payload is copied, renamed and flushed.                             *)
Publishes(j) ==
    /\ job[j].pc \in Made => job[j].mem = "full" /\ reg[j] = {"full"} /\ job[j].owned
    /\ job[j].pc \in {"check3", "copy"} => place[j] = "payload" /\ mayBe[j] = {"payload"}
    /\ job[j].pc = "publish" =>
          \/ place[j] = "payload" /\ mayBe[j] = {"payload"}
          \/ job[j].uncertain /\ place[j] = "published" /\ mayBe[j] = {"payload", "published"}
    /\ job[j].pc = "flush" => place[j] = "published" /\ mayBe[j] \subseteq {"payload", "published"}

(* The outcome is decided, reported, and the workspace retired.            *)
Settles(j) ==
    /\ job[j].pc = "report" =>
          /\ row[j] = "running" /\ job[j].outcome # "none"
          /\ IF job[j].outcome = "succeeded"
             THEN /\ job[j].mem = "full" /\ job[j].owned
                  /\ place[j] = "published" /\ mayBe[j] = {"published"}
             ELSE place[j] = "none" /\ mayBe[j] = {"none"}
    /\ job[j].pc \in Settling =>
          /\ job[j].outcome # "none"
          /\ IF job[j].outcome = "succeeded"
             THEN row[j] = "succeeded" /\ job[j].mem = "full" /\ job[j].owned
             ELSE row[j] = "running" /\ place[j] \notin Out
          /\ job[j].mem = "none" => job[j].pc = "retire" /\ mayBe[j] = {"none"}
    /\ job[j].pc = "sync" => place[j] \in Bare
    /\ job[j].pc = "forget" => place[j] \in Bare /\ mayBe[j] = {place[j]}

(* Custody is held from before the second look at the story to the end.    *)
Holds(j) ==
    /\ job[j].pc \in {"check2", "reserve"} \cup Making \cup Made \cup Settling
            \/ job[j].outcome = "succeeded" => custody = j
    /\ job[j].pc \in {"reserve"} \cup Making \cup Made \cup Settling
            \/ job[j].outcome = "succeeded" => story[Story[j]] # "gone"

Sound(j) ==
    Space(j) /\ Told(j) /\ Runs(j) /\ Starts(j) /\ Makes(j) /\ Publishes(j) /\ Settles(j) /\ Holds(j)

(* A plan is with the ticket, with the executor, or with the operation.    *)
Planning ==
    /\ ticket # Nobody => row[ticket] = "absent" /\ ticket \notin plans /\ prepared # <<>>
    /\ ingress # Nobody => row[ingress] = "absent" /\ ingress \in plans /\ ingress \notin rejected
    /\ \A j \in rejected : row[j] = "absent" /\ j \in plans
    /\ PlanIsKept

(* A file of ours has its own name.                                        *)
Named == \A n \in Names : holder[n] \in Jobs => Name[holder[n]] = n

ExportInv ==
    /\ TypeOK
    /\ Planning
    /\ Named
    /\ \A j \in Jobs : Sound(j)

----------------------------------------------------------------------------
(* What a step of one export leaves alone.                                 *)

Workers == [pc: Points, outcome: Ends \cup {"none"}, mem: Entries,
            owned: BOOLEAN, uncertain: BOOLEAN]

(* The step of export j: nothing of another export, and no other name, is  *)
(* changed, and its row only goes on.                                      *)
Apart(j) ==
    /\ UNCHANGED <<story, window, app>>
    /\ \A k \in Jobs \ {j} :
          /\ job'[k] = job[k] /\ place'[k] = place[k] /\ mayBe'[k] = mayBe[k]
          /\ reg'[k] = reg[k] /\ row'[k] = row[k]
          /\ custody = k => custody' = k
    /\ \A n \in Names \ {Name[j]} : holder'[n] = holder[n]
    /\ \/ holder'[Name[j]] = holder[Name[j]]
       \/ holder[Name[j]] = Nobody /\ holder'[Name[j]] = j
    /\ \/ row'[j] = row[j]
       \/ row[j] \in {"queued", "running"} /\ row'[j] \in Ends \cup {"running"}

LEMMA OthersSound ==
  ASSUME ExportInv, NEW j \in Jobs, Apart(j), NEW k \in Jobs, k # j
  PROVE  Sound(k)'
PROOF
<1>1. /\ job'[k] = job[k] /\ place'[k] = place[k] /\ mayBe'[k] = mayBe[k]
      /\ reg'[k] = reg[k] /\ row'[k] = row[k]
      /\ custody = k => custody' = k
      /\ story' = story /\ app' = app
  BY DEF Apart
<1>2. holder'[Name[k]] = k <=> holder[Name[k]] = k
  <2>1. CASE Name[k] = Name[j]
    BY <2>1, ExportsAssumption DEF Apart
  <2>2. CASE Name[k] # Name[j]
    <3>1. Name[k] \in Names
      BY DEF Names
    <3> QED BY <2>2, <3>1 DEF Apart
  <2> QED BY <2>1, <2>2
<1>3. Sound(k)
  BY DEF ExportInv
<1>4. Space(k)' /\ Told(k)'
  BY <1>1, <1>2, <1>3 DEF Sound, Space, Told, Untouched
<1>5. Runs(k)' /\ Starts(k)' /\ Makes(k)' /\ Publishes(k)' /\ Settles(k)'
  BY <1>1, <1>3 DEF Sound, Runs, Starts, Makes, Publishes, Settles, Untouched
<1>6. Holds(k)'
  BY <1>1, <1>3 DEF Sound, Holds
<1> QED BY <1>4, <1>5, <1>6 DEF Sound

LEMMA PlansKept ==
  ASSUME ExportInv, NEW j \in Jobs, Apart(j)
  PROVE  Planning'
PROOF
<1>1. /\ UNCHANGED <<ticket, plans, prepared, ingress, rejected, app>>
      /\ \A k \in Jobs : row[k] = "absent" => row'[k] = "absent"
      /\ \A k \in Jobs : row'[k] \in {"queued", "running"} => row[k] \in {"queued", "running"}
  BY DEF Apart, window, Ends
<1>2. /\ ticket \in Jobs \cup {Nobody} /\ ingress \in Jobs \cup {Nobody}
      /\ rejected \subseteq Jobs
  BY DEF ExportInv, TypeOK
<1> QED BY <1>1, <1>2 DEF ExportInv, Planning, PlanIsKept

LEMMA NamesKept ==
  ASSUME ExportInv, NEW j \in Jobs, Apart(j)
  PROVE  Named'
PROOF
<1>1. SUFFICES ASSUME NEW n \in Names, holder'[n] \in Jobs
               PROVE  Name[holder'[n]] = n
  BY DEF Named
<1>2. CASE holder'[n] = holder[n]
  BY <1>1, <1>2 DEF ExportInv, Named
<1>3. CASE holder'[n] # holder[n]
  BY <1>1, <1>3 DEF Apart
<1> QED BY <1>2, <1>3

(* What is left to show of a step of one export.                           *)
LEMMA OneExport ==
  ASSUME ExportInv, NEW j \in Jobs, Apart(j), TypeOK', Sound(j)'
  PROVE  ExportInv'
PROOF
<1>1. \A k \in Jobs : Sound(k)'
  BY OthersSound
<1> QED BY <1>1, PlansKept, NamesKept DEF ExportInv

(* The worker moves on.                                                    *)
LEMMA Moved ==
  ASSUME job \in [Jobs -> Workers], NEW j \in Jobs, NEW w \in Workers, Moves(j, w)
  PROVE  /\ job' \in [Jobs -> Workers] /\ job'[j] = w
         /\ \A k \in Jobs \ {j} : job'[k] = job[k]
  BY DEF Moves

LEMMA Gone ==
  ASSUME job \in [Jobs -> Workers], NEW j \in Jobs, NEW p \in Points, Goes(j, p)
  PROVE  /\ job' \in [Jobs -> Workers]
         /\ \A k \in Jobs \ {j} : job'[k] = job[k]
         /\ job'[j].pc = p /\ job'[j].outcome = job[j].outcome /\ job'[j].mem = job[j].mem
         /\ job'[j].owned <=> job[j].owned
         /\ job'[j].uncertain <=> job[j].uncertain
PROOF
<1>1. [job[j] EXCEPT !.pc = p] \in Workers
  BY DEF Workers
<1>2. job' = [job EXCEPT ![j] = [job[j] EXCEPT !.pc = p]]
  BY DEF Goes
<1>3. job'[j] = [job[j] EXCEPT !.pc = p]
  BY <1>2
<1> QED BY <1>1, <1>2, <1>3 DEF Workers

LEMMA Decided ==
  ASSUME job \in [Jobs -> Workers], NEW j \in Jobs, NEW p \in Points, NEW o \in Ends,
         Moves(j, [job[j] EXCEPT !.pc = p, !.outcome = o])
  PROVE  /\ job' \in [Jobs -> Workers]
         /\ \A k \in Jobs \ {j} : job'[k] = job[k]
         /\ job'[j].pc = p /\ job'[j].outcome = o /\ job'[j].mem = job[j].mem
         /\ job'[j].owned <=> job[j].owned
         /\ job'[j].uncertain <=> job[j].uncertain
PROOF
<1>1. [job[j] EXCEPT !.pc = p, !.outcome = o] \in Workers
  BY DEF Workers
<1>2. job'[j] = [job[j] EXCEPT !.pc = p, !.outcome = o]
  BY <1>1 DEF Moves
<1> QED BY <1>1, <1>2, Moved DEF Workers

LEMMA Reported ==
  ASSUME job \in [Jobs -> Workers], NEW j \in Jobs, NEW o \in Ends, Reports(j, o)
  PROVE  /\ job' \in [Jobs -> Workers]
         /\ \A k \in Jobs \ {j} : job'[k] = job[k]
         /\ job'[j].pc = "report" /\ job'[j].outcome = o /\ job'[j].mem = job[j].mem
         /\ job'[j].owned <=> job[j].owned
         /\ job'[j].uncertain <=> job[j].uncertain
PROOF
<1>1. Moves(j, [job[j] EXCEPT !.pc = "report", !.outcome = o])
  BY DEF Reports
<1>2. "report" \in Points
  BY DEF Points
<1> QED BY <1>1, <1>2, Decided, Zenon

LEMMA Compensated ==
  ASSUME job \in [Jobs -> Workers], NEW j \in Jobs, NEW o \in Ends, Compensates(j, o)
  PROVE  /\ job' \in [Jobs -> Workers]
         /\ \A k \in Jobs \ {j} : job'[k] = job[k]
         /\ job'[j].pc = "retire" /\ job'[j].outcome = o /\ job'[j].mem = job[j].mem
         /\ job'[j].owned <=> job[j].owned
         /\ job'[j].uncertain <=> job[j].uncertain
PROOF
<1>1. Moves(j, [job[j] EXCEPT !.pc = "retire", !.outcome = o])
  BY DEF Compensates
<1>2. "retire" \in Points
  BY DEF Points
<1> QED BY <1>1, <1>2, Decided, Zenon

(* A step of export j, variable by variable.                               *)
Counts == [changes: 0..MaxChanges, faults: 0..MaxFaults, deaths: 0..MaxDeaths]

Acts(j) ==
    /\ UNCHANGED <<story, window, cancelled, app>>
    /\ job' \in [Jobs -> Workers] /\ \A k \in Jobs \ {j} : job'[k] = job[k]
    /\ \/ row' = row
       \/ /\ row[j] \in {"queued", "running"}
          /\ \E r \in Ends \cup {"running"} : row' = [row EXCEPT ![j] = r]
    /\ place' = place \/ \E p \in Places : place' = [place EXCEPT ![j] = p]
    /\ mayBe' = mayBe \/ \E m \in SUBSET Places : mayBe' = [mayBe EXCEPT ![j] = m]
    /\ reg' = reg \/ \E r \in SUBSET Entries : reg' = [reg EXCEPT ![j] = r]
    /\ \/ holder' = holder
       \/ holder[Name[j]] = Nobody /\ holder' = [holder EXCEPT ![Name[j]] = j]
    /\ custody' = custody \/ (custody' = j /\ custody = Nobody) \/ (custody' = Nobody /\ custody = j)
    /\ fenced' \in BOOLEAN /\ count' \in Counts

LEMMA ActsApart ==
  ASSUME ExportInv, NEW j \in Jobs, Acts(j)
  PROVE  Apart(j)
PROOF
<1>1. /\ UNCHANGED <<story, window, app>>
      /\ \A k \in Jobs \ {j} : job'[k] = job[k]
  BY DEF Acts
<1>2. /\ row \in [Jobs -> Ends \cup {"absent", "queued", "running", "interrupted"}]
      /\ place \in [Jobs -> Places] /\ mayBe \in [Jobs -> SUBSET Places]
      /\ reg \in [Jobs -> SUBSET Entries]
      /\ holder \in [Names -> Jobs \cup {Nobody, Foreign}]
  BY DEF ExportInv, TypeOK
<1>3. /\ \A k \in Jobs \ {j} : row'[k] = row[k]
      /\ \/ row'[j] = row[j]
         \/ row[j] \in {"queued", "running"} /\ row'[j] \in Ends \cup {"running"}
  BY <1>2 DEF Acts
<1>4. \A k \in Jobs \ {j} : place'[k] = place[k]
  BY <1>2 DEF Acts
<1>5. \A k \in Jobs \ {j} : mayBe'[k] = mayBe[k]
  BY <1>2 DEF Acts
<1>6. \A k \in Jobs \ {j} : reg'[k] = reg[k]
  BY <1>2 DEF Acts
<1>7. \A k \in Jobs \ {j} : custody = k => custody' = k
  BY ExportsAssumption DEF Acts
<1>8. /\ \A n \in Names \ {Name[j]} : holder'[n] = holder[n]
      /\ \/ holder'[Name[j]] = holder[Name[j]]
         \/ holder[Name[j]] = Nobody /\ holder'[Name[j]] = j
  <2>1. Name[j] \in Names
    BY DEF Names
  <2> QED BY <1>2, <2>1 DEF Acts
<1> QED BY <1>1, <1>3, <1>4, <1>5, <1>6, <1>7, <1>8 DEF Apart

LEMMA ActsTyped ==
  ASSUME ExportInv, NEW j \in Jobs, Acts(j)
  PROVE  TypeOK'
PROOF
<1>1. TypeOK
  BY DEF ExportInv
<1>2. /\ story' \in [Stories -> {"fine", "broken", "gone"}]
      /\ prepared' \in Seq(Jobs) /\ Len(prepared') <= Limit
      /\ ticket' \in Jobs \cup {Nobody} /\ ingress' \in Jobs \cup {Nobody}
      /\ plans' \subseteq Jobs /\ rejected' \subseteq Jobs /\ cancelled' \subseteq Jobs
      /\ app' \in {"open", "starting", "refused"}
  BY <1>1 DEF TypeOK, Acts, window
<1>3. job' \in [Jobs -> Workers]
  BY DEF Acts
<1>4. row' \in [Jobs -> Ends \cup {"absent", "queued", "running", "interrupted"}]
  BY <1>1 DEF TypeOK, Acts
<1>5. place' \in [Jobs -> Places]
  BY <1>1 DEF TypeOK, Acts
<1>6. mayBe' \in [Jobs -> SUBSET Places]
  BY <1>1 DEF TypeOK, Acts
<1>7. reg' \in [Jobs -> SUBSET Entries]
  BY <1>1 DEF TypeOK, Acts
<1>8. holder' \in [Names -> Jobs \cup {Nobody, Foreign}]
  BY <1>1 DEF TypeOK, Acts
<1>9. custody' \in Jobs \cup {Nobody} /\ fenced' \in BOOLEAN /\ count' \in Counts
  BY <1>1 DEF TypeOK, Acts
<1> QED BY <1>2, <1>3, <1>4, <1>5, <1>6, <1>7, <1>8, <1>9 DEF TypeOK, Workers, Counts

LEMMA ActsKeep ==
  ASSUME ExportInv, NEW j \in Jobs, Acts(j), Sound(j)'
  PROVE  ExportInv'
  BY ActsApart, ActsTyped, OneExport

LEMMA Spent ==
  ASSUME count \in Counts, Faulty
  PROVE  count' \in Counts
PROOF
<1>1. /\ count' = [count EXCEPT !.faults = count.faults + 1]
      /\ count.faults < MaxFaults
  BY DEF Faulty, Spend
<1>2. count.faults + 1 \in 0..MaxFaults
  BY <1>1, ExportsAssumption DEF Counts
<1> QED BY <1>1, <1>2 DEF Counts

(* What is known of the variables a worker works with.                     *)
LEMMA Typed ==
  ASSUME ExportInv, NEW j \in Jobs
  PROVE  /\ job \in [Jobs -> Workers] /\ job[j] \in Workers /\ count \in Counts
         /\ place \in [Jobs -> Places] /\ mayBe \in [Jobs -> SUBSET Places]
         /\ reg \in [Jobs -> SUBSET Entries]
         /\ holder \in [Names -> Jobs \cup {Nobody, Foreign}] /\ Name[j] \in Names
         /\ row \in [Jobs -> Ends \cup {"absent", "queued", "running", "interrupted"}]
         /\ fenced \in BOOLEAN /\ custody \in Jobs \cup {Nobody}
         /\ Sound(j)
  BY DEF ExportInv, TypeOK, Workers, Counts, Names

(* Nothing of the export but its worker changes.                           *)
Stays(j) ==
    /\ UNCHANGED <<story, app>>
    /\ row'[j] = row[j] /\ place'[j] = place[j] /\ mayBe'[j] = mayBe[j] /\ reg'[j] = reg[j]
    /\ holder'[Name[j]] = j <=> holder[Name[j]] = j

LEMMA SpaceStays ==
  ASSUME NEW j \in Jobs, Sound(j), Stays(j)
  PROVE  Space(j)'
  BY DEF Sound, Stays, Space

(* An item that made nothing is reported with what kept it from it.        *)
LEMMA GivesUp ==
  ASSUME NEW j \in Jobs, Sound(j), Stays(j),
         row[j] = "running", place[j] = "none", mayBe[j] = {"none"}, app = "open",
         job'[j].pc = "report", job'[j].outcome \in Ends \ {"succeeded"}, ~job'[j].uncertain
  PROVE  Sound(j)'
PROOF
<1>1. Space(j)' /\ Told(j)' /\ Starts(j)' /\ Makes(j)' /\ Publishes(j)'
  BY SpaceStays DEF Stays, Told, Starts, Makes, Publishes, Early, Making, Made, Ends
<1>2. Runs(j)' /\ Settles(j)' /\ Holds(j)'
  BY DEF Stays, Runs, Settles, Holds, Early, Making, Made, Settling, Ends
<1> QED BY <1>1, <1>2 DEF Sound

(* An item that gives up goes to retire what it made.                      *)
LEMMA TurnsBack ==
  ASSUME NEW j \in Jobs, Space(j)', UNCHANGED <<app, story>>, row'[j] = row[j],
         row[j] = "running", app = "open", custody' = j, story[Story[j]] # "gone",
         job'[j].pc = "retire", job'[j].outcome \in Ends \ {"succeeded"}, ~job'[j].uncertain,
         place'[j] \notin Out, job'[j].mem = "none" => mayBe'[j] = {"none"}
  PROVE  Sound(j)'
PROOF
<1>1. Told(j)' /\ Starts(j)' /\ Makes(j)' /\ Publishes(j)'
  BY DEF Told, Starts, Makes, Publishes, Early, Making, Made, Ends
<1>2. Runs(j)' /\ Settles(j)' /\ Holds(j)'
  BY DEF Runs, Settles, Holds, Early, Making, Made, Settling, Ends
<1> QED BY <1>1, <1>2 DEF Sound

----------------------------------------------------------------------------
(* The worker: until bytes are written                                     *)

(* An item that has a worker before anything is made.                      *)
LEMMA BeforeAnything ==
  ASSUME NEW j \in Jobs, Sound(j), job[j].pc \in Early
  PROVE  /\ place[j] = "none" /\ mayBe[j] = {"none"} /\ reg[j] = {"none"}
         /\ row[j] = "running" /\ app = "open"
         /\ job[j].outcome = "none" /\ job[j].mem = "none"
         /\ ~job[j].owned /\ ~job[j].uncertain
         /\ job[j].pc \in {"check2", "reserve"} => custody = j
         /\ job[j].pc = "reserve" => story[Story[j]] # "gone"
PROOF
<1>1. Starts(j) /\ Runs(j) /\ Holds(j)
  BY DEF Sound
<1> QED BY <1>1 DEF Starts, Runs, Holds, Untouched, Early

(* It takes a further step without making anything.                        *)
LEMMA GoesOn ==
  ASSUME NEW j \in Jobs, Sound(j), Stays(j),
         row'[j] = "running", app = "open",
         place[j] = "none", mayBe[j] = {"none"}, reg[j] = {"none"},
         job'[j].pc \in Early, job'[j].outcome = "none", job'[j].mem = "none",
         ~job'[j].owned, ~job'[j].uncertain,
         job'[j].pc \in {"check2", "reserve"} => custody' = j,
         job'[j].pc = "reserve" => story[Story[j]] # "gone"
  PROVE  Sound(j)'
PROOF
<1>1. Space(j)'
  BY SpaceStays
<1>2. Told(j)' /\ Starts(j)' /\ Makes(j)' /\ Publishes(j)'
  BY DEF Stays, Told, Starts, Makes, Publishes, Untouched, Early, Making, Made, Ends
<1>3. Runs(j)' /\ Settles(j)' /\ Holds(j)'
  BY DEF Stays, Runs, Settles, Holds, Early, Making, Made, Settling, Ends
<1> QED BY <1>1, <1>2, <1>3 DEF Sound

LEMMA VerdictEnds ==
  ASSUME NEW j \in Jobs, Verdict(j) # "none"
  PROVE  Verdict(j) \in Ends \ {"succeeded"}
  BY DEF Verdict, Ends

LEMMA EarlyReport ==
  ASSUME NEW j \in Jobs, job \in [Jobs -> Workers], Sound(j), Stays(j), job[j].pc \in Early,
         NEW o \in Ends \ {"succeeded"}, Reports(j, o)
  PROVE  Sound(j)'
PROOF
<1>1. /\ job'[j].pc = "report" /\ job'[j].outcome = o
      /\ job'[j].uncertain <=> job[j].uncertain
  BY Reported
<1>2. /\ row[j] = "running" /\ place[j] = "none" /\ mayBe[j] = {"none"} /\ app = "open"
      /\ ~job[j].uncertain
  BY BeforeAnything
<1> QED BY <1>1, <1>2, GivesUp

LEMMA FirstCheckKeeps ==
  ASSUME ExportInv, NEW j \in Jobs, FirstCheck(j)
  PROVE  ExportInv'
PROOF
<1>1. /\ job[j].pc = "check1"
      /\ UNCHANGED <<story, window, row, cancelled, place, mayBe, holder, reg, custody, fenced, app, count>>
  BY DEF FirstCheck, disk
<1>2. Stays(j) /\ Sound(j)
  BY <1>1, Typed DEF Stays
<1>3. CASE Goes(j, "custody")
  <2>1. Acts(j)
    BY <1>1, <1>3, Typed, Gone DEF Acts, Points
  <2>2. Sound(j)'
    BY <1>1, <1>2, <1>3, Typed, Gone, BeforeAnything, GoesOn DEF Points, Early
  <2> QED BY <2>1, <2>2, ActsKeep
<1>4. CASE Verdict(j) # "none" /\ Reports(j, Verdict(j))
  <2>1. Acts(j)
    BY <1>1, <1>4, Typed, Reported, VerdictEnds DEF Acts
  <2>2. Sound(j)'
    BY <1>1, <1>2, <1>4, Typed, VerdictEnds, EarlyReport DEF Early
  <2> QED BY <2>1, <2>2, ActsKeep
<1> QED BY <1>3, <1>4 DEF FirstCheck

LEMMA TakeCustodyKeeps ==
  ASSUME ExportInv, NEW j \in Jobs, TakeCustody(j)
  PROVE  ExportInv'
PROOF
<1>1. /\ job[j].pc = "custody"
      /\ UNCHANGED <<story, window, row, cancelled, place, mayBe, holder, reg, fenced, app, count>>
  BY DEF TakeCustody, disk
<1>2. Stays(j) /\ Sound(j)
  BY <1>1, Typed DEF Stays
<1>3. CASE custody = Nobody /\ custody' = j /\ Goes(j, "check2")
  <2>1. Acts(j)
    BY <1>1, <1>3, Typed, Gone DEF Acts, Points
  <2>2. Sound(j)'
    BY <1>1, <1>2, <1>3, Typed, Gone, BeforeAnything, GoesOn DEF Points, Early
  <2> QED BY <2>1, <2>2, ActsKeep
<1>4. ASSUME NEW o \in Ends \ {"succeeded"}, Reports(j, o), custody' = custody
      PROVE  ExportInv'
  <2>1. Acts(j)
    BY <1>1, <1>4, Typed, Reported DEF Acts
  <2>2. Sound(j)'
    BY <1>1, <1>2, <1>4, Typed, EarlyReport DEF Early
  <2> QED BY <2>1, <2>2, ActsKeep
<1> QED BY <1>3, <1>4 DEF TakeCustody, Ends

LEMMA SecondCheckKeeps ==
  ASSUME ExportInv, NEW j \in Jobs, SecondCheck(j)
  PROVE  ExportInv'
PROOF
<1>1. /\ job[j].pc = "check2"
      /\ UNCHANGED <<story, window, row, cancelled, place, mayBe, holder, reg, fenced, app, count>>
  BY DEF SecondCheck, disk
<1>2. Stays(j) /\ Sound(j) /\ custody = j
  BY <1>1, Typed, BeforeAnything DEF Stays, Early
<1>3. CASE Verdict(j) = "none" /\ Goes(j, "reserve") /\ UNCHANGED custody
  <2>1. Acts(j)
    BY <1>1, <1>3, Typed, Gone DEF Acts, Points
  <2>2. story[Story[j]] # "gone"
    BY <1>3 DEF Verdict
  <2>3. Sound(j)'
    BY <1>1, <1>2, <1>3, <2>2, Typed, Gone, BeforeAnything, GoesOn DEF Points, Early
  <2> QED BY <2>1, <2>3, ActsKeep
<1>4. CASE Verdict(j) # "none" /\ Reports(j, Verdict(j)) /\ custody' = Nobody
  <2>1. Acts(j)
    BY <1>1, <1>2, <1>4, Typed, Reported, VerdictEnds DEF Acts
  <2>2. Sound(j)'
    BY <1>1, <1>2, <1>4, Typed, VerdictEnds, EarlyReport DEF Early
  <2> QED BY <2>1, <2>2, ActsKeep
<1> QED BY <1>3, <1>4 DEF SecondCheck

LEMMA UnacquiredKeeps ==
  ASSUME ExportInv, NEW j \in Jobs, Unacquired(j)
  PROVE  ExportInv'
PROOF
<1>1. /\ job[j].pc = "reserve" /\ Compensates(j, "failed")
      /\ UNCHANGED <<story, window, row, cancelled, place, mayBe, holder, reg, custody, fenced, app, count>>
  BY DEF Unacquired, disk
<1>2. Stays(j) /\ Sound(j)
  BY <1>1, Typed DEF Stays
<1>3. Acts(j)
  BY <1>1, Typed, Compensated DEF Acts, Ends
<1>4. job'[j].pc = "retire" /\ job'[j].outcome = "failed" /\ ~job'[j].uncertain
  BY <1>1, <1>2, Typed, Compensated, BeforeAnything DEF Ends, Early
<1>5. Sound(j)'
  BY <1>1, <1>2, <1>4, BeforeAnything, SpaceStays, TurnsBack DEF Stays, Early, Ends, Out
<1> QED BY <1>3, <1>5, ActsKeep

LEMMA BeginKeeps ==
  ASSUME ExportInv, NEW j \in Jobs, Begin(j)
  PROVE  ExportInv'
PROOF
<1>1. /\ app = "open" /\ row[j] = "queued" /\ row' = [row EXCEPT ![j] = "running"]
      /\ UNCHANGED <<story, window, cancelled, place, mayBe, holder, reg, custody, fenced, app, count>>
  BY DEF Begin, disk
<1>2. row'[j] = "running"
  BY <1>1, Typed
<1>3. /\ place[j] = "none" /\ mayBe[j] = {"none"} /\ reg[j] = {"none"}
      /\ job[j].pc = "idle" /\ job[j].outcome = "none" /\ job[j].mem = "none"
      /\ ~job[j].owned /\ ~job[j].uncertain
  BY <1>1, Typed DEF Sound, Told, Untouched, Runs
<1>4. Space(j)'
  BY <1>1, Typed DEF Sound, Space
<1>5. Told(j)'
  BY <1>2 DEF Told, Ends
<1>6. CASE Goes(j, "check1")
  <2>1. Acts(j)
    BY <1>1, <1>6, Typed, Gone DEF Acts, Points
  <2>2. /\ job'[j].pc = "check1" /\ job'[j].outcome = "none" /\ job'[j].mem = "none"
        /\ ~job'[j].owned /\ ~job'[j].uncertain
    BY <1>3, <1>6, Typed, Gone DEF Points
  <2>3. Runs(j)' /\ Starts(j)' /\ Makes(j)' /\ Publishes(j)' /\ Settles(j)' /\ Holds(j)'
    BY <1>1, <1>2, <1>3, <2>2
       DEF Runs, Starts, Makes, Publishes, Settles, Holds, Untouched, Early, Making, Made, Settling
  <2> QED BY <1>4, <1>5, <2>1, <2>3, ActsKeep DEF Sound
<1>7. ASSUME NEW o \in Ends \ {"succeeded"}, Reports(j, o)
      PROVE  ExportInv'
  <2>1. Acts(j)
    BY <1>1, <1>7, Typed, Reported DEF Acts
  <2>2. /\ job'[j].pc = "report" /\ job'[j].outcome = o /\ job'[j].mem = "none"
        /\ ~job'[j].owned /\ ~job'[j].uncertain
    BY <1>3, <1>7, Typed, Reported
  <2>3. Runs(j)' /\ Starts(j)' /\ Makes(j)' /\ Publishes(j)' /\ Settles(j)' /\ Holds(j)'
    BY <1>1, <1>2, <1>3, <2>2
       DEF Runs, Starts, Makes, Publishes, Settles, Holds, Early, Making, Made, Settling, Ends
  <2> QED BY <1>4, <1>5, <2>1, <2>3, ActsKeep DEF Sound
<1> QED BY <1>6, <1>7 DEF Begin, Ends

----------------------------------------------------------------------------
(* The worker: the workspace                                               *)

(* From the reservation to the flush nothing is decided.                   *)
LEMMA InCustody ==
  ASSUME NEW j \in Jobs, Sound(j), job[j].pc \in {"reserve"} \cup Making \cup Made
  PROVE  /\ row[j] = "running" /\ app = "open" /\ job[j].outcome = "none"
         /\ custody = j /\ story[Story[j]] # "gone"
         /\ job[j].pc # "publish" => ~job[j].uncertain
PROOF
<1>1. Runs(j) /\ Holds(j)
  BY DEF Sound
<1> QED BY <1>1 DEF Runs, Holds, Early, Making, Made

LEMMA GoesFurther ==
  ASSUME NEW j \in Jobs, Space(j)', Makes(j)', Publishes(j)',
         UNCHANGED <<app, story, row, custody>>,
         row[j] = "running", app = "open", custody = j, story[Story[j]] # "gone",
         job'[j].pc \in Making \cup Made, job'[j].outcome = "none",
         job'[j].uncertain => job'[j].pc = "publish"
  PROVE  Sound(j)'
PROOF
<1>1. Told(j)' /\ Starts(j)'
  BY DEF Told, Starts, Early, Making, Made, Ends
<1>2. Runs(j)' /\ Settles(j)' /\ Holds(j)'
  BY DEF Runs, Settles, Holds, Early, Making, Made, Settling
<1> QED BY <1>1, <1>2 DEF Sound

LEMMA ReserveKeeps ==
  ASSUME ExportInv, NEW j \in Jobs, Reserve(j)
  PROVE  ExportInv'
PROOF
<1>1. /\ job[j].pc = "reserve"
      /\ UNCHANGED <<story, window, row, cancelled, place, mayBe, holder, custody, app>>
  BY DEF Reserve
<1>2. /\ Sound(j) /\ job \in [Jobs -> Workers] /\ job[j] \in Workers /\ count \in Counts
      /\ reg \in [Jobs -> SUBSET Entries] /\ fenced \in BOOLEAN
  BY Typed
<1>3. /\ place[j] = "none" /\ mayBe[j] = {"none"} /\ ~job[j].owned /\ ~job[j].uncertain
      /\ row[j] = "running" /\ app = "open" /\ custody = j /\ story[Story[j]] # "gone"
      /\ job[j].outcome = "none" /\ holder[Name[j]] # j
  BY <1>1, <1>2, BeforeAnything DEF Early, Sound, Space, Out
<1>4. Space(j)'
  BY <1>1, <1>3 DEF Space, Out, Bare
<1>5. CASE /\ Records(j, {"reserved"})
           /\ Moves(j, [job[j] EXCEPT !.pc = "mkdir", !.mem = "reserved"])
           /\ UNCHANGED <<fenced, count>>
  <2> DEFINE w == [job[j] EXCEPT !.pc = "mkdir", !.mem = "reserved"]
  <2>1. /\ w \in Workers /\ w.pc = "mkdir" /\ w.mem = "reserved" /\ w.outcome = job[j].outcome
        /\ w.owned <=> job[j].owned
        /\ w.uncertain <=> job[j].uncertain
    BY <1>2 DEF Workers, Points, Entries
  <2>2. /\ job' \in [Jobs -> Workers] /\ job'[j] = w
        /\ \A k \in Jobs \ {j} : job'[k] = job[k]
    BY <1>2, <1>5, <2>1, Moved
  <2> HIDE DEF w
  <2>3. Acts(j)
    BY <1>1, <1>2, <1>5, <2>2 DEF Acts, Records, Entries
  <2>4. reg'[j] = {"reserved"}
    BY <1>2, <1>5 DEF Records
  <2>5. Makes(j)' /\ Publishes(j)'
    BY <1>1, <1>3, <2>1, <2>2, <2>4 DEF Makes, Publishes, Making, Made
  <2>6. Sound(j)'
    BY <1>1, <1>3, <1>4, <2>1, <2>2, <2>5, GoesFurther DEF Making
  <2> QED BY <2>3, <2>6, ActsKeep
<1>6. CASE /\ Faulty
           /\ \E entries \in {{"none"}, {"none", "reserved"}} : Records(j, entries)
           /\ Moves(j, [job[j] EXCEPT !.pc = "retire", !.outcome = "failed", !.mem = "reserved"])
           /\ fenced' = TRUE
  <2> DEFINE w == [job[j] EXCEPT !.pc = "retire", !.outcome = "failed", !.mem = "reserved"]
  <2>1. /\ w \in Workers /\ w.pc = "retire" /\ w.mem = "reserved" /\ w.outcome = "failed"
        /\ w.uncertain <=> job[j].uncertain
    BY <1>2 DEF Workers, Points, Entries, Ends
  <2>2. /\ job' \in [Jobs -> Workers] /\ job'[j] = w
        /\ \A k \in Jobs \ {j} : job'[k] = job[k]
    BY <1>2, <1>6, <2>1, Moved
  <2> HIDE DEF w
  <2>3. Acts(j)
    BY <1>1, <1>2, <1>6, <2>2, Spent DEF Acts, Records, Entries
  <2>4. Sound(j)'
    BY <1>1, <1>3, <1>4, <2>1, <2>2, TurnsBack DEF Out, Ends
  <2> QED BY <2>3, <2>4, ActsKeep
<1> QED BY <1>5, <1>6 DEF Reserve

(* What a worker holds while it makes its workspace.                       *)
LEMMA WhileMaking ==
  ASSUME NEW j \in Jobs, Sound(j), job[j].pc \in Making
  PROVE  /\ job[j].mem = "reserved" /\ reg[j] = {"reserved"}
         /\ place[j] \notin Out /\ mayBe[j] \cap Out = {} /\ holder[Name[j]] # j
         /\ place[j] \in mayBe[j]
         /\ ~job[j].uncertain
PROOF
<1>1. Makes(j) /\ Space(j) /\ Runs(j)
  BY DEF Sound
<1>2. place[j] \notin Out
  BY <1>1 DEF Makes, Making, Out
<1> QED BY <1>1, <1>2 DEF Makes, Space, Runs, Making

(* A failure while the workspace is made.                                  *)
LEMMA MakingFails ==
  ASSUME ExportInv, NEW j \in Jobs, job[j].pc \in Making,
         UNCHANGED <<story, window, row, cancelled, holder, reg, custody, app>>,
         \/ UNCHANGED <<place, mayBe>>
         \/ \E p \in {"dir", "payload"} : Places_(j, p, {"none", "dir", p}) \/ Places_(j, p, {"none", p}),
         Compensates(j, "failed"), Faulty, fenced' = TRUE
  PROVE  ExportInv'
PROOF
<1>1. /\ Sound(j) /\ job \in [Jobs -> Workers] /\ job[j] \in Workers /\ count \in Counts
      /\ place \in [Jobs -> Places] /\ mayBe \in [Jobs -> SUBSET Places]
  BY Typed
<1>2. /\ job' \in [Jobs -> Workers]
      /\ \A k \in Jobs \ {j} : job'[k] = job[k]
      /\ job'[j].pc = "retire" /\ job'[j].outcome = "failed" /\ job'[j].mem = job[j].mem
      /\ job'[j].uncertain <=> job[j].uncertain
  BY <1>1, Compensated DEF Ends
<1>3. /\ place' = place \/ \E p \in Places : place' = [place EXCEPT ![j] = p]
      /\ mayBe' = mayBe \/ \E m \in SUBSET Places : mayBe' = [mayBe EXCEPT ![j] = m]
  BY DEF Places_, Places
<1>4. Acts(j)
  BY <1>1, <1>2, <1>3, Spent DEF Acts
<1>5. place'[j] \in mayBe'[j] /\ mayBe'[j] \cap Out = {}
  BY <1>1, WhileMaking DEF Places_, Out
<1>6. Space(j)'
  BY <1>1, <1>5, WhileMaking DEF Space
<1>7. job[j].mem = "reserved" /\ ~job[j].uncertain
  BY <1>1, WhileMaking
<1>8. /\ row[j] = "running" /\ app = "open" /\ custody = j /\ story[Story[j]] # "gone"
  BY <1>1, InCustody
<1>9. Sound(j)'
  BY <1>2, <1>5, <1>6, <1>7, <1>8, TurnsBack DEF Ends
<1> QED BY <1>4, <1>9, ActsKeep

LEMMA MakeDirectoryKeeps ==
  ASSUME ExportInv, NEW j \in Jobs, MakeDirectory(j)
  PROVE  ExportInv'
PROOF
<1>1. /\ job[j].pc = "mkdir" /\ job[j].pc \in Making
      /\ UNCHANGED <<story, window, row, cancelled, holder, reg, custody, app>>
  BY DEF MakeDirectory, Making
<1>2. /\ Sound(j) /\ job \in [Jobs -> Workers] /\ job[j] \in Workers /\ count \in Counts
      /\ place \in [Jobs -> Places] /\ mayBe \in [Jobs -> SUBSET Places] /\ fenced \in BOOLEAN
  BY Typed
<1>3. CASE /\ Places_(j, "dir", {"none", "dir"})
           /\ Moves(j, [job[j] EXCEPT !.pc = "payload", !.owned = TRUE])
           /\ UNCHANGED <<fenced, count>>
  <2> DEFINE w == [job[j] EXCEPT !.pc = "payload", !.owned = TRUE]
  <2>1. /\ w \in Workers /\ w.pc = "payload" /\ w.mem = job[j].mem /\ w.outcome = job[j].outcome
        /\ w.owned
        /\ w.uncertain <=> job[j].uncertain
    BY <1>2 DEF Workers, Points
  <2>2. /\ job' \in [Jobs -> Workers] /\ job'[j] = w
        /\ \A k \in Jobs \ {j} : job'[k] = job[k]
    BY <1>2, <1>3, <2>1, Moved
  <2> HIDE DEF w
  <2>3. /\ place' = [place EXCEPT ![j] = "dir"] /\ mayBe' = [mayBe EXCEPT ![j] = {"none", "dir"}]
        /\ place'[j] = "dir" /\ mayBe'[j] = {"none", "dir"}
    BY <1>2, <1>3 DEF Places_
  <2>4. Acts(j)
    BY <1>1, <1>2, <1>3, <2>2, <2>3 DEF Acts, Places
  <2>5. Space(j)'
    BY <1>1, <1>2, <2>3, WhileMaking DEF Space, Out
  <2>6. Makes(j)' /\ Publishes(j)'
    BY <1>1, <1>2, <2>1, <2>2, <2>3, WhileMaking DEF Makes, Publishes, Making, Made
  <2>7. Sound(j)'
    BY <1>1, <1>2, <2>1, <2>2, <2>5, <2>6, InCustody, WhileMaking, GoesFurther DEF Making
  <2> QED BY <2>4, <2>7, ActsKeep
<1>4. CASE /\ Faulty
           /\ \/ Places_(j, "dir", {"none", "dir"})
              \/ UNCHANGED <<place, mayBe>>
           /\ Compensates(j, "failed") /\ fenced' = TRUE
  BY <1>1, <1>4, MakingFails
<1> QED BY <1>3, <1>4 DEF MakeDirectory

LEMMA MakePayloadKeeps ==
  ASSUME ExportInv, NEW j \in Jobs, MakePayload(j)
  PROVE  ExportInv'
PROOF
<1>1. /\ job[j].pc = "payload" /\ job[j].pc \in Making
      /\ UNCHANGED <<story, window, row, cancelled, holder, reg, custody, app>>
  BY DEF MakePayload, Making
<1>2. /\ Sound(j) /\ job \in [Jobs -> Workers] /\ job[j] \in Workers /\ count \in Counts
      /\ place \in [Jobs -> Places] /\ mayBe \in [Jobs -> SUBSET Places] /\ fenced \in BOOLEAN
  BY Typed
<1>3. CASE /\ Places_(j, "payload", {"payload"})
           /\ Goes(j, "register")
           /\ UNCHANGED <<fenced, count>>
  <2>1. /\ job' \in [Jobs -> Workers]
        /\ \A k \in Jobs \ {j} : job'[k] = job[k]
        /\ job'[j].pc = "register" /\ job'[j].outcome = job[j].outcome /\ job'[j].mem = job[j].mem
        /\ job'[j].owned <=> job[j].owned
        /\ job'[j].uncertain <=> job[j].uncertain
    BY <1>2, <1>3, Gone DEF Points
  <2>2. /\ place' = [place EXCEPT ![j] = "payload"] /\ mayBe' = [mayBe EXCEPT ![j] = {"payload"}]
        /\ place'[j] = "payload" /\ mayBe'[j] = {"payload"}
    BY <1>2, <1>3 DEF Places_
  <2>3. Acts(j)
    BY <1>1, <1>2, <1>3, <2>1, <2>2 DEF Acts, Places
  <2>4. Space(j)'
    BY <1>1, <1>2, <2>2, WhileMaking DEF Space, Out
  <2>5. Makes(j)' /\ Publishes(j)'
    BY <1>1, <1>2, <2>1, <2>2, WhileMaking DEF Sound, Makes, Publishes, Making, Made
  <2>6. Sound(j)'
    BY <1>1, <1>2, <2>1, <2>4, <2>5, InCustody, WhileMaking, GoesFurther DEF Making
  <2> QED BY <2>3, <2>6, ActsKeep
<1>4. CASE /\ Faulty
           /\ \/ Places_(j, "payload", {"none", "dir", "payload"})
              \/ UNCHANGED <<place, mayBe>>
           /\ Compensates(j, "failed") /\ fenced' = TRUE
  BY <1>1, <1>4, MakingFails
<1> QED BY <1>3, <1>4 DEF MakePayload

LEMMA RegisterKeeps ==
  ASSUME ExportInv, NEW j \in Jobs, Register(j)
  PROVE  ExportInv'
PROOF
<1>1. /\ job[j].pc = "register" /\ job[j].pc \in Making
      /\ UNCHANGED <<story, window, row, cancelled, place, mayBe, holder, custody, app>>
  BY DEF Register, Making
<1>2. /\ Sound(j) /\ job \in [Jobs -> Workers] /\ job[j] \in Workers /\ count \in Counts
      /\ reg \in [Jobs -> SUBSET Entries] /\ fenced \in BOOLEAN
  BY Typed
<1>3. /\ place[j] = "payload" /\ mayBe[j] = {"payload"} /\ holder[Name[j]] # j
      /\ job[j].owned /\ ~job[j].uncertain
  BY <1>1, <1>2, WhileMaking DEF Sound, Makes
<1>4. CASE /\ Records(j, {"full"})
           /\ Moves(j, [job[j] EXCEPT !.pc = "check3", !.mem = "full"])
           /\ UNCHANGED <<fenced, count>>
  <2> DEFINE w == [job[j] EXCEPT !.pc = "check3", !.mem = "full"]
  <2>1. /\ w \in Workers /\ w.pc = "check3" /\ w.mem = "full" /\ w.outcome = job[j].outcome
        /\ w.owned <=> job[j].owned
        /\ w.uncertain <=> job[j].uncertain
    BY <1>2 DEF Workers, Points, Entries
  <2>2. /\ job' \in [Jobs -> Workers] /\ job'[j] = w
        /\ \A k \in Jobs \ {j} : job'[k] = job[k]
    BY <1>2, <1>4, <2>1, Moved
  <2> HIDE DEF w
  <2>3. Acts(j)
    BY <1>1, <1>2, <1>4, <2>2 DEF Acts, Records, Entries
  <2>4. reg'[j] = {"full"}
    BY <1>2, <1>4 DEF Records
  <2>5. Makes(j)' /\ Publishes(j)' /\ Space(j)'
    BY <1>1, <1>3, <2>1, <2>2, <2>4 DEF Makes, Publishes, Making, Made, Space, Out
  <2>6. Sound(j)'
    BY <1>1, <1>2, <1>3, <2>1, <2>2, <2>5, InCustody, GoesFurther DEF Made
  <2> QED BY <2>3, <2>6, ActsKeep
<1>5. CASE /\ Faulty
           /\ \E entries \in {{"reserved"}, {"reserved", "full"}} : Records(j, entries)
           /\ Moves(j, [job[j] EXCEPT !.pc = "retire", !.outcome = "failed", !.mem = "full"])
           /\ fenced' = TRUE
  <2> DEFINE w == [job[j] EXCEPT !.pc = "retire", !.outcome = "failed", !.mem = "full"]
  <2>1. /\ w \in Workers /\ w.pc = "retire" /\ w.mem = "full" /\ w.outcome = "failed"
        /\ w.uncertain <=> job[j].uncertain
    BY <1>2 DEF Workers, Points, Entries, Ends
  <2>2. /\ job' \in [Jobs -> Workers] /\ job'[j] = w
        /\ \A k \in Jobs \ {j} : job'[k] = job[k]
    BY <1>2, <1>5, <2>1, Moved
  <2> HIDE DEF w
  <2>3. Acts(j)
    BY <1>1, <1>2, <1>5, <2>2, Spent DEF Acts, Records, Entries
  <2>4. "none" \notin reg'[j]
    BY <1>2, <1>5 DEF Records
  <2>5. Space(j)'
    BY <1>1, <1>3, <2>4 DEF Space, Out
  <2>6. Sound(j)'
    BY <1>1, <1>2, <1>3, <2>1, <2>2, <2>5, InCustody, TurnsBack DEF Out, Ends
  <2> QED BY <2>3, <2>6, ActsKeep
<1> QED BY <1>4, <1>5 DEF Register

----------------------------------------------------------------------------
(* The worker: copy and publication                                        *)

(* What a worker holds while the payload is not yet renamed.               *)
LEMMA BeforeRename ==
  ASSUME NEW j \in Jobs, Sound(j), job[j].pc \in {"check3", "copy", "publish"}, ~job[j].uncertain
  PROVE  /\ place[j] = "payload" /\ mayBe[j] = {"payload"} /\ holder[Name[j]] # j
         /\ job[j].mem = "full" /\ reg[j] = {"full"} /\ job[j].owned
PROOF
<1>1. Publishes(j) /\ Space(j)
  BY DEF Sound
<1> QED BY <1>1 DEF Publishes, Space, Made, Out

(* An item whose payload is not renamed gives up.                          *)
LEMMA RenameForgone ==
  ASSUME ExportInv, NEW j \in Jobs, job[j].pc \in {"check3", "copy", "publish"}, ~job[j].uncertain,
         NEW o \in Ends \ {"succeeded"}, Compensates(j, o),
         UNCHANGED <<story, window, row, cancelled, place, mayBe, holder, reg, custody, fenced, app>>,
         count' \in Counts
  PROVE  ExportInv'
PROOF
<1>1. Sound(j) /\ job \in [Jobs -> Workers] /\ fenced \in BOOLEAN
  BY Typed
<1>2. /\ job' \in [Jobs -> Workers]
      /\ \A k \in Jobs \ {j} : job'[k] = job[k]
      /\ job'[j].pc = "retire" /\ job'[j].outcome = o /\ job'[j].mem = job[j].mem
      /\ job'[j].uncertain <=> job[j].uncertain
  BY <1>1, Compensated
<1>3. Acts(j)
  BY <1>1, <1>2 DEF Acts
<1>4. Space(j)'
  BY <1>1, SpaceStays DEF Stays
<1>5. /\ row[j] = "running" /\ app = "open" /\ custody = j /\ story[Story[j]] # "gone"
  BY <1>1, InCustody DEF Made
<1>6. Sound(j)'
  BY <1>1, <1>2, <1>4, <1>5, BeforeRename, TurnsBack DEF Out
<1> QED BY <1>3, <1>6, ActsKeep

(* It goes on to the next point.                                           *)
LEMMA RenameNears ==
  ASSUME ExportInv, NEW j \in Jobs, job[j].pc \in {"check3", "copy"}, ~job[j].uncertain,
         NEW p \in {"copy", "publish"}, Goes(j, p),
         UNCHANGED <<story, window, row, cancelled, place, mayBe, holder, reg, custody, fenced, app, count>>
  PROVE  ExportInv'
PROOF
<1>1. Sound(j) /\ job \in [Jobs -> Workers] /\ fenced \in BOOLEAN /\ count \in Counts
  BY Typed
<1>2. /\ job' \in [Jobs -> Workers]
      /\ \A k \in Jobs \ {j} : job'[k] = job[k]
      /\ job'[j].pc = p /\ job'[j].outcome = job[j].outcome /\ job'[j].mem = job[j].mem
      /\ job'[j].owned <=> job[j].owned
      /\ job'[j].uncertain <=> job[j].uncertain
  BY <1>1, Gone DEF Points
<1>3. Acts(j)
  BY <1>1, <1>2 DEF Acts
<1>4. Space(j)'
  BY <1>1, SpaceStays DEF Stays
<1>5. Makes(j)' /\ Publishes(j)'
  BY <1>1, <1>2, BeforeRename DEF Makes, Publishes, Making, Made
<1>6. /\ row[j] = "running" /\ app = "open" /\ custody = j /\ story[Story[j]] # "gone"
      /\ job[j].outcome = "none"
  BY <1>1, InCustody DEF Made
<1>7. Sound(j)'
  BY <1>2, <1>4, <1>5, <1>6, GoesFurther DEF Made
<1> QED BY <1>3, <1>7, ActsKeep

LEMMA ThirdCheckKeeps ==
  ASSUME ExportInv, NEW j \in Jobs, ThirdCheck(j)
  PROVE  ExportInv'
PROOF
<1>1. /\ job[j].pc = "check3"
      /\ UNCHANGED <<story, window, row, cancelled, place, mayBe, holder, reg, custody, fenced, app, count>>
  BY DEF ThirdCheck, disk
<1>2. ~job[j].uncertain /\ count' \in Counts
  BY <1>1, Typed, InCustody DEF Made
<1>3. CASE Goes(j, "copy")
  BY <1>1, <1>2, <1>3, RenameNears
<1>4. CASE Verdict(j) # "none" /\ Compensates(j, Verdict(j))
  BY <1>1, <1>2, <1>4, VerdictEnds, RenameForgone
<1> QED BY <1>3, <1>4 DEF ThirdCheck

LEMMA CopyKeeps ==
  ASSUME ExportInv, NEW j \in Jobs, Copy(j)
  PROVE  ExportInv'
PROOF
<1>1. /\ job[j].pc = "copy"
      /\ UNCHANGED <<story, window, row, cancelled, place, mayBe, holder, reg, custody, fenced, app>>
  BY DEF Copy, disk
<1>2. ~job[j].uncertain /\ count \in Counts
  BY <1>1, Typed, InCustody DEF Made
<1>3. CASE Goes(j, "publish") /\ UNCHANGED count
  BY <1>1, <1>2, <1>3, RenameNears
<1>4. CASE Compensates(j, "cancelled") /\ UNCHANGED count
  BY <1>1, <1>2, <1>4, RenameForgone DEF Ends
<1>5. CASE (IF fenced THEN UNCHANGED count ELSE Faulty) /\ Compensates(j, "failed")
  <2>1. count' \in Counts
    BY <1>2, <1>5, Spent
  <2> QED BY <1>1, <1>2, <1>5, <2>1, RenameForgone DEF Ends
<1> QED BY <1>3, <1>4, <1>5 DEF Copy

LEMMA PublishRefusedKeeps ==
  ASSUME ExportInv, NEW j \in Jobs, PublishRefused(j)
  PROVE  ExportInv'
PROOF
<1>1. /\ job[j].pc = "publish" /\ ~job[j].uncertain /\ Compensates(j, "failed")
      /\ UNCHANGED <<story, window, row, cancelled, place, mayBe, holder, reg, custody, fenced, app, count>>
  BY DEF PublishRefused, Pending, disk
<1>2. count \in Counts
  BY Typed
<1> QED BY <1>1, <1>2, RenameForgone DEF Ends

(* What a worker holds from the rename to the flush.                       *)
LEMMA AtPublication ==
  ASSUME NEW j \in Jobs, Sound(j), job[j].pc \in {"publish", "flush"}
  PROVE  /\ job[j].mem = "full" /\ reg[j] = {"full"} /\ job[j].owned
         /\ \/ place[j] = "payload" /\ mayBe[j] = {"payload"} /\ job[j].pc = "publish"
            \/ /\ place[j] = "published" /\ mayBe[j] \subseteq {"payload", "published"}
               /\ holder[Name[j]] = j
         /\ job[j].uncertain => job[j].pc = "publish"
PROOF
<1>1. Publishes(j) /\ Space(j) /\ Runs(j)
  BY DEF Sound
<1> QED BY <1>1 DEF Publishes, Space, Runs, Made, Out

LEMMA ReconcileKeeps ==
  ASSUME ExportInv, NEW j \in Jobs, Reconcile(j)
  PROVE  ExportInv'
PROOF
<1> DEFINE p == IF place[j] = "published" THEN "flush" ELSE "publish"
           w == [job[j] EXCEPT !.uncertain = FALSE, !.pc = p]
<1>1. /\ job[j].pc = "publish" /\ Moves(j, w)
      /\ UNCHANGED <<story, window, row, cancelled, place, mayBe, holder, reg, custody, fenced, app, count>>
  BY DEF Reconcile, disk
<1>2. /\ Sound(j) /\ job \in [Jobs -> Workers] /\ job[j] \in Workers
      /\ fenced \in BOOLEAN /\ count \in Counts
  BY Typed
<1>3. p \in {"publish", "flush"} /\ (p = "flush" <=> place[j] = "published")
  OBVIOUS
<1> HIDE DEF p
<1>4. /\ w \in Workers /\ w.pc = p /\ w.mem = job[j].mem /\ w.outcome = job[j].outcome
      /\ w.owned <=> job[j].owned
      /\ ~w.uncertain
  BY <1>2, <1>3 DEF Workers, Points
<1>5. /\ job' \in [Jobs -> Workers] /\ job'[j] = w
      /\ \A k \in Jobs \ {j} : job'[k] = job[k]
  BY <1>1, <1>2, <1>4, Moved
<1> HIDE DEF w
<1>6. Acts(j)
  BY <1>1, <1>2, <1>5 DEF Acts
<1>7. Space(j)'
  BY <1>1, <1>2, SpaceStays DEF Stays
<1>8. Makes(j)' /\ Publishes(j)'
  BY <1>1, <1>2, <1>3, <1>4, <1>5, AtPublication DEF Makes, Publishes, Making, Made
<1>9. Sound(j)'
  BY <1>1, <1>2, <1>3, <1>4, <1>5, <1>7, <1>8, InCustody, GoesFurther DEF Made
<1> QED BY <1>6, <1>9, ActsKeep

LEMMA PublishKeeps ==
  ASSUME ExportInv, NEW j \in Jobs, Publish(j)
  PROVE  ExportInv'
PROOF
<1>1. /\ job[j].pc = "publish" /\ ~job[j].uncertain
      /\ UNCHANGED <<story, window, row, cancelled, reg, custody, fenced, app>>
  BY DEF Publish
<1>2. /\ Sound(j) /\ job \in [Jobs -> Workers] /\ job[j] \in Workers
      /\ place \in [Jobs -> Places] /\ mayBe \in [Jobs -> SUBSET Places]
      /\ holder \in [Names -> Jobs \cup {Nobody, Foreign}] /\ Name[j] \in Names
      /\ fenced \in BOOLEAN /\ count \in Counts
  BY Typed
<1>3. /\ place[j] = "payload" /\ mayBe[j] = {"payload"} /\ holder[Name[j]] # j
      /\ job[j].mem = "full" /\ reg[j] = {"full"} /\ job[j].owned
  BY <1>1, <1>2, BeforeRename
<1>4. /\ row[j] = "running" /\ app = "open" /\ custody = j /\ story[Story[j]] # "gone"
      /\ job[j].outcome = "none"
  BY <1>1, <1>2, InCustody DEF Made
<1>5. CASE Compensates(j, "conflicted") /\ UNCHANGED <<place, mayBe, holder, count>>
  BY <1>1, <1>2, <1>5, RenameForgone DEF Ends
<1>6. ASSUME ~ Clash(j), Lands(j), Goes(j, "flush"), UNCHANGED count
      PROVE  ExportInv'
  <2>1. /\ job' \in [Jobs -> Workers]
        /\ \A k \in Jobs \ {j} : job'[k] = job[k]
        /\ job'[j].pc = "flush" /\ job'[j].outcome = job[j].outcome /\ job'[j].mem = job[j].mem
        /\ job'[j].owned <=> job[j].owned
        /\ job'[j].uncertain <=> job[j].uncertain
    BY <1>2, <1>6, Gone DEF Points
  <2>2. /\ place' = [place EXCEPT ![j] = "published"] /\ place'[j] = "published"
        /\ mayBe' = [mayBe EXCEPT ![j] = {"payload", "published"}]
        /\ mayBe'[j] = {"payload", "published"}
        /\ holder[Name[j]] = Nobody
        /\ holder' = [holder EXCEPT ![Name[j]] = j] /\ holder'[Name[j]] = j
    BY <1>2, <1>6 DEF Lands, Places_, Clash
  <2>3. Acts(j)
    BY <1>1, <1>2, <1>6, <2>1, <2>2 DEF Acts, Places
  <2>4. Space(j)' /\ Makes(j)' /\ Publishes(j)'
    BY <1>1, <1>3, <2>1, <2>2 DEF Space, Makes, Publishes, Making, Made, Out
  <2>5. Sound(j)'
    BY <1>1, <1>4, <2>1, <2>4, GoesFurther DEF Made
  <2> QED BY <2>3, <2>5, ActsKeep
<1>7. ASSUME ~ Clash(j), Faulty, Lands(j) \/ UNCHANGED <<place, mayBe, holder>>,
             Moves(j, [job[j] EXCEPT !.uncertain = TRUE])
      PROVE  ExportInv'
  <2> DEFINE w == [job[j] EXCEPT !.uncertain = TRUE]
  <2>1. /\ w \in Workers /\ w.pc = "publish" /\ w.mem = job[j].mem /\ w.outcome = job[j].outcome
        /\ w.owned <=> job[j].owned
        /\ w.uncertain
    BY <1>1, <1>2 DEF Workers
  <2>2. /\ job' \in [Jobs -> Workers] /\ job'[j] = w
        /\ \A k \in Jobs \ {j} : job'[k] = job[k]
    BY <1>2, <1>7, <2>1, Moved
  <2> HIDE DEF w
  <2>3. count' \in Counts
    BY <1>2, <1>7, Spent
  <2>4. CASE Lands(j)
    <3>1. /\ place' = [place EXCEPT ![j] = "published"] /\ place'[j] = "published"
          /\ mayBe' = [mayBe EXCEPT ![j] = {"payload", "published"}]
          /\ mayBe'[j] = {"payload", "published"}
          /\ holder[Name[j]] = Nobody
          /\ holder' = [holder EXCEPT ![Name[j]] = j] /\ holder'[Name[j]] = j
      BY <1>2, <1>7, <2>4 DEF Lands, Places_, Clash
    <3>2. Acts(j)
      BY <1>1, <1>2, <2>2, <2>3, <3>1 DEF Acts, Places
    <3>3. Space(j)' /\ Makes(j)' /\ Publishes(j)'
      BY <1>1, <1>3, <2>1, <2>2, <3>1 DEF Space, Makes, Publishes, Making, Made, Out
    <3>4. Sound(j)'
      BY <1>1, <1>4, <2>1, <2>2, <3>3, GoesFurther DEF Made
    <3> QED BY <3>2, <3>4, ActsKeep
  <2>5. CASE UNCHANGED <<place, mayBe, holder>>
    <3>1. Acts(j)
      BY <1>1, <1>2, <2>2, <2>3, <2>5 DEF Acts
    <3>2. Space(j)' /\ Makes(j)' /\ Publishes(j)'
      BY <1>1, <1>3, <2>1, <2>2, <2>5 DEF Space, Makes, Publishes, Making, Made, Out
    <3>3. Sound(j)'
      BY <1>1, <1>4, <2>1, <2>2, <3>2, GoesFurther DEF Made
    <3> QED BY <3>1, <3>3, ActsKeep
  <2> QED BY <1>7, <2>4, <2>5
<1> QED BY <1>5, <1>6, <1>7 DEF Publish

LEMMA FlushKeeps ==
  ASSUME ExportInv, NEW j \in Jobs, Flush(j)
  PROVE  ExportInv'
PROOF
<1>1. /\ job[j].pc = "flush"
      /\ UNCHANGED <<story, window, row, cancelled, place, holder, reg, custody, fenced, app>>
  BY DEF Flush
<1>2. /\ Sound(j) /\ job \in [Jobs -> Workers] /\ job[j] \in Workers
      /\ mayBe \in [Jobs -> SUBSET Places] /\ fenced \in BOOLEAN /\ count \in Counts
  BY Typed
<1>3. /\ place[j] = "published" /\ holder[Name[j]] = j
      /\ job[j].mem = "full" /\ reg[j] = {"full"} /\ job[j].owned /\ ~job[j].uncertain
  BY <1>1, <1>2, AtPublication
<1>4. /\ row[j] = "running" /\ app = "open" /\ custody = j /\ story[Story[j]] # "gone"
      /\ job[j].outcome = "none"
  BY <1>1, <1>2, InCustody DEF Made
<1>5. CASE mayBe' = [mayBe EXCEPT ![j] = {"published"}] /\ Reports(j, "succeeded") /\ UNCHANGED count
  <2>1. /\ job' \in [Jobs -> Workers]
        /\ \A k \in Jobs \ {j} : job'[k] = job[k]
        /\ job'[j].pc = "report" /\ job'[j].outcome = "succeeded" /\ job'[j].mem = job[j].mem
        /\ job'[j].owned <=> job[j].owned
        /\ job'[j].uncertain <=> job[j].uncertain
    BY <1>2, <1>5, Reported DEF Ends
  <2>2. mayBe'[j] = {"published"}
    BY <1>2, <1>5
  <2>3. Acts(j)
    BY <1>1, <1>2, <1>5, <2>1 DEF Acts, Places
  <2>4. Space(j)' /\ Told(j)' /\ Starts(j)' /\ Makes(j)' /\ Publishes(j)'
    BY <1>1, <1>3, <1>4, <2>1, <2>2
       DEF Space, Told, Starts, Makes, Publishes, Early, Making, Made, Out, Ends
  <2>5. Runs(j)' /\ Settles(j)' /\ Holds(j)'
    BY <1>1, <1>3, <1>4, <2>1, <2>2 DEF Runs, Settles, Holds, Early, Making, Made, Settling
  <2> QED BY <2>3, <2>4, <2>5, ActsKeep DEF Sound
<1>6. CASE Faulty /\ UNCHANGED <<mayBe, job>>
  <2>1. Acts(j)
    BY <1>1, <1>2, <1>6, Spent DEF Acts
  <2>2. Sound(j)'
    BY <1>1, <1>2, <1>6 DEF Sound, Space, Told, Runs, Starts, Makes, Publishes, Settles, Holds, Untouched
  <2> QED BY <2>1, <2>2, ActsKeep
<1> QED BY <1>5, <1>6 DEF Flush

----------------------------------------------------------------------------
(* Report, compensation and settlement                                     *)

(* What a worker holds while it retires its workspace.                     *)
LEMMA WhileSettling ==
  ASSUME NEW j \in Jobs, Sound(j), job[j].pc \in Settling
  PROVE  /\ app = "open" /\ custody = j /\ story[Story[j]] # "gone"
         /\ job[j].outcome # "none" /\ ~job[j].uncertain
         /\ job[j].outcome = "succeeded" =>
               row[j] = "succeeded" /\ job[j].mem = "full" /\ job[j].owned /\ mayBe[j] \subseteq Out
         /\ job[j].outcome # "succeeded" => row[j] = "running" /\ place[j] \notin Out
         /\ job[j].mem = "none" => job[j].pc = "retire" /\ mayBe[j] = {"none"}
PROOF
<1>1. Runs(j) /\ Settles(j) /\ Holds(j) /\ Told(j)
  BY DEF Sound
<1>2. job[j].pc \notin {"idle", "publish"}
  BY DEF Settling
<1>3. app = "open" /\ ~job[j].uncertain
  BY <1>1, <1>2 DEF Runs
<1>4. custody = j /\ story[Story[j]] # "gone"
  BY <1>1 DEF Holds
<1> QED BY <1>1, <1>3, <1>4 DEF Settles, Told

(* The retirement goes on.                                                 *)
LEMMA GoesOnSettling ==
  ASSUME NEW j \in Jobs, Sound(j), job[j].pc \in Settling, Space(j)',
         UNCHANGED <<app, story, row, custody>>,
         job'[j].pc \in Settling, job'[j].outcome = job[j].outcome, ~job'[j].uncertain,
         job'[j].mem # "none",
         job[j].mem = "full" => job'[j].mem = "full",
         job[j].owned => job'[j].owned,
         mayBe[j] \subseteq Out => mayBe'[j] \subseteq Out,
         place[j] \notin Out => place'[j] \notin Out,
         job'[j].pc \in {"sync", "forget"} => place'[j] \in Bare,
         job'[j].pc = "forget" => mayBe'[j] = {place'[j]}
  PROVE  Sound(j)'
PROOF
<1>1. Told(j)'
  <2>1. row[j] = "succeeded" \/ (row[j] = "running" /\ job[j].outcome # "succeeded")
    BY WhileSettling
  <2>2. CASE row[j] = "succeeded"
    BY <2>2 DEF Sound, Told, Ends
  <2>3. CASE row[j] = "running"
    BY <2>3 DEF Told, Ends
  <2> QED BY <2>1, <2>2, <2>3
<1>2. Starts(j)' /\ Makes(j)' /\ Publishes(j)'
  BY DEF Starts, Makes, Publishes, Early, Making, Made, Settling
<1>3. Runs(j)' /\ Holds(j)'
  BY WhileSettling DEF Runs, Holds, Early, Making, Made, Settling
<1>4. Settles(j)'
  BY WhileSettling DEF Settles, Settling
<1> QED BY <1>1, <1>2, <1>3, <1>4 DEF Sound

(* The worker ends with the item settled.                                  *)
LEMMA Finished ==
  ASSUME NEW j \in Jobs, Space(j)', job'[j] = Idle, row'[j] \in Ends,
         mayBe'[j] \subseteq Bare,
         row'[j] = "succeeded" => mayBe'[j] \subseteq Out,
         row'[j] # "succeeded" => place'[j] \notin Out
  PROVE  Sound(j)'
PROOF
<1>1. /\ job'[j].pc = "idle" /\ job'[j].outcome = "none" /\ job'[j].mem = "none"
      /\ ~job'[j].owned /\ ~job'[j].uncertain
  BY DEF Idle
<1>2. Told(j)' /\ Starts(j)' /\ Makes(j)' /\ Publishes(j)'
  BY <1>1 DEF Told, Starts, Makes, Publishes, Early, Making, Made, Ends
<1>3. Runs(j)' /\ Settles(j)' /\ Holds(j)'
  BY <1>1 DEF Runs, Settles, Holds, Early, Making, Made, Settling, Ends
<1> QED BY <1>2, <1>3 DEF Sound

LEMMA ReportKeeps ==
  ASSUME ExportInv, NEW j \in Jobs, Report(j)
  PROVE  ExportInv'
PROOF
<1>1. /\ job[j].pc = "report" /\ row' = [row EXCEPT ![j] = job[j].outcome]
      /\ UNCHANGED <<story, window, cancelled, place, mayBe, holder, reg, fenced, app, count>>
  BY DEF Report, disk
<1>2. /\ Sound(j) /\ job \in [Jobs -> Workers] /\ job[j] \in Workers
      /\ row \in [Jobs -> Ends \cup {"absent", "queued", "running", "interrupted"}]
      /\ fenced \in BOOLEAN /\ count \in Counts /\ custody \in Jobs \cup {Nobody}
  BY Typed
<1>3. /\ row[j] = "running" /\ job[j].outcome # "none"
      /\ job[j].outcome = "succeeded" =>
            /\ job[j].mem = "full" /\ job[j].owned
            /\ place[j] = "published" /\ mayBe[j] = {"published"}
      /\ job[j].outcome # "succeeded" => place[j] = "none" /\ mayBe[j] = {"none"}
  BY <1>1, <1>2 DEF Sound, Settles
<1>4. job[j].outcome \in Ends /\ row'[j] = job[j].outcome
  BY <1>1, <1>2, <1>3 DEF Workers
<1>5. Space(j)'
  BY <1>1, <1>2 DEF Sound, Space
<1>6. CASE job[j].outcome = "succeeded" /\ Goes(j, "retire") /\ UNCHANGED custody
  <2>1. /\ job' \in [Jobs -> Workers]
        /\ \A k \in Jobs \ {j} : job'[k] = job[k]
        /\ job'[j].pc = "retire" /\ job'[j].outcome = job[j].outcome /\ job'[j].mem = job[j].mem
        /\ job'[j].owned <=> job[j].owned
        /\ job'[j].uncertain <=> job[j].uncertain
    BY <1>2, <1>6, Gone DEF Points
  <2>2. Acts(j)
    BY <1>1, <1>2, <1>3, <1>4, <1>6, <2>1 DEF Acts
  <2>3. app = "open" /\ ~job[j].uncertain /\ custody = j /\ story[Story[j]] # "gone"
    BY <1>1, <1>2, <1>6 DEF Sound, Runs, Holds
  <2>4. Told(j)' /\ Starts(j)' /\ Makes(j)' /\ Publishes(j)'
    BY <1>1, <1>3, <1>4, <1>6, <2>1 DEF Told, Starts, Makes, Publishes, Early, Making, Made, Out
  <2>5. Runs(j)' /\ Settles(j)' /\ Holds(j)'
    BY <1>1, <1>3, <1>4, <1>6, <2>1, <2>3 DEF Runs, Settles, Holds, Early, Making, Made, Settling
  <2> QED BY <1>5, <2>2, <2>4, <2>5, ActsKeep DEF Sound
<1>7. CASE job[j].outcome # "succeeded" /\ Done(j)
  <2>1. Idle \in Workers
    BY DEF Idle, Workers, Points, Entries
  <2>2. /\ job' \in [Jobs -> Workers] /\ job'[j] = Idle
        /\ \A k \in Jobs \ {j} : job'[k] = job[k]
    BY <1>2, <1>7, <2>1, Moved DEF Done
  <2>3. Acts(j)
    BY <1>1, <1>2, <1>3, <1>4, <1>7, <2>2 DEF Acts, Done
  <2>4. Sound(j)'
    BY <1>1, <1>3, <1>4, <1>5, <1>7, <2>2, Finished DEF Bare, Out
  <2> QED BY <2>3, <2>4, ActsKeep
<1> QED BY <1>6, <1>7 DEF Report

(* The end of a retirement: the item is reported, or it was.               *)
LEMMA RetiredKeeps ==
  ASSUME ExportInv, NEW j \in Jobs, job[j].pc \in Settling, Retired(j),
         mayBe[j] = {place[j]}, place[j] \in Bare,
         reg' = reg \/ \E r \in SUBSET Entries : reg' = [reg EXCEPT ![j] = r],
         UNCHANGED <<story, window, row, cancelled, place, mayBe, holder, fenced, app, count>>
  PROVE  ExportInv'
PROOF
<1>1. /\ Sound(j) /\ job \in [Jobs -> Workers] /\ job[j] \in Workers
      /\ fenced \in BOOLEAN /\ count \in Counts
  BY Typed
<1>2. Space(j)'
  BY <1>1 DEF Sound, Space
<1>3. CASE row[j] = "running" /\ Goes(j, "report") /\ UNCHANGED custody
  <2>1. /\ job' \in [Jobs -> Workers]
        /\ \A k \in Jobs \ {j} : job'[k] = job[k]
        /\ job'[j].pc = "report" /\ job'[j].outcome = job[j].outcome
        /\ job'[j].uncertain <=> job[j].uncertain
    BY <1>1, <1>3, Gone DEF Points
  <2>2. Acts(j)
    BY <1>1, <1>3, <2>1 DEF Acts
  <2>3. /\ app = "open" /\ ~job[j].uncertain /\ job[j].outcome \notin {"none", "succeeded"}
        /\ place[j] = "none"
    BY <1>1, <1>3, WhileSettling DEF Bare, Out
  <2>4. Told(j)' /\ Starts(j)' /\ Makes(j)' /\ Publishes(j)'
    BY <1>3, <2>1 DEF Told, Starts, Makes, Publishes, Early, Making, Made, Ends
  <2>5. Runs(j)' /\ Settles(j)' /\ Holds(j)'
    BY <1>3, <2>1, <2>3 DEF Runs, Settles, Holds, Early, Making, Made, Settling
  <2> QED BY <1>2, <2>2, <2>4, <2>5, ActsKeep DEF Sound
<1>4. CASE row[j] # "running" /\ Done(j)
  <2>1. Idle \in Workers
    BY DEF Idle, Workers, Points, Entries
  <2>2. /\ job' \in [Jobs -> Workers] /\ job'[j] = Idle
        /\ \A k \in Jobs \ {j} : job'[k] = job[k]
    BY <1>1, <1>4, <2>1, Moved DEF Done
  <2>3. Acts(j)
    BY <1>1, <1>4, <2>2 DEF Acts, Done
  <2>4. row[j] = "succeeded" /\ mayBe[j] \subseteq Out
    BY <1>1, <1>4, WhileSettling
  <2>5. Sound(j)'
    BY <1>2, <2>2, <2>4, Finished DEF Ends
  <2> QED BY <2>3, <2>5, ActsKeep
<1> QED BY <1>3, <1>4 DEF Retired

LEMMA RetireKeeps ==
  ASSUME ExportInv, NEW j \in Jobs, Retire(j)
  PROVE  ExportInv'
PROOF
<1>1. /\ job[j].pc = "retire" /\ job[j].pc \in Settling
      /\ UNCHANGED <<story, window, row, cancelled, place, mayBe, holder, fenced, app, count>>
  BY DEF Retire, Settling
<1>2. /\ Sound(j) /\ job \in [Jobs -> Workers] /\ job[j] \in Workers
      /\ reg \in [Jobs -> SUBSET Entries] /\ fenced \in BOOLEAN /\ count \in Counts
  BY Typed
<1>3. CASE job[j].mem = "none" /\ Retired(j) /\ UNCHANGED reg
  <2>1. mayBe[j] = {place[j]} /\ place[j] \in Bare
    BY <1>1, <1>2, <1>3, WhileSettling DEF Sound, Space, Bare
  <2> QED BY <1>1, <1>3, <2>1, RetiredKeeps
<1>4. CASE /\ job[j].mem # "none"
           /\ \E entry \in reg[j] : Records(j, {entry})
           /\ Goes(j, IF job[j].mem = "reserved" /\ job[j].owned THEN "upgrade" ELSE "remove")
           /\ UNCHANGED custody
  <2>1. PICK p \in {"upgrade", "remove"} : Goes(j, p)
    BY <1>4
  <2>2. PICK entry \in reg[j] : reg' = [reg EXCEPT ![j] = {entry}]
    BY <1>4 DEF Records
  <2>3. /\ job' \in [Jobs -> Workers]
        /\ \A k \in Jobs \ {j} : job'[k] = job[k]
        /\ job'[j].pc = p /\ job'[j].outcome = job[j].outcome /\ job'[j].mem = job[j].mem
        /\ job'[j].owned <=> job[j].owned
        /\ job'[j].uncertain <=> job[j].uncertain
    BY <1>2, <2>1, Gone DEF Points
  <2>4. {entry} \in SUBSET Entries /\ reg'[j] = {entry}
    BY <1>2, <2>2
  <2>5. Acts(j)
    BY <1>1, <1>2, <1>4, <2>2, <2>3, <2>4 DEF Acts
  <2>6. Space(j)'
    BY <1>1, <1>2, <2>2, <2>4 DEF Sound, Space
  <2>7. Sound(j)'
    BY <1>1, <1>2, <1>4, <2>3, <2>6, WhileSettling, GoesOnSettling DEF Settling
  <2> QED BY <2>5, <2>7, ActsKeep
<1> QED BY <1>3, <1>4 DEF Retire

LEMMA UpgradeKeeps ==
  ASSUME ExportInv, NEW j \in Jobs, Upgrade(j)
  PROVE  ExportInv'
PROOF
<1>1. /\ job[j].pc = "upgrade" /\ job[j].pc \in Settling
      /\ UNCHANGED <<story, window, row, cancelled, place, mayBe, holder, custody, app>>
  BY DEF Upgrade, Settling
<1>2. /\ Sound(j) /\ job \in [Jobs -> Workers] /\ job[j] \in Workers
      /\ reg \in [Jobs -> SUBSET Entries] /\ fenced \in BOOLEAN /\ count \in Counts
  BY Typed
<1>3. job[j].mem # "none" /\ ~job[j].uncertain
  BY <1>1, <1>2, WhileSettling
<1>4. CASE /\ Records(j, {"full"})
           /\ Moves(j, [job[j] EXCEPT !.pc = "remove", !.mem = "full"])
           /\ UNCHANGED <<fenced, count>>
  <2> DEFINE w == [job[j] EXCEPT !.pc = "remove", !.mem = "full"]
  <2>1. /\ w \in Workers /\ w.pc = "remove" /\ w.mem = "full" /\ w.outcome = job[j].outcome
        /\ w.owned <=> job[j].owned
        /\ w.uncertain <=> job[j].uncertain
    BY <1>2 DEF Workers, Points, Entries
  <2>2. /\ job' \in [Jobs -> Workers] /\ job'[j] = w
        /\ \A k \in Jobs \ {j} : job'[k] = job[k]
    BY <1>2, <1>4, <2>1, Moved
  <2> HIDE DEF w
  <2>3. Acts(j)
    BY <1>1, <1>2, <1>4, <2>2 DEF Acts, Records, Entries
  <2>4. Space(j)'
    BY <1>1, <1>2, <1>4 DEF Records, Sound, Space
  <2>5. Sound(j)'
    BY <1>1, <1>2, <1>3, <2>1, <2>2, <2>4, GoesOnSettling DEF Settling
  <2> QED BY <2>3, <2>5, ActsKeep
<1>5. CASE /\ Faulty
           /\ Records(j, reg[j] \cup {"full"})
           /\ Goes(j, "retire")
           /\ fenced' = TRUE
  <2>1. /\ job' \in [Jobs -> Workers]
        /\ \A k \in Jobs \ {j} : job'[k] = job[k]
        /\ job'[j].pc = "retire" /\ job'[j].outcome = job[j].outcome /\ job'[j].mem = job[j].mem
        /\ job'[j].owned <=> job[j].owned
        /\ job'[j].uncertain <=> job[j].uncertain
    BY <1>2, <1>5, Gone DEF Points
  <2>2. reg[j] \cup {"full"} \in SUBSET Entries
    BY <1>2 DEF Entries
  <2>3. Acts(j)
    BY <1>1, <1>2, <1>5, <2>1, <2>2, Spent DEF Acts, Records
  <2>4. Space(j)'
    BY <1>1, <1>2, <1>5 DEF Records, Sound, Space
  <2>5. Sound(j)'
    BY <1>1, <1>2, <1>3, <2>1, <2>4, GoesOnSettling DEF Settling
  <2> QED BY <2>3, <2>5, ActsKeep
<1> QED BY <1>4, <1>5 DEF Upgrade

(* The workspace goes, and a published file stays.                         *)
LEMMA WithoutKeeps ==
  ASSUME NEW p \in Places
  PROVE  /\ Without(p) \in Places /\ Without(p) \in Bare
         /\ Without(p) \in Out <=> p \in Out
         /\ p \in Bare => Without(p) = p
  BY DEF Without, Places, Bare, Out

LEMMA RemoveSpaceKeeps ==
  ASSUME ExportInv, NEW j \in Jobs, RemoveSpace(j)
  PROVE  ExportInv'
PROOF
<1>1. /\ job[j].pc = "remove" /\ job[j].pc \in Settling
      /\ UNCHANGED <<story, window, row, cancelled, holder, reg, custody, fenced, app>>
  BY DEF RemoveSpace, Settling
<1>2. /\ Sound(j) /\ job \in [Jobs -> Workers] /\ job[j] \in Workers
      /\ place \in [Jobs -> Places] /\ mayBe \in [Jobs -> SUBSET Places]
      /\ fenced \in BOOLEAN /\ count \in Counts
  BY Typed
<1>3. job[j].mem # "none" /\ ~job[j].uncertain
  BY <1>1, <1>2, WhileSettling
<1>4. Space(j)
  BY <1>2 DEF Sound
<1>5. place[j] \in Places
  BY <1>2
<1>6. CASE /\ Places_(j, Without(place[j]),
                         (IF place[j] = "payload" THEN {"dir"} ELSE mayBe[j]) \cup {Without(place[j])})
           /\ Goes(j, "sync")
           /\ UNCHANGED count
  <2> DEFINE m == (IF place[j] = "payload" THEN {"dir"} ELSE mayBe[j]) \cup {Without(place[j])}
  <2>1. /\ job' \in [Jobs -> Workers]
        /\ \A k \in Jobs \ {j} : job'[k] = job[k]
        /\ job'[j].pc = "sync" /\ job'[j].outcome = job[j].outcome /\ job'[j].mem = job[j].mem
        /\ job'[j].owned <=> job[j].owned
        /\ job'[j].uncertain <=> job[j].uncertain
    BY <1>2, <1>6, Gone DEF Points
  <2>2. m \in SUBSET Places
    BY <1>2, <1>5, WithoutKeeps DEF Places
  <2>3. /\ place' = [place EXCEPT ![j] = Without(place[j])] /\ mayBe' = [mayBe EXCEPT ![j] = m]
        /\ place'[j] = Without(place[j]) /\ mayBe'[j] = m
    BY <1>2, <1>6 DEF Places_
  <2>4. Acts(j)
    BY <1>1, <1>2, <1>5, <1>6, <2>1, <2>2, <2>3, WithoutKeeps DEF Acts
  <2>5. Space(j)'
    <3>1. place'[j] \in mayBe'[j]
      BY <2>3
    <3>2. place'[j] \in Out <=> place[j] \in Out
      BY <1>5, <2>3, WithoutKeeps
    <3>3. mayBe'[j] \cap Out # {} => place'[j] \in Out
      BY <1>4, <1>5, <2>3, <3>2, WithoutKeeps DEF Space, Out
    <3>4. ~ (mayBe'[j] \subseteq Bare) => ~ (mayBe[j] \subseteq Bare)
      BY <1>4, <1>5, <2>3, WithoutKeeps DEF Space, Bare
    <3> QED BY <1>1, <1>4, <3>1, <3>2, <3>3, <3>4 DEF Space
  <2>6. mayBe[j] \subseteq Out => mayBe'[j] \subseteq Out
    BY <1>4, <1>5, <2>3, WithoutKeeps DEF Space, Out
  <2> HIDE DEF m
  <2>7. place'[j] \in Bare /\ (place[j] \notin Out => place'[j] \notin Out)
    BY <1>5, <2>3, WithoutKeeps
  <2>8. Sound(j)'
    BY <1>1, <1>2, <1>3, <2>1, <2>5, <2>6, <2>7, GoesOnSettling DEF Settling
  <2> QED BY <2>4, <2>8, ActsKeep
<1>7. CASE /\ Faulty
           /\ Goes(j, "retire")
           /\ IF place[j] = "payload"
              THEN Places_(j, "dir", mayBe[j] \cup {"dir"})
              ELSE UNCHANGED <<place, mayBe>>
  <2>1. /\ job' \in [Jobs -> Workers]
        /\ \A k \in Jobs \ {j} : job'[k] = job[k]
        /\ job'[j].pc = "retire" /\ job'[j].outcome = job[j].outcome /\ job'[j].mem = job[j].mem
        /\ job'[j].owned <=> job[j].owned
        /\ job'[j].uncertain <=> job[j].uncertain
    BY <1>2, <1>7, Gone DEF Points
  <2>2. count' \in Counts
    BY <1>2, <1>7, Spent
  <2>3. CASE place[j] = "payload" /\ Places_(j, "dir", mayBe[j] \cup {"dir"})
    <3>1. /\ place' = [place EXCEPT ![j] = "dir"] /\ place'[j] = "dir"
          /\ mayBe' = [mayBe EXCEPT ![j] = mayBe[j] \cup {"dir"}]
          /\ mayBe'[j] = mayBe[j] \cup {"dir"}
      BY <1>2, <2>3 DEF Places_
    <3>2. mayBe[j] \cup {"dir"} \in SUBSET Places
      BY <1>2 DEF Places
    <3>3. Acts(j)
      BY <1>1, <1>2, <2>1, <2>2, <3>1, <3>2 DEF Acts, Places
    <3>4. Space(j)'
      BY <1>1, <1>4, <2>3, <3>1 DEF Space, Out, Bare
    <3>5. ~ (mayBe[j] \subseteq Out) /\ place'[j] \notin Out
      BY <1>4, <2>3, <3>1 DEF Space, Out
    <3>6. Sound(j)'
      BY <1>1, <1>2, <1>3, <2>1, <3>4, <3>5, GoesOnSettling DEF Settling
    <3> QED BY <3>3, <3>6, ActsKeep
  <2>4. CASE UNCHANGED <<place, mayBe>>
    <3>1. Acts(j)
      BY <1>1, <1>2, <2>1, <2>2, <2>4 DEF Acts
    <3>2. Space(j)'
      BY <1>1, <1>4, <2>4 DEF Space
    <3>3. Sound(j)'
      BY <1>1, <1>2, <1>3, <2>1, <2>4, <3>2, GoesOnSettling DEF Settling
    <3> QED BY <3>1, <3>3, ActsKeep
  <2> QED BY <1>7, <2>3, <2>4
<1> QED BY <1>6, <1>7 DEF RemoveSpace

LEMMA SyncKeeps ==
  ASSUME ExportInv, NEW j \in Jobs, Sync(j)
  PROVE  ExportInv'
PROOF
<1>1. /\ job[j].pc = "sync" /\ job[j].pc \in Settling
      /\ UNCHANGED <<story, window, row, cancelled, place, holder, reg, custody, fenced, app>>
  BY DEF Sync, Settling
<1>2. /\ Sound(j) /\ job \in [Jobs -> Workers] /\ job[j] \in Workers
      /\ place \in [Jobs -> Places] /\ mayBe \in [Jobs -> SUBSET Places]
      /\ fenced \in BOOLEAN /\ count \in Counts
  BY Typed
<1>3. job[j].mem # "none" /\ ~job[j].uncertain
  BY <1>1, <1>2, WhileSettling
<1>4. Space(j) /\ place[j] \in Bare
  BY <1>1, <1>2 DEF Sound, Settles
<1>5. CASE /\ mayBe' = [mayBe EXCEPT ![j] = {place[j]}]
           /\ Goes(j, "forget") /\ UNCHANGED count
  <2>1. /\ job' \in [Jobs -> Workers]
        /\ \A k \in Jobs \ {j} : job'[k] = job[k]
        /\ job'[j].pc = "forget" /\ job'[j].outcome = job[j].outcome /\ job'[j].mem = job[j].mem
        /\ job'[j].owned <=> job[j].owned
        /\ job'[j].uncertain <=> job[j].uncertain
    BY <1>2, <1>5, Gone DEF Points
  <2>2. mayBe'[j] = {place[j]} /\ {place[j]} \in SUBSET Places
    BY <1>2, <1>5
  <2>3. Acts(j)
    BY <1>1, <1>2, <1>5, <2>1, <2>2 DEF Acts
  <2>4. Space(j)'
    BY <1>1, <1>4, <2>2 DEF Space
  <2>5. mayBe[j] \subseteq Out => mayBe'[j] \subseteq Out
    BY <1>4, <2>2 DEF Space
  <2>6. Sound(j)'
    BY <1>1, <1>2, <1>3, <1>4, <2>1, <2>2, <2>4, <2>5, GoesOnSettling DEF Settling
  <2> QED BY <2>3, <2>6, ActsKeep
<1>6. CASE Faulty /\ Goes(j, "retire") /\ UNCHANGED mayBe
  <2>1. /\ job' \in [Jobs -> Workers]
        /\ \A k \in Jobs \ {j} : job'[k] = job[k]
        /\ job'[j].pc = "retire" /\ job'[j].outcome = job[j].outcome /\ job'[j].mem = job[j].mem
        /\ job'[j].owned <=> job[j].owned
        /\ job'[j].uncertain <=> job[j].uncertain
    BY <1>2, <1>6, Gone DEF Points
  <2>2. Acts(j)
    BY <1>1, <1>2, <1>6, <2>1, Spent DEF Acts
  <2>3. Space(j)'
    BY <1>1, <1>4, <1>6 DEF Space
  <2>4. Sound(j)'
    BY <1>1, <1>2, <1>3, <1>6, <2>1, <2>3, GoesOnSettling DEF Settling
  <2> QED BY <2>2, <2>4, ActsKeep
<1> QED BY <1>5, <1>6 DEF Sync

LEMMA ForgetKeeps ==
  ASSUME ExportInv, NEW j \in Jobs, Forget(j)
  PROVE  ExportInv'
PROOF
<1>1. /\ job[j].pc = "forget" /\ job[j].pc \in Settling
      /\ UNCHANGED <<story, window, row, cancelled, place, mayBe, holder, app>>
  BY DEF Forget, Settling
<1>2. /\ Sound(j) /\ job \in [Jobs -> Workers] /\ job[j] \in Workers
      /\ reg \in [Jobs -> SUBSET Entries] /\ fenced \in BOOLEAN /\ count \in Counts
  BY Typed
<1>3. Space(j) /\ place[j] \in Bare /\ mayBe[j] = {place[j]}
  BY <1>1, <1>2 DEF Sound, Settles
<1>4. CASE /\ Records(j, IF reg[j] = {job[j].mem} THEN {"none"} ELSE reg[j])
           /\ Retired(j)
           /\ UNCHANGED <<fenced, count>>
  <2>1. \E r \in SUBSET Entries : reg' = [reg EXCEPT ![j] = r]
    BY <1>2, <1>4 DEF Records, Entries
  <2> QED BY <1>1, <1>3, <1>4, <2>1, RetiredKeeps
<1>5. CASE /\ Faulty
           /\ Records(j, reg[j] \cup IF reg[j] = {job[j].mem} THEN {"none"} ELSE {})
           /\ Goes(j, "retire") /\ UNCHANGED custody
           /\ fenced' = TRUE
  <2>1. /\ job' \in [Jobs -> Workers]
        /\ \A k \in Jobs \ {j} : job'[k] = job[k]
        /\ job'[j].pc = "retire" /\ job'[j].outcome = job[j].outcome /\ job'[j].mem = job[j].mem
        /\ job'[j].owned <=> job[j].owned
        /\ job'[j].uncertain <=> job[j].uncertain
    BY <1>2, <1>5, Gone DEF Points
  <2>2. \E r \in SUBSET Entries : reg' = [reg EXCEPT ![j] = r]
    BY <1>2, <1>5 DEF Records, Entries
  <2>3. Acts(j)
    BY <1>1, <1>2, <1>5, <2>1, <2>2, Spent DEF Acts
  <2>4. Space(j)'
    BY <1>1, <1>3 DEF Space
  <2>5. job[j].mem # "none" /\ ~job[j].uncertain
    BY <1>1, <1>2, WhileSettling
  <2>6. Sound(j)'
    BY <1>1, <1>2, <1>5, <2>1, <2>4, <2>5, GoesOnSettling DEF Settling
  <2> QED BY <2>3, <2>6, ActsKeep
<1> QED BY <1>4, <1>5 DEF Forget

LEMMA WorkKeeps ==
  ASSUME ExportInv, NEW j \in Jobs, Work(j)
  PROVE  ExportInv'
  BY FirstCheckKeeps, TakeCustodyKeeps, SecondCheckKeeps, UnacquiredKeeps, ReserveKeeps,
     MakeDirectoryKeeps, MakePayloadKeeps, RegisterKeeps, ThirdCheckKeeps, CopyKeeps,
     PublishRefusedKeeps, ReconcileKeeps, PublishKeeps, FlushKeeps,
     ReportKeeps, RetireKeeps, UpgradeKeeps, RemoveSpaceKeeps, SyncKeeps, ForgetKeeps
  DEF Work

----------------------------------------------------------------------------
(* Preview and start                                                       *)

(* A step that touches no workspace, no record and no worker.  The story of*)
(* an export in custody stays.                                             *)
LEMMA StandStill ==
  ASSUME ExportInv, UNCHANGED <<job, place, mayBe, reg, custody, app>>, NEW k \in Jobs,
         holder'[Name[k]] = k <=> holder[Name[k]] = k,
         row'[k] = row[k] \/ (row[k] = "absent" /\ row'[k] = "queued"),
         custody = k /\ story[Story[k]] # "gone" => story'[Story[k]] # "gone"
  PROVE  Sound(k)'
PROOF
<1>1. Sound(k)
  BY DEF ExportInv
<1>2. Space(k)'
  BY <1>1 DEF Sound, Space
<1>3. row[k] = "absent" => job[k].pc = "idle" /\ Untouched(k)
  BY <1>1 DEF Sound, Told
<1>4. Told(k)'
  BY <1>1, <1>3 DEF Sound, Told, Untouched, Ends
<1>5. Runs(k)' /\ Starts(k)' /\ Makes(k)' /\ Publishes(k)'
  BY <1>1, <1>3 DEF Sound, Runs, Starts, Makes, Publishes, Untouched, Early, Making, Made
<1>6. Settles(k)'
  BY <1>1, <1>3 DEF Sound, Settles, Settling
<1>7. Holds(k)'
  BY <1>1 DEF Sound, Holds
<1> QED BY <1>2, <1>4, <1>5, <1>6, <1>7 DEF Sound

(* A step of the window alone.                                             *)
LEMMA WindowKeeps ==
  ASSUME ExportInv, UNCHANGED <<story, row, cancelled, job, place, mayBe, holder, reg, custody, app>>,
         prepared' \in Seq(Jobs), Len(prepared') <= Limit,
         ticket' \in Jobs \cup {Nobody}, ingress' \in Jobs \cup {Nobody},
         plans' \subseteq Jobs, rejected' \subseteq Jobs,
         fenced' \in BOOLEAN, count' \in Counts, Planning'
  PROVE  ExportInv'
PROOF
<1>1. TypeOK'
  BY DEF ExportInv, TypeOK, Counts
<1>2. \A k \in Jobs : Sound(k)'
  BY StandStill
<1>3. Named'
  BY DEF ExportInv, Named
<1> QED BY <1>1, <1>2, <1>3 DEF ExportInv

LEMMA PrefixTyped ==
  ASSUME NEW s \in Seq(Jobs), NEW n \in Nat, n <= Len(s)
  PROVE  SubSeq(s, 1, n) \in Seq(Jobs) /\ Len(SubSeq(s, 1, n)) = n
  OBVIOUS

LEMMA OtherPlansTyped ==
  ASSUME ExportInv
  PROVE  OtherPlans \in Seq(Jobs) /\ Len(OtherPlans) <= Limit
PROOF
<1>1. prepared \in Seq(Jobs) /\ Len(prepared) <= Limit /\ Limit \in Nat
  BY ExportsAssumption DEF ExportInv, TypeOK
<1>2. CASE ticket = Nobody
  BY <1>1, <1>2 DEF OtherPlans
<1>3. CASE ticket # Nobody
  <2>1. prepared # <<>> /\ OtherPlans = SubSeq(prepared, 1, Len(prepared) - 1)
    BY <1>3 DEF ExportInv, Planning, OtherPlans, Front
  <2>2. Len(prepared) \in Nat \ {0}
    BY <1>1, <2>1
  <2>3. PICK n \in Nat : n = Len(prepared) - 1 /\ n <= Len(prepared)
    BY <2>2
  <2>4. SubSeq(prepared, 1, n) \in Seq(Jobs) /\ Len(SubSeq(prepared, 1, n)) = n
    BY <1>1, <2>3, PrefixTyped
  <2> QED BY <1>1, <2>1, <2>2, <2>3, <2>4
<1> QED BY <1>2, <1>3

LEMMA WindowTyped ==
  ASSUME ExportInv
  PROVE  /\ prepared \in Seq(Jobs) /\ Len(prepared) <= Limit
         /\ ticket \in Jobs \cup {Nobody} /\ ingress \in Jobs \cup {Nobody}
         /\ plans \subseteq Jobs /\ rejected \subseteq Jobs
         /\ fenced \in BOOLEAN /\ count \in Counts
         /\ row \in [Jobs -> Ends \cup {"absent", "queued", "running", "interrupted"}]
         /\ Planning /\ PlanIsKept
  BY DEF ExportInv, TypeOK, Planning, Counts

LEMMA PrepareKeeps ==
  ASSUME ExportInv, NEW j \in Jobs, Prepare(j)
  PROVE  ExportInv'
PROOF
<1> DEFINE older == IF Len(OtherPlans) < Limit THEN OtherPlans ELSE Tail(OtherPlans)
<1>1. /\ row[j] = "absent" /\ j \notin plans /\ ticket' = j /\ prepared' = Append(older, j)
      /\ UNCHANGED <<plans, ingress, rejected, story, row, cancelled, job, place, mayBe, holder, reg,
                     custody, fenced, app, count>>
  BY DEF Prepare, disk
<1>2. Limit \in Nat \ {0}
  BY ExportsAssumption
<1>3. older \in Seq(Jobs) /\ Len(older) + 1 <= Limit
  <2>1. OtherPlans \in Seq(Jobs) /\ Len(OtherPlans) <= Limit
    BY OtherPlansTyped
  <2>2. CASE Len(OtherPlans) < Limit
    BY <1>2, <2>1, <2>2
  <2>3. CASE ~ (Len(OtherPlans) < Limit)
    <3>1. OtherPlans # <<>>
      BY <1>2, <2>1, <2>3
    <3>2. Tail(OtherPlans) \in Seq(Jobs) /\ Len(Tail(OtherPlans)) = Len(OtherPlans) - 1
      BY <2>1, <3>1
    <3> QED BY <1>2, <2>1, <2>3, <3>2
  <2> QED BY <2>2, <2>3
<1> HIDE DEF older
<1>4. prepared' \in Seq(Jobs) /\ Len(prepared') <= Limit /\ prepared' # <<>>
  BY <1>1, <1>2, <1>3
<1>5. Planning'
  BY <1>1, <1>4, WindowTyped DEF Planning, PlanIsKept
<1> QED BY <1>1, <1>4, <1>5, WindowTyped, WindowKeeps

LEMMA ProbeRetainedKeeps ==
  ASSUME ExportInv, ProbeRetained
  PROVE  ExportInv'
PROOF
<1>1. /\ prepared' = OtherPlans /\ ticket' = Nobody /\ fenced' = TRUE /\ Faulty
      /\ UNCHANGED <<plans, ingress, rejected, story, row, cancelled, job, place, mayBe, holder, reg,
                     custody, app>>
  BY DEF ProbeRetained, disk
<1>2. Planning'
  BY <1>1, WindowTyped DEF Planning, PlanIsKept
<1>3. count' \in Counts
  BY <1>1, WindowTyped, Spent
<1> QED BY <1>1, <1>2, <1>3, OtherPlansTyped, WindowTyped, WindowKeeps

LEMMA DiscardKeeps ==
  ASSUME ExportInv, Discard
  PROVE  ExportInv'
PROOF
<1>1. /\ prepared' = OtherPlans /\ ticket' = Nobody
      /\ UNCHANGED <<plans, ingress, rejected, story, row, cancelled, job, place, mayBe, holder, reg,
                     custody, fenced, app, count>>
  BY DEF Discard, disk
<1>2. Planning'
  BY <1>1, WindowTyped DEF Planning, PlanIsKept
<1> QED BY <1>1, <1>2, OtherPlansTyped, WindowTyped, WindowKeeps

(* What is pruned has ended.                                               *)
LEMMA OfferKeeps ==
  ASSUME ExportInv, Offer
  PROVE  ExportInv'
PROOF
<1>1. /\ app = "open" /\ ticket # Nobody /\ ticket' = Nobody
      /\ UNCHANGED <<rejected, story, row, cancelled, job, place, mayBe, holder, reg,
                     custody, fenced, app, count>>
  BY DEF Offer, disk
<1>2. /\ \A j \in plans : row[j] \in {"absent", "queued", "running"} => j \in Pruned
      /\ Pruned \subseteq plans
  BY DEF Pruned, Over
<1>3. /\ row[ticket] = "absent" /\ ticket \notin plans /\ ticket \in Jobs
      /\ ingress # Nobody => row[ingress] = "absent" /\ ingress \in plans /\ ingress \notin rejected
      /\ \A j \in rejected : row[j] = "absent" /\ j \in plans
      /\ \A j \in Jobs : row[j] \in {"queued", "running"} => j \in plans
  BY <1>1, WindowTyped DEF Planning, PlanIsKept
<1>4. CASE plans' = Pruned /\ UNCHANGED ingress /\ prepared' \in {prepared, OtherPlans}
  <2>1. Planning'
    BY <1>1, <1>2, <1>3, <1>4, WindowTyped DEF Planning, PlanIsKept
  <2>2. prepared' \in Seq(Jobs) /\ Len(prepared') <= Limit
    BY <1>4, OtherPlansTyped, WindowTyped
  <2>3. plans' \subseteq Jobs
    BY <1>2, <1>4, WindowTyped
  <2> QED BY <1>1, <1>4, <2>1, <2>2, <2>3, WindowTyped, WindowKeeps
<1>5. CASE ingress = Nobody /\ plans' = Pruned \cup {ticket} /\ prepared' = OtherPlans /\ ingress' = ticket
  <2>1. Planning'
    BY <1>1, <1>2, <1>3, <1>5, WindowTyped DEF Planning, PlanIsKept
  <2>2. prepared' \in Seq(Jobs) /\ Len(prepared') <= Limit
    BY <1>5, OtherPlansTyped
  <2>3. plans' \subseteq Jobs
    BY <1>2, <1>3, <1>5, WindowTyped
  <2> QED BY <1>1, <1>3, <1>5, <2>1, <2>2, <2>3, WindowTyped, WindowKeeps
<1> QED BY <1>4, <1>5 DEF Offer

LEMMA RejectAdmissionKeeps ==
  ASSUME ExportInv, NEW j \in Jobs, RejectAdmission(j)
  PROVE  ExportInv'
PROOF
<1>1. /\ j \in rejected /\ rejected' = rejected \ {j} /\ plans' = plans \ {j}
      /\ UNCHANGED <<prepared, ticket, ingress, story, row, cancelled, job, place, mayBe, holder, reg,
                     custody, fenced, app, count>>
  BY DEF RejectAdmission, disk
<1>2. Planning'
  BY <1>1, WindowTyped DEF Planning, PlanIsKept
<1> QED BY <1>1, <1>2, WindowTyped, WindowKeeps

LEMMA AdmitKeeps ==
  ASSUME ExportInv, Admit
  PROVE  ExportInv'
PROOF
<1>1. /\ app = "open" /\ ingress # Nobody /\ ingress' = Nobody
      /\ UNCHANGED <<prepared, ticket, plans, story, cancelled, job, place, mayBe, holder, reg,
                     custody, fenced, app>>
  BY DEF Admit, disk
<1>2. /\ ingress \in Jobs /\ row[ingress] = "absent" /\ ingress \in plans
      /\ ticket # ingress
  BY <1>1, WindowTyped DEF Planning
<1>3. CASE row' = [row EXCEPT ![ingress] = "queued"] /\ UNCHANGED <<rejected, count>>
  <2>1. /\ row'[ingress] = "queued"
        /\ \A k \in Jobs \ {ingress} : row'[k] = row[k]
        /\ row' \in [Jobs -> Ends \cup {"absent", "queued", "running", "interrupted"}]
    BY <1>2, <1>3, WindowTyped
  <2>2. Planning'
    BY <1>1, <1>2, <1>3, <2>1, WindowTyped DEF Planning, PlanIsKept
  <2>3. TypeOK'
    BY <1>1, <1>3, <2>1 DEF ExportInv, TypeOK
  <2>4. \A k \in Jobs : Sound(k)'
    BY <1>1, <1>2, <2>1, StandStill
  <2>5. Named'
    BY <1>1 DEF ExportInv, Named
  <2> QED BY <2>2, <2>3, <2>4, <2>5 DEF ExportInv
<1>4. CASE Faulty /\ rejected' = rejected \cup {ingress} /\ UNCHANGED row
  <2>1. Planning'
    BY <1>1, <1>2, <1>4, WindowTyped DEF Planning, PlanIsKept
  <2>2. count' \in Counts /\ rejected' \subseteq Jobs
    BY <1>2, <1>4, WindowTyped, Spent
  <2> QED BY <1>1, <1>4, <2>1, <2>2, WindowTyped, WindowKeeps
<1> QED BY <1>3, <1>4 DEF Admit

LEMMA CancelKeeps ==
  ASSUME ExportInv, NEW j \in Jobs, Cancel(j)
  PROVE  ExportInv'
PROOF
<1>1. /\ cancelled' = cancelled \cup {j}
      /\ UNCHANGED <<prepared, ticket, plans, ingress, rejected, story, row, job, place, mayBe,
                     holder, reg, custody, fenced, app, count>>
  BY DEF Cancel, disk, window
<1>2. TypeOK'
  BY <1>1 DEF ExportInv, TypeOK
<1>3. \A k \in Jobs : Sound(k)'
  BY <1>1, StandStill
<1> QED BY <1>1, <1>2, <1>3 DEF ExportInv, Planning, PlanIsKept, Named

----------------------------------------------------------------------------
(* The rest of the world                                                   *)

LEMMA SpentChange ==
  ASSUME count \in Counts, count.changes < MaxChanges, Spend("changes")
  PROVE  count' \in Counts
PROOF
<1>1. count' = [count EXCEPT !.changes = count.changes + 1]
  BY DEF Spend
<1>2. count.changes + 1 \in 0..MaxChanges
  BY ExportsAssumption DEF Counts
<1> QED BY <1>1, <1>2 DEF Counts

LEMMA SpentDeath ==
  ASSUME count \in Counts, count.deaths < MaxDeaths, Spend("deaths")
  PROVE  count' \in Counts
PROOF
<1>1. count' = [count EXCEPT !.deaths = count.deaths + 1]
  BY DEF Spend
<1>2. count.deaths + 1 \in 0..MaxDeaths
  BY ExportsAssumption DEF Counts
<1> QED BY <1>1, <1>2 DEF Counts

(* A change of a story: one in custody is not removed.                     *)
LEMMA StoryKeeps ==
  ASSUME ExportInv, NEW s \in Stories, Flag(s) \/ RemoveStory(s)
  PROVE  ExportInv'
PROOF
<1>1. /\ count.changes < MaxChanges /\ Spend("changes") /\ story[s] # "gone"
      /\ \E v \in {"fine", "broken", "gone"} :
            story' = [story EXCEPT ![s] = v] /\ (v = "gone" => custody = Nobody)
      /\ UNCHANGED <<prepared, ticket, plans, ingress, rejected, row, cancelled, job, place, mayBe,
                     holder, reg, custody, fenced, app>>
  BY DEF Flag, RemoveStory, disk, window
<1>2. PICK v \in {"fine", "broken", "gone"} :
            story' = [story EXCEPT ![s] = v] /\ (v = "gone" => custody = Nobody)
  BY <1>1
<1>3. story \in [Stories -> {"fine", "broken", "gone"}] /\ count \in Counts
  BY DEF ExportInv, TypeOK, Counts
<1>4. count' \in Counts
  BY <1>1, <1>3, SpentChange
<1>5. story' \in [Stories -> {"fine", "broken", "gone"}]
  BY <1>2, <1>3
<1>6. TypeOK'
  BY <1>1, <1>4, <1>5 DEF ExportInv, TypeOK, Counts
<1>7. ASSUME NEW k \in Jobs
      PROVE  Sound(k)'
  <2>1. Story[k] \in Stories
    BY DEF Stories
  <2>2. custody = k /\ story[Story[k]] # "gone" => story'[Story[k]] # "gone"
    BY <1>2, <1>3, <2>1, ExportsAssumption
  <2> QED BY <1>1, <2>2, StandStill
<1> QED BY <1>1, <1>6, <1>7 DEF ExportInv, Planning, PlanIsKept, Named

LEMMA IntrudeKeeps ==
  ASSUME ExportInv, NEW n \in Names, Intrude(n)
  PROVE  ExportInv'
PROOF
<1>1. /\ holder[n] = Nobody /\ holder' = [holder EXCEPT ![n] = Foreign]
      /\ UNCHANGED <<prepared, ticket, plans, ingress, rejected, story, row, cancelled, job, place,
                     mayBe, reg, custody, fenced, app, count>>
  BY DEF Intrude, window
<1>2. holder \in [Names -> Jobs \cup {Nobody, Foreign}]
  BY DEF ExportInv, TypeOK
<1>3. /\ holder' \in [Names -> Jobs \cup {Nobody, Foreign}]
      /\ \A m \in Names : holder'[m] = IF m = n THEN Foreign ELSE holder[m]
  BY <1>1, <1>2
<1>4. TypeOK'
  BY <1>1, <1>3 DEF ExportInv, TypeOK
<1>5. ASSUME NEW k \in Jobs
      PROVE  Sound(k)'
  <2>1. Name[k] \in Names
    BY DEF Names
  <2>2. holder'[Name[k]] = k <=> holder[Name[k]] = k
    BY <1>1, <1>3, <2>1, ExportsAssumption
  <2> QED BY <1>1, <2>2, StandStill
<1>6. Named'
  BY <1>3, ExportsAssumption DEF ExportInv, Named
<1> QED BY <1>1, <1>4, <1>5, <1>6 DEF ExportInv, Planning, PlanIsKept

LEMMA OtherUncertainKeeps ==
  ASSUME ExportInv, OtherUncertain
  PROVE  ExportInv'
PROOF
<1>1. /\ Faulty /\ fenced' = TRUE
      /\ UNCHANGED <<prepared, ticket, plans, ingress, rejected, story, row, cancelled, job, place,
                     mayBe, holder, reg, custody, app>>
  BY DEF OtherUncertain, disk, window
<1>2. Planning'
  BY <1>1, WindowTyped DEF Planning, PlanIsKept
<1>3. count' \in Counts
  BY <1>1, WindowTyped, Spent
<1> QED BY <1>1, <1>2, <1>3, WindowTyped, WindowKeeps

----------------------------------------------------------------------------
(* Deaths and starts                                                       *)

(* The end of the process leaves the rows, one entry of the record and no  *)
(* worker.                                                                 *)
LEMMA DiesTyped ==
  ASSUME ExportInv, Dies, place' \in [Jobs -> Places], mayBe' \in [Jobs -> SUBSET Places],
         holder' \in [Names -> Jobs \cup {Nobody, Foreign}]
  PROVE  TypeOK'
PROOF
<1>1. /\ count.deaths < MaxDeaths /\ Spend("deaths")
      /\ prepared' = <<>> /\ ticket' = Nobody /\ plans' = {} /\ ingress' = Nobody /\ rejected' = {}
      /\ cancelled' = {} /\ job' = [j \in Jobs |-> Idle]
      /\ reg' \in [Jobs -> {{e} : e \in Entries}]
      /\ custody' = Nobody /\ fenced' = FALSE /\ app' = "starting"
      /\ UNCHANGED <<story, row>>
  BY DEF Dies
<1>2. count' \in Counts
  <2>1. count \in Counts
    BY DEF ExportInv, TypeOK, Counts
  <2> QED BY <1>1, <2>1, SpentDeath
<1>3. job' \in [Jobs -> Workers]
  <2>1. Idle \in Workers
    BY DEF Idle, Workers, Points, Entries
  <2> QED BY <1>1, <2>1
<1>4. reg' \in [Jobs -> SUBSET Entries]
  BY <1>1
<1>5. prepared' \in Seq(Jobs) /\ Len(prepared') <= Limit
  BY <1>1, ExportsAssumption
<1>6. /\ story' \in [Stories -> {"fine", "broken", "gone"}]
      /\ row' \in [Jobs -> Ends \cup {"absent", "queued", "running", "interrupted"}]
  BY <1>1 DEF ExportInv, TypeOK
<1> QED BY <1>1, <1>2, <1>3, <1>4, <1>5, <1>6 DEF TypeOK, Workers, Counts

LEMMA DiesSound ==
  ASSUME ExportInv, Dies, NEW k \in Jobs,
         place'[k] \in mayBe'[k], mayBe'[k] \subseteq mayBe[k],
         mayBe'[k] \cap Out # {} => place'[k] \in Out,
         place'[k] \in Out <=> holder'[Name[k]] = k,
         place[k] \notin Out => place'[k] \notin Out
  PROVE  Sound(k)'
PROOF
<1>1. /\ job' = [j \in Jobs |-> Idle] /\ app' = "starting" /\ row' = row
      /\ reg' \in [Jobs -> {{e} : e \in Entries}] /\ reg'[k] \subseteq reg[k]
  BY DEF Dies
<1>2. /\ job'[k].pc = "idle" /\ job'[k].outcome = "none" /\ job'[k].mem = "none"
      /\ ~job'[k].owned /\ ~job'[k].uncertain
  BY <1>1 DEF Idle
<1>3. Space(k) /\ Told(k)
  BY DEF ExportInv, Sound
<1>4. Space(k)'
  BY <1>1, <1>3 DEF Space
<1>5. Untouched(k) => Untouched(k)'
  <2>1. reg'[k] # {}
    BY <1>1
  <2>2. reg[k] = {"none"} => reg'[k] = {"none"}
    BY <1>1, <2>1
  <2>3. mayBe[k] = {"none"} => place'[k] = "none" /\ mayBe'[k] = {"none"}
    OBVIOUS
  <2> QED BY <2>2, <2>3 DEF Untouched
<1>6. Told(k)'
  BY <1>1, <1>2, <1>3, <1>5 DEF Told
<1>7. Runs(k)' /\ Starts(k)' /\ Makes(k)' /\ Publishes(k)' /\ Settles(k)' /\ Holds(k)'
  BY <1>1, <1>2
     DEF Runs, Starts, Makes, Publishes, Settles, Holds, Early, Making, Made, Settling
<1> QED BY <1>4, <1>6, <1>7 DEF Sound

LEMMA DiesPlans ==
  ASSUME Dies
  PROVE  Planning'
  BY DEF Dies, Planning, PlanIsKept

LEMMA CrashKeeps ==
  ASSUME ExportInv, Crash
  PROVE  ExportInv'
PROOF
<1>1. Dies /\ UNCHANGED <<place, mayBe, holder>>
  BY DEF Crash
<1>2. TypeOK'
  <2>1. /\ place' \in [Jobs -> Places] /\ mayBe' \in [Jobs -> SUBSET Places]
        /\ holder' \in [Names -> Jobs \cup {Nobody, Foreign}]
    BY <1>1 DEF ExportInv, TypeOK
  <2> QED BY <1>1, <2>1, DiesTyped
<1>3. ASSUME NEW k \in Jobs
      PROVE  Sound(k)'
  <2>1. Space(k)
    BY DEF ExportInv, Sound
  <2>2. /\ place'[k] \in mayBe'[k] /\ mayBe'[k] \subseteq mayBe[k]
        /\ mayBe'[k] \cap Out # {} => place'[k] \in Out
        /\ place'[k] \in Out <=> holder'[Name[k]] = k
        /\ place[k] \notin Out => place'[k] \notin Out
    BY <1>1, <2>1 DEF Space
  <2> QED BY <1>1, <2>2, DiesSound
<1>4. Named'
  BY <1>1 DEF ExportInv, Named
<1> QED BY <1>1, <1>2, <1>3, <1>4, DiesPlans DEF ExportInv

(* A loss of power leaves what may be, and takes the name of a file that is*)
(* not there after it.                                                     *)
LEMMA LosePowerKeeps ==
  ASSUME ExportInv, LosePower
  PROVE  ExportInv'
PROOF
<1>1. /\ Dies /\ place' \in [Jobs -> Places] /\ \A j \in Jobs : place'[j] \in mayBe[j]
      /\ mayBe' = [j \in Jobs |-> {place'[j]}]
      /\ holder' = [n \in Names |->
            IF holder[n] \in Jobs /\ place'[holder[n]] \notin Out THEN Nobody ELSE holder[n]]
  BY DEF LosePower
<1>2. holder \in [Names -> Jobs \cup {Nobody, Foreign}]
  BY DEF ExportInv, TypeOK
<1>3. TypeOK'
  <2>1. mayBe' \in [Jobs -> SUBSET Places]
    BY <1>1
  <2>2. holder' \in [Names -> Jobs \cup {Nobody, Foreign}]
    BY <1>1, <1>2
  <2> QED BY <1>1, <2>1, <2>2, DiesTyped
<1>4. ASSUME NEW k \in Jobs
      PROVE  Sound(k)'
  <2>1. Space(k) /\ Name[k] \in Names
    BY DEF ExportInv, Sound, Names
  <2>2. place'[k] \in mayBe[k] /\ mayBe'[k] = {place'[k]}
    BY <1>1
  <2>3. place'[k] \in Out => place[k] \in Out
    BY <2>1, <2>2 DEF Space
  <2>4. holder'[Name[k]] =
            IF holder[Name[k]] \in Jobs /\ place'[holder[Name[k]]] \notin Out
            THEN Nobody ELSE holder[Name[k]]
    BY <1>1, <2>1
  <2>5. holder'[Name[k]] = k <=> holder[Name[k]] = k /\ place'[k] \in Out
    BY <2>4, ExportsAssumption
  <2>6. place'[k] \in Out <=> holder'[Name[k]] = k
    BY <2>1, <2>3, <2>5 DEF Space
  <2> QED BY <1>1, <2>2, <2>3, <2>6, DiesSound
<1>5. Named'
  BY <1>1, ExportsAssumption DEF ExportInv, Named
<1> QED BY <1>1, <1>3, <1>4, <1>5, DiesPlans DEF ExportInv

LEMMA RecoverKeeps ==
  ASSUME ExportInv, NEW j \in Jobs, Recover(j)
  PROVE  ExportInv'
PROOF
<1>1. /\ app = "starting" /\ reg[j] # {"none"}
      /\ UNCHANGED <<story, window, row, cancelled, job, holder, custody, fenced, app, count>>
  BY DEF Recover
<1>2. /\ Sound(j) /\ job \in [Jobs -> Workers] /\ job[j] \in Workers
      /\ place \in [Jobs -> Places] /\ place[j] \in Places /\ mayBe \in [Jobs -> SUBSET Places]
      /\ reg \in [Jobs -> SUBSET Entries] /\ fenced \in BOOLEAN /\ count \in Counts
  BY Typed
<1>3. Space(j) /\ Told(j)
  BY <1>2 DEF Sound
<1>4. job[j].pc = "idle" /\ job[j].outcome = "none" /\ job[j].mem = "none"
      /\ ~job[j].owned /\ ~job[j].uncertain
  BY <1>1, <1>2 DEF Sound, Runs
<1>5. Runs(j)' /\ Starts(j)' /\ Makes(j)' /\ Publishes(j)' /\ Settles(j)' /\ Holds(j)'
  BY <1>1, <1>4
     DEF Runs, Starts, Makes, Publishes, Settles, Holds, Early, Making, Made, Settling
<1>6. row[j] \notin {"absent", "queued"}
  BY <1>1, <1>3 DEF Told, Untouched
<1>7. CASE /\ place[j] \in Bare /\ mayBe[j] = {place[j]}
           /\ Records(j, {"none"}) /\ UNCHANGED <<place, mayBe>>
  <2>1. Acts(j)
    BY <1>1, <1>2, <1>7 DEF Acts, Records, Entries
  <2>2. Space(j)' /\ Told(j)'
    BY <1>1, <1>3, <1>6, <1>7 DEF Space, Told
  <2> QED BY <1>5, <2>1, <2>2, ActsKeep DEF Sound
<1>8. CASE Places_(j, Without(place[j]), {Without(place[j])}) /\ UNCHANGED reg
  <2>1. /\ Without(place[j]) \in Places /\ Without(place[j]) \in Bare
        /\ Without(place[j]) \in Out <=> place[j] \in Out
    BY <1>2, WithoutKeeps
  <2>2. /\ place' = [place EXCEPT ![j] = Without(place[j])] /\ place'[j] = Without(place[j])
        /\ mayBe' = [mayBe EXCEPT ![j] = {Without(place[j])}] /\ mayBe'[j] = {Without(place[j])}
    BY <1>2, <1>8 DEF Places_
  <2>3. Acts(j)
    BY <1>1, <1>2, <1>8, <2>1, <2>2 DEF Acts
  <2>4. Space(j)' /\ Told(j)'
    BY <1>1, <1>3, <1>6, <2>1, <2>2 DEF Space, Told
  <2> QED BY <1>5, <2>3, <2>4, ActsKeep DEF Sound
<1> QED BY <1>7, <1>8 DEF Recover

LEMMA StartKeeps ==
  ASSUME ExportInv, Start
  PROVE  ExportInv'
PROOF
<1>1. /\ app = "starting" /\ app' \in {"open", "refused"}
      /\ app' = "open" => \A j \in Jobs : reg[j] = {"none"}
      /\ row' = [j \in Jobs |-> IF row[j] \in {"queued", "running"} THEN "interrupted" ELSE row[j]]
      /\ UNCHANGED <<prepared, ticket, plans, ingress, rejected, story, cancelled, job, place, mayBe,
                     holder, reg, custody, fenced>>
      /\ UNCHANGED count \/ Faulty
  BY DEF Start, disk, window
<1>2. /\ row \in [Jobs -> Ends \cup {"absent", "queued", "running", "interrupted"}]
      /\ count \in Counts
  BY WindowTyped
<1>3. row' \in [Jobs -> Ends \cup {"absent", "queued", "running", "interrupted"}]
  BY <1>1, <1>2
<1>4. count' \in Counts
  BY <1>1, <1>2, Spent
<1>5. TypeOK'
  BY <1>1, <1>3, <1>4 DEF ExportInv, TypeOK, Counts
<1>6. \A k \in Jobs : row'[k] \notin {"queued", "running"} /\ (row[k] = "absent" => row'[k] = "absent")
  BY <1>1
<1>7. Planning'
  BY <1>1, <1>6, WindowTyped DEF Planning, PlanIsKept
<1>8. ASSUME NEW k \in Jobs
      PROVE  Sound(k)'
  <2>1. Sound(k)
    BY DEF ExportInv
  <2>2. /\ job[k].pc = "idle" /\ job[k].outcome = "none" /\ job[k].mem = "none"
        /\ ~job[k].owned /\ ~job[k].uncertain
    BY <1>1, <2>1 DEF Sound, Runs
  <2>3. row'[k] \in Ends \cup {"absent"} => row'[k] = row[k]
    BY <1>1 DEF Ends
  <2>4. Space(k)'
    BY <1>1, <2>1 DEF Sound, Space
  <2>5. Told(k)'
    BY <1>1, <1>6, <2>1, <2>3 DEF Sound, Told, Untouched, Ends
  <2>6. app' = "open" => mayBe[k] \subseteq Bare
    BY <1>1, <2>1 DEF Sound, Space
  <2>7. Runs(k)' /\ Starts(k)' /\ Makes(k)' /\ Publishes(k)' /\ Settles(k)' /\ Holds(k)'
    BY <1>1, <1>6, <2>2, <2>6
       DEF Runs, Starts, Makes, Publishes, Settles, Holds, Early, Making, Made, Settling
  <2> QED BY <2>4, <2>5, <2>7 DEF Sound
<1> QED BY <1>1, <1>5, <1>7, <1>8 DEF ExportInv, Named

LEMMA StartAgainKeeps ==
  ASSUME ExportInv, StartAgain
  PROVE  ExportInv'
PROOF
<1>1. /\ app = "refused" /\ app' = "starting"
      /\ UNCHANGED <<prepared, ticket, plans, ingress, rejected, story, row, cancelled, job, place,
                     mayBe, holder, reg, custody, fenced, count>>
  BY DEF StartAgain, disk, window
<1>2. TypeOK'
  BY <1>1 DEF ExportInv, TypeOK
<1>3. Planning'
  BY <1>1, WindowTyped DEF Planning, PlanIsKept
<1>4. ASSUME NEW k \in Jobs
      PROVE  Sound(k)'
  <2>1. Sound(k)
    BY DEF ExportInv
  <2>2. /\ job[k].pc = "idle" /\ job[k].outcome = "none" /\ job[k].mem = "none"
        /\ ~job[k].owned /\ ~job[k].uncertain
    BY <1>1, <2>1 DEF Sound, Runs
  <2>3. Space(k)' /\ Told(k)'
    BY <1>1, <2>1 DEF Sound, Space, Told, Untouched
  <2>4. Runs(k)' /\ Starts(k)' /\ Makes(k)' /\ Publishes(k)' /\ Settles(k)' /\ Holds(k)'
    BY <1>1, <2>2
       DEF Runs, Starts, Makes, Publishes, Settles, Holds, Early, Making, Made, Settling
  <2> QED BY <2>3, <2>4 DEF Sound
<1> QED BY <1>1, <1>2, <1>3, <1>4 DEF ExportInv, Named

----------------------------------------------------------------------------
(* The theorems                                                            *)

LEMMA InitSound ==
  ASSUME Init
  PROVE  ExportInv
PROOF
<1>1. TypeOK
  <2>1. Idle \in Workers
    BY DEF Idle, Workers, Points, Entries
  <2>2. prepared \in Seq(Jobs) /\ Len(prepared) <= Limit /\ count \in Counts
    BY ExportsAssumption DEF Init, Counts
  <2> QED BY <2>1, <2>2 DEF Init, TypeOK, Workers, Counts, Places, Entries, Ends
<1>2. Planning
  BY DEF Init, Planning, PlanIsKept
<1>3. Named
  BY ExportsAssumption DEF Init, Named
<1>4. ASSUME NEW j \in Jobs
      PROVE  Sound(j)
  <2>1. /\ place[j] = "none" /\ mayBe[j] = {"none"} /\ reg[j] = {"none"} /\ row[j] = "absent"
        /\ holder[Name[j]] # j
    BY ExportsAssumption DEF Init, Names
  <2>2. /\ job[j].pc = "idle" /\ job[j].outcome = "none" /\ job[j].mem = "none"
        /\ ~job[j].owned /\ ~job[j].uncertain
    BY DEF Init, Idle
  <2>3. Space(j) /\ Told(j)
    BY <2>1, <2>2 DEF Space, Told, Untouched, Out, Bare, Ends
  <2>4. Runs(j) /\ Starts(j) /\ Makes(j) /\ Publishes(j) /\ Settles(j) /\ Holds(j)
    BY <2>1, <2>2
       DEF Runs, Starts, Makes, Publishes, Settles, Holds, Early, Making, Made, Settling, Bare
  <2> QED BY <2>3, <2>4 DEF Sound
<1> QED BY <1>1, <1>2, <1>3, <1>4 DEF ExportInv

LEMMA StutterKeeps ==
  ASSUME ExportInv, UNCHANGED vars
  PROVE  ExportInv'
PROOF
<1>1. UNCHANGED <<prepared, ticket, plans, ingress, rejected, story, row, cancelled, job, place,
                  mayBe, holder, reg, custody, fenced, app, count>>
  BY DEF vars, window, disk
<1>2. Planning'
  BY <1>1, WindowTyped DEF Planning, PlanIsKept
<1> QED BY <1>1, <1>2, WindowTyped, WindowKeeps

LEMMA NextKeeps ==
  ASSUME ExportInv, [Next]_vars
  PROVE  ExportInv'
PROOF
<1>1. CASE ProbeRetained \/ Discard \/ Offer \/ Admit
  BY <1>1, ProbeRetainedKeeps, DiscardKeeps, OfferKeeps, AdmitKeeps
<1>2. ASSUME NEW j \in Jobs,
             Prepare(j) \/ RejectAdmission(j) \/ Cancel(j) \/ Begin(j) \/ Work(j) \/ Recover(j)
      PROVE  ExportInv'
  BY <1>2, PrepareKeeps, RejectAdmissionKeeps, CancelKeeps, BeginKeeps, WorkKeeps, RecoverKeeps
<1>3. ASSUME NEW s \in Stories, Flag(s) \/ RemoveStory(s)
      PROVE  ExportInv'
  BY <1>3, StoryKeeps
<1>4. ASSUME NEW n \in Names, Intrude(n)
      PROVE  ExportInv'
  BY <1>4, IntrudeKeeps
<1>5. CASE OtherUncertain \/ Crash \/ LosePower \/ Start \/ StartAgain
  BY <1>5, OtherUncertainKeeps, CrashKeeps, LosePowerKeeps, StartKeeps, StartAgainKeeps
<1>6. CASE UNCHANGED vars
  BY <1>6, StutterKeeps
<1> QED BY <1>1, <1>2, <1>3, <1>4, <1>5, <1>6 DEF Next

(* ExportInv holds in every reachable state: whatever fails, dies or loses *)
(* power, each export is where its worker, its row and the record say.     *)
THEOREM ExportsInvariant == Spec => []ExportInv
PROOF
<1>1. Init => ExportInv
  BY InitSound
<1>2. ExportInv /\ [Next]_vars => ExportInv'
  BY NextKeeps
<1> QED BY <1>1, <1>2, PTL DEF Spec

(* The variables keep their types; prepared never exceeds MAX_PREPARED.    *)
THEOREM ExportTypeCorrect == Spec => []TypeOK
PROOF
<1>1. ExportInv => TypeOK
  BY DEF ExportInv
<1> QED BY <1>1, ExportsInvariant, PTL

(* What publish_registered leads the worker to report is so, and a loss of *)
(* power does not undo it.                                                 *)
THEOREM ExportIsReportedTruly == Spec => []ExportReportIsTrue
PROOF
<1>1. ExportInv => ExportReportIsTrue
  <2>1. SUFFICES ASSUME ExportInv, NEW j \in Jobs
                 PROVE  /\ row[j] = "succeeded" => holder[Name[j]] = j /\ mayBe[j] \subseteq Out
                        /\ row[j] \in Ends \ {"succeeded"} =>
                              holder[Name[j]] # j /\ mayBe[j] \cap Out = {}
                        /\ job[j].outcome = "succeeded" => story[Story[j]] # "gone"
    BY DEF ExportReportIsTrue
  <2>2. Space(j) /\ Told(j) /\ Holds(j)
    BY <2>1 DEF ExportInv, Sound
  <2> QED BY <2>2 DEF Space, Told, Holds
<1> QED BY <1>1, ExportsInvariant, PTL

(* create_export_temporary records before it creates, and forget_temporary *)
(* forgets only after the destination is flushed: no workspace is unknown. *)
THEOREM WorkspacesAreRecorded == Spec => []WorkspaceIsRecorded
PROOF
<1>1. ExportInv => WorkspaceIsRecorded
  <2>1. SUFFICES ASSUME ExportInv, NEW j \in Jobs
                 PROVE  /\ ~ (mayBe[j] \cup {place[j]} \subseteq Bare) => "none" \notin reg[j]
                        /\ app = "open" /\ job[j].pc = "idle" => mayBe[j] \cup {place[j]} \subseteq Bare
    BY DEF WorkspaceIsRecorded
  <2>2. Space(j) /\ Runs(j)
    BY <2>1 DEF ExportInv, Sound
  <2> QED BY <2>2 DEF Space, Runs
<1> QED BY <1>1, ExportsInvariant, PTL

(* ExportExecutor::prune drops no plan of an operation that waits or runs. *)
THEOREM PlansAreKept == Spec => []PlanIsKept
PROOF
<1>1. ExportInv => PlanIsKept
  BY DEF ExportInv, Planning
<1> QED BY <1>1, ExportsInvariant, PTL

(* Nobody but a loss of power takes a name.                                *)
LEMMA HolderKept ==
  ASSUME ExportInv, [Next]_vars, ~ LosePower, NEW n \in Names, holder[n] # Nobody
  PROVE  holder'[n] = holder[n]
PROOF
<1>1. holder \in [Names -> Jobs \cup {Nobody, Foreign}]
  BY DEF ExportInv, TypeOK
<1>2. CASE ProbeRetained \/ Discard \/ Offer \/ Admit
  BY <1>2 DEF ProbeRetained, Discard, Offer, Admit, disk
<1>3. ASSUME NEW j \in Jobs,
             Prepare(j) \/ RejectAdmission(j) \/ Cancel(j) \/ Begin(j) \/ Recover(j)
      PROVE  holder'[n] = holder[n]
  BY <1>3 DEF Prepare, RejectAdmission, Cancel, Begin, Recover, disk
<1>4. ASSUME NEW j \in Jobs, Work(j)
      PROVE  holder'[n] = holder[n]
  <2>1. CASE Publish(j)
    <3>1. holder' = holder \/ (holder[Name[j]] = Nobody /\ holder' = [holder EXCEPT ![Name[j]] = j])
      BY <2>1 DEF Publish, Lands, Clash
    <3> QED BY <1>1, <3>1
  <2>2. CASE \/ FirstCheck(j) \/ TakeCustody(j) \/ SecondCheck(j) \/ Unacquired(j)
             \/ ThirdCheck(j) \/ Copy(j) \/ PublishRefused(j) \/ Reconcile(j) \/ Report(j)
    BY <2>2 DEF FirstCheck, TakeCustody, SecondCheck, Unacquired, ThirdCheck, Copy,
                PublishRefused, Reconcile, Report, disk
  <2>3. CASE \/ Reserve(j) \/ MakeDirectory(j) \/ MakePayload(j) \/ Register(j) \/ Flush(j)
             \/ Retire(j) \/ Upgrade(j) \/ RemoveSpace(j) \/ Sync(j) \/ Forget(j)
    BY <2>3 DEF Reserve, MakeDirectory, MakePayload, Register, Flush,
                Retire, Upgrade, RemoveSpace, Sync, Forget
  <2> QED BY <1>4, <2>1, <2>2, <2>3 DEF Work
<1>5. ASSUME NEW s \in Stories, Flag(s) \/ RemoveStory(s)
      PROVE  holder'[n] = holder[n]
  BY <1>5 DEF Flag, RemoveStory, disk
<1>6. ASSUME NEW m \in Names, Intrude(m)
      PROVE  holder'[n] = holder[n]
  BY <1>1, <1>6 DEF Intrude
<1>7. CASE OtherUncertain \/ Crash \/ Start \/ StartAgain \/ UNCHANGED vars
  BY <1>7 DEF OtherUncertain, Crash, Start, StartAgain, vars, disk
<1> QED BY <1>2, <1>3, <1>4, <1>5, <1>6, <1>7 DEF Next

(* No step of an export replaces or removes what has a name in the         *)
(* destination; a loss of power takes only a file that no report speaks of.*)
THEOREM DestinationsAreKept == Spec => DestinationIsKept
PROOF
<1> DEFINE Kept == \A n \in Names : holder[n] # Nobody =>
            \/ holder'[n] = holder[n]
            \/ app' = "starting" /\ holder[n] \in Jobs /\ row[holder[n]] \notin Ends
<1>1. ExportInv /\ [Next]_vars => Kept
  <2>1. SUFFICES ASSUME ExportInv, [Next]_vars, NEW n \in Names, holder[n] # Nobody
                 PROVE  \/ holder'[n] = holder[n]
                        \/ app' = "starting" /\ holder[n] \in Jobs /\ row[holder[n]] \notin Ends
    OBVIOUS
  <2>2. CASE ~ LosePower
    BY <2>1, <2>2, HolderKept
  <2>3. CASE LosePower /\ holder'[n] # holder[n]
    <3>1. /\ app' = "starting" /\ \A j \in Jobs : place'[j] \in mayBe[j]
          /\ holder' = [m \in Names |->
                IF holder[m] \in Jobs /\ place'[holder[m]] \notin Out THEN Nobody ELSE holder[m]]
      BY <2>3 DEF LosePower, Dies
    <3>2. holder[n] \in Jobs /\ place'[holder[n]] \notin Out
      BY <2>1, <2>3, <3>1
    <3>3. PICK k \in Jobs : k = holder[n]
      BY <3>2
    <3>4. Space(k) /\ Told(k) /\ Name[k] = n
      BY <2>1, <3>3 DEF ExportInv, Sound, Named
    <3>5. ~ (mayBe[k] \subseteq Out) /\ place[k] \in Out
      BY <3>1, <3>2, <3>3, <3>4 DEF Space
    <3>6. row[k] \notin Ends
      BY <3>4, <3>5 DEF Told, Ends
    <3> QED BY <3>1, <3>3, <3>6
  <2> QED BY <2>2, <2>3
<1>2. ExportInv /\ [Next]_vars => [Kept]_vars
  BY <1>1
<1>3. Spec => [][Kept]_vars
  BY <1>2, ExportsInvariant, PTL DEF Spec
<1> QED BY <1>3 DEF DestinationIsKept
============================================================================
