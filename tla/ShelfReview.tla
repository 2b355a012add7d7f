----------------------------- MODULE ShelfReview -----------------------------
(***************************************************************************)
(* crates/librairii-storage/src/shelves.rs and shelves/: shelves, which    *)
(* collect stories by hand and from saved searches ("collections"), and    *)
(* the reviews a person confirms before a shelf is changed.  A review is a *)
(* snapshot and a ticket; applying it spends the ticket and evaluates the  *)
(* shelf again in the transaction that writes.  SQLite gives the number of *)
(* a deleted last row to the next one, so a number and a revision do not   *)
(* say which shelf was reviewed: the deletion kills the tickets of the     *)
(* shelf instead.                                                          *)
(*                                                                         *)
(* Every transaction runs on the one writer thread and is one step; the    *)
(* previews of reader threads are two.  Names, titles, positions and       *)
(* origins are left out: the fingerprint here tells less apart than the    *)
(* code's, so whatever the code applies the model may apply too.           *)
(***************************************************************************)
EXTENDS Naturals, FiniteSets, FiniteSetsExt, Sequences

CONSTANTS
    Stories,
    Collections,
    MaxShelves,    \* bound: shelf rows at one time
    Limit,         \* LIMIT, the tickets the registry holds
    MaxTickets,    \* bound: reviews
    MaxWrites,     \* bound: transactions
    MaxFaults,     \* bound: transactions that do not commit cleanly
    MaxOpens       \* bound: runtimes after the first

ASSUME ShelfAssumption ==
    /\ MaxShelves \in Nat \ {0} /\ Limit \in Nat \ {0}
    /\ MaxTickets \in Nat /\ MaxWrites \in Nat
    /\ MaxFaults \in Nat /\ MaxOpens \in Nat

Ids == 1..MaxShelves

VARIABLES
    shelf,         \* the rows of a shelf, by its number
    lives,         \* shelves inserted so far; gives every row its lifetime
    collections,   \* rows of collections
    matches,       \* stories the criteria of each collection select
    attention,     \* collections that cannot be evaluated
    available,     \* stories with an archive
    tickets,       \* every ticket issued, with the plan that holds it
    registry,      \* Registry.tickets, in the order of their numbers
    expired,       \* tickets older than LIFETIME; they age in order
    reading,       \* the preview being made, or NoReading
    runtime,       \* the runtime the library is open in; SnapshotIdentity
    fenced,        \* Database.fenced
    writes,
    faults

rows == <<shelf, lives, collections>>
world == <<matches, attention, available>>
reviews == <<tickets, registry, expired, reading>>
shelfVars == <<rows, world, reviews, runtime, fenced, writes, faults>>

NoShelf == [life |-> 0, revision |-> 0, members |-> {}, kept |-> {},
            excluded |-> {}, sources |-> {}]

(* A row as insert leaves it.                                              *)
NewShelf(life) == [NoShelf EXCEPT !.life = life, !.revision = 1]

Exists(i) == shelf[i].life # 0
Rows == {i \in Ids: Exists(i)}

(* INTEGER PRIMARY KEY without AUTOINCREMENT: one more than the largest.   *)
NextId == Max(Rows \cup {0}) + 1

NoReading == [kind |-> "none"]

Kinds == {"create", "update", "sources", "delete", "curation"}

----------------------------------------------------------------------------
(* sources::evaluate and the previews.                                     *)

(* domain_attention: a source that cannot be evaluated.                    *)
Attention(c) == c \in attention \/ c \notin collections

(* The stories one of the sources selects.                                 *)
Matching(sources) ==
    UNION {matches[c] \cap available: c \in {c \in sources: ~Attention(c)}}

Incomplete(sources) == \E c \in sources: Attention(c)

(* review::evaluation: what an update offers to add.                       *)
Additions(row) == Matching(row.sources) \ (row.members \cup row.excluded)

(* Variant: a source that cannot be evaluated counts as selecting nothing. *)
RemovalsWhenIncomplete(row) ==
    IF row.sources = {} THEN {}
    ELSE (row.members \cap available) \ (row.kept \cup Matching(row.sources))

(* review::evaluation: what an update offers to remove.                    *)
Removals(row) ==
    IF row.sources = {} \/ Incomplete(row.sources) THEN {}
    ELSE (row.members \cap available) \ (row.kept \cup Matching(row.sources))

(* source_change::evaluate: members that lose their last source.           *)
Affected(row, desired) ==
    IF row.sources \subseteq desired THEN {}
    ELSE row.members \ (row.kept \cup Matching(desired))

(* source_change::validate: the members a person may let go.               *)
Removable(row, desired) ==
    IF Incomplete(desired) THEN {} ELSE Affected(row, desired) \cap available

(* The shelves whose sources name the collection.                          *)
Linked(c) == {i \in Rows: c \in shelf[i].sources}

(* What the review of a plan shows: the rows of its shelves, and what its  *)
(* sources come to.                                                        *)
View(kind, target, desired) ==
    LET shown == CASE kind = "create" -> {}
                   [] kind = "delete" -> Linked(target)
                   [] OTHER -> {target}
        sources == desired \cup UNION {shelf[i].sources: i \in shown}
        stories == Matching(sources) \cup UNION {shelf[i].members: i \in shown}
    IN [shelves |-> [i \in shown |-> shelf[i]],
        sources |-> [c \in sources |->
                        IF Attention(c) THEN {} ELSE matches[c] \cap available],
        unfit |-> {c \in sources: Attention(c)},
        available |-> available \cap stories]

(* What is compared when a plan is applied: the revision for a curation,   *)
(* otherwise the fingerprint of all that was shown; never the lifetime.    *)
Covered(kind, view) ==
    IF kind = "curation"
    THEN [i \in DOMAIN view.shelves |-> view.shelves[i].revision]
    ELSE [view EXCEPT !.shelves =
            [i \in DOMAIN view.shelves |-> [view.shelves[i] EXCEPT !.life = 0]]]

----------------------------------------------------------------------------
(* Tickets.                                                                *)

Expired(t) == t <= expired

(* A ticket that a claim would still accept.                               *)
Claimable(t) ==
    /\ tickets[t].live /\ ~Expired(t)
    /\ tickets[t].runtime = runtime

(* What was shown with a ticket that is dead is of no further use.         *)
Dead(ticket) ==
    [kind |-> "none", target |-> 0, desired |-> {}, manual |-> {},
     seen |-> [shelves |-> <<>>], runtime |-> 0,
     live |-> FALSE, claims |-> ticket.claims]

Killed(ts) ==
    [t \in DOMAIN tickets |->
        IF t \in ts THEN Dead(tickets[t]) ELSE tickets[t]]

(* The oldest tickets give way to a new one; they are numbered as issued.  *)
Evicted(valid) == {t \in valid: Cardinality({u \in valid: u >= t}) >= Limit}

(* Registry::issue_at.                                                     *)
Issue(ticket) ==
    LET valid == {t \in registry: tickets[t].live /\ ~Expired(t)}
        kept == valid \ Evicted(valid)
    IN /\ tickets' = Append(Killed(registry \ kept), ticket)
       /\ registry' = kept \cup {Len(tickets) + 1}

(* The tickets of the registry that show the shelf.                        *)
Showing(i) == {t \in registry: i \in DOMAIN tickets[t].seen.shelves}

(* Variant: a deleted shelf keeps its tickets.                             *)
InvalidateNothing(i) == UNCHANGED <<tickets, registry>>

(* tickets::invalidate_shelf.                                              *)
Invalidate(i) ==
    /\ tickets' = Killed(Showing(i))
    /\ registry' = registry \ Showing(i)

----------------------------------------------------------------------------
(* Transactions.                                                           *)

(* Database::writer_read and Database::read.                               *)
OnWriter(kind) == kind \in Kinds \ {"create"}

(* An ordinary transaction is admitted and its turn has come.              *)
Write ==
    /\ ~fenced
    /\ ~OnWriter(reading.kind)
    /\ writes < MaxWrites
    /\ writes' = writes + 1
    /\ UNCHANGED <<world, expired, reading, runtime>>

(* Cancelled before the commit, or failed and rolled back; or an uncertain *)
(* commit, after which the runtime is fenced.                              *)
Spoiled(happened) ==
    /\ faults < MaxFaults
    /\ faults' = faults + 1
    /\ fenced' \in (IF happened THEN {TRUE} ELSE BOOLEAN)

(* The outcomes of a transaction that would leave these rows.              *)
Commit(newShelf, newLives, newCollections) ==
    \/ /\ shelf' = newShelf /\ lives' = newLives
       /\ collections' = newCollections
       /\ UNCHANGED <<fenced, faults>> \/ Spoiled(TRUE)
    \/ UNCHANGED rows /\ Spoiled(FALSE)

(* bump: the revision moves when something did.                            *)
Bumped(old, new) ==
    IF new = old THEN old ELSE [new EXCEPT !.revision = @ + 1]

Put(i, row) == [shelf EXCEPT ![i] = row]

(* Insertion of a row like `row' under the next number.                    *)
Insert(row) ==
    /\ NextId \in Ids
    /\ Commit(Put(NextId, [row EXCEPT !.life = lives + 1, !.revision = 1]),
              lives + 1, collections)

Change(i, row) == Commit(Put(i, Bumped(shelf[i], row)), lives, collections)

----------------------------------------------------------------------------
(* Changes without a review: edit_shelves, curate_shelf,                   *)
(* attach_shelf_sources and the deletion of a collection without links.    *)

CreateShelf ==
    /\ Write
    /\ Insert(NoShelf)
    /\ UNCHANGED <<tickets, registry>>

(* Rename, and a new order of the members: only the revision moves.        *)
Touch(i) ==
    /\ Write /\ Exists(i)
    /\ Commit(Put(i, [shelf[i] EXCEPT !.revision = @ + 1]), lives, collections)
    /\ UNCHANGED <<tickets, registry>>

Duplicate(i) ==
    /\ Write /\ Exists(i)
    /\ Insert(shelf[i])
    /\ UNCHANGED <<tickets, registry>>

(* The tickets die even if the transaction does not commit.                *)
DeleteShelf(i) ==
    /\ Write /\ Exists(i)
    /\ Commit(Put(i, NoShelf), lives, collections)
    /\ Invalidate(i)

(* curation::curate and add_shelf_stories_guarded: the row each action     *)
(* would leave, if the action is accepted.                                 *)
AddTo(row, ss) ==
    [row EXCEPT !.members = @ \cup ss, !.kept = @ \cup ss, !.excluded = @ \ ss]
ExcludeFrom(row, ss) == [row EXCEPT !.excluded = @ \cup ss]
RemoveFrom(row, ss) == [row EXCEPT !.members = @ \ ss, !.kept = @ \ ss]

Curations(row) ==
    {AddTo(row, ss): ss \in SUBSET available}
      \cup {ExcludeFrom(row, ss): ss \in SUBSET Stories}
      \cup {[row EXCEPT !.excluded = @ \ {s}]: s \in Stories}
      \cup UNION {{RemoveFrom(row, ss), ExcludeFrom(RemoveFrom(row, ss), ss)}:
                     ss \in SUBSET (row.members \cup row.excluded)}

Curate(i) ==
    /\ Write /\ Exists(i)
    /\ \E row \in Curations(shelf[i]): row # shelf[i] /\ Change(i, row)
    /\ UNCHANGED <<tickets, registry>>

AttachSources(i, cs) ==
    /\ Write /\ Exists(i)
    /\ cs \subseteq collections /\ ~ cs \subseteq shelf[i].sources
    /\ Change(i, [shelf[i] EXCEPT !.sources = @ \cup cs])
    /\ UNCHANGED <<tickets, registry>>

(* collections::execute refuses a collection with an active link.          *)
DeleteCollection(c) ==
    /\ Write /\ c \in collections /\ Linked(c) = {}
    /\ Commit(shelf, lives, collections \ {c})
    /\ UNCHANGED <<tickets, registry>>

----------------------------------------------------------------------------
(* Previews.                                                               *)

(* The rows are read; the writer is held until the ticket is issued.       *)
Look(kind, target, desired, manual) ==
    /\ ~fenced
    /\ reading = NoReading
    /\ Len(tickets) < MaxTickets /\ writes < MaxWrites
    /\ desired \subseteq collections /\ manual \subseteq available
    /\ CASE kind = "create" -> target = 0
         [] kind = "delete" -> target \in collections /\ desired = {}
         [] OTHER -> target \in Rows
    /\ kind # "create" => manual = {}
    /\ kind \in {"update", "curation"} => desired = {}
    /\ reading' = [kind |-> kind, target |-> target, desired |-> desired,
                   manual |-> manual, seen |-> View(kind, target, desired)]
    /\ UNCHANGED <<rows, world, tickets, registry, expired, runtime, fenced,
                   writes, faults>>

(* The plan is complete: shelf_curation_snapshot and the previews.         *)
Answer ==
    /\ reading # NoReading
    /\ Issue([kind |-> reading.kind, target |-> reading.target,
              desired |-> reading.desired, manual |-> reading.manual,
              seen |-> reading.seen, runtime |-> runtime,
              live |-> TRUE, claims |-> 0])
    /\ reading' = NoReading
    /\ UNCHANGED <<rows, world, expired, runtime, fenced, writes, faults>>

----------------------------------------------------------------------------
(* Reviewed changes.                                                       *)

(* Ticket::claim: the swap.                                                *)
Spent(ticket) == [Dead(ticket) EXCEPT !.claims = @ + 1]

Claim(t) == tickets' = [tickets EXCEPT ![t] = Spent(@)]

SameRuntime(t) == tickets[t].runtime = runtime

(* A plan is handed in, admitted, and its ticket accepted.  A claim that   *)
(* is refused changes nothing.                                             *)
Admit(t, kind) ==
    /\ Write
    /\ tickets[t].kind = kind
    /\ SameRuntime(t)
    /\ tickets[t].live /\ ~Expired(t)

(* Nothing that is compared has changed since the review.                  *)
Fresh(t) ==
    LET p == tickets[t]
    IN Covered(p.kind, View(p.kind, p.target, p.desired))
         = Covered(p.kind, p.seen)

(* The ticket is spent and the transaction refuses (StaleReview,           *)
(* InvalidInput, NotFound).                                                *)
Refuse(t) ==
    /\ \E kind \in Kinds: Admit(t, kind)
    /\ Claim(t)
    /\ UNCHANGED <<rows, registry, fenced, faults>>

(* apply_shelf_updates, with a decision for any of the candidates.         *)
ApplyUpdate(t) ==
    /\ Admit(t, "update") /\ Fresh(t)
    /\ LET i == tickets[t].target
           row == shelf[i]
       IN \E add \in SUBSET Additions(row), drop \in SUBSET Removals(row):
            \E exclude \in SUBSET (Additions(row) \ add),
               keep \in SUBSET (Removals(row) \ drop):
              Change(i, [row EXCEPT !.members = (@ \cup add) \ drop,
                                    !.kept = @ \cup keep,
                                    !.excluded = @ \cup exclude \cup drop])
    /\ Claim(t)
    /\ UNCHANGED registry

(* Variant: only the members a decision names are kept.                    *)
DetachedKeepsNothing(row, desired, drop) ==
    [row EXCEPT !.sources = desired,
                !.members = @ \ drop,
                !.kept = @ \ drop,
                !.excluded = @ \cup drop]

(* source_change::apply: what is affected and not dropped is kept, and a   *)
(* shelf without sources keeps all.                                        *)
Detached(row, desired, drop) ==
    [row EXCEPT !.sources = desired,
                !.members = @ \ drop,
                !.kept = IF desired = {} THEN row.members \ drop
                         ELSE (@ \cup Affected(row, desired)) \ drop,
                !.excluded = @ \cup drop]

(* change_shelf_sources.                                                   *)
ApplySources(t) ==
    /\ Admit(t, "sources") /\ Fresh(t)
    /\ tickets[t].desired \subseteq collections
    /\ LET i == tickets[t].target
           desired == tickets[t].desired
       IN \E drop \in SUBSET Removable(shelf[i], desired):
            Change(i, Detached(shelf[i], desired, drop))
    /\ Claim(t)
    /\ UNCHANGED registry

(* delete_linked_collection: every linked shelf is detached, then the      *)
(* collection is deleted, in one transaction.                              *)
ApplyDeleteCollection(t) ==
    LET c == tickets[t].target
        Left(i) == shelf[i].sources \ {c}
    IN /\ Admit(t, "delete") /\ Fresh(t)
       /\ c \in collections
       /\ \E drop \in [Linked(c) -> SUBSET Stories]:
            /\ \A i \in Linked(c):
                 drop[i] \subseteq Removable(shelf[i], Left(i))
            /\ Commit([i \in Ids |->
                         IF i \in Linked(c)
                         THEN Bumped(shelf[i],
                                     Detached(shelf[i], Left(i), drop[i]))
                         ELSE shelf[i]],
                      lives, collections \ {c})
       /\ Claim(t)
       /\ UNCHANGED registry

(* create_shelf_reviewed.                                                  *)
ApplyCreate(t) ==
    /\ Admit(t, "create") /\ Fresh(t)
    /\ tickets[t].desired \subseteq collections
    /\ tickets[t].manual \subseteq available
    /\ \E chosen \in SUBSET (tickets[t].manual
                                 \cup Matching(tickets[t].desired)):
         Insert([NoShelf EXCEPT !.members = chosen,
                                !.kept = chosen \cap tickets[t].manual,
                                !.sources = tickets[t].desired])
    /\ Claim(t)
    /\ UNCHANGED registry

(* curate_shelf_reviewed.                                                  *)
ApplyCuration(t) ==
    /\ Admit(t, "curation") /\ Fresh(t)
    /\ LET i == tickets[t].target
       IN \E row \in Curations(shelf[i]): Change(i, row)
    /\ Claim(t)
    /\ UNCHANGED registry

(* duplicate_shelf_reviewed.                                               *)
ApplyDuplicate(t) ==
    /\ Admit(t, "curation") /\ Fresh(t)
    /\ Insert(shelf[tickets[t].target])
    /\ Claim(t)
    /\ UNCHANGED registry

(* delete_shelf_reviewed: the claim, then the deletion kills the others.   *)
ApplyDelete(t) ==
    LET i == tickets[t].target
    IN /\ Admit(t, "curation") /\ Fresh(t)
       /\ Commit(Put(i, NoShelf), lives, collections)
       /\ tickets' = [Killed(Showing(i)) EXCEPT ![t] = Spent(tickets[t])]
       /\ registry' = registry \ Showing(i)

----------------------------------------------------------------------------
(* The rest of the library, the clock, and the runtime.                    *)

(* A collection's criteria, or what they select, change; a story comes or  *)
(* goes.                                                                   *)
Elsewhere ==
    /\ ~fenced /\ ~OnWriter(reading.kind)
    /\ writes < MaxWrites /\ writes' = writes + 1
    /\ \/ \E c \in collections, s \in Stories:
            /\ matches' = [matches EXCEPT ![c] =
                              IF s \in @ THEN @ \ {s} ELSE @ \cup {s}]
            /\ UNCHANGED <<attention, available>>
       \/ \E c \in collections:
            /\ attention' = IF c \in attention THEN attention \ {c}
                                              ELSE attention \cup {c}
            /\ UNCHANGED <<matches, available>>
       \/ \E s \in Stories:
            /\ available' = IF s \in available THEN available \ {s}
                                              ELSE available \cup {s}
            /\ UNCHANGED <<matches, attention>>
    /\ UNCHANGED <<rows, reviews, runtime, fenced, faults>>

(* Fifteen minutes have passed since a ticket was issued.                  *)
Expire ==
    /\ writes < MaxWrites
    /\ \E t \in DOMAIN tickets:
         /\ tickets[t].live /\ ~Expired(t)
         /\ expired' = t
    /\ UNCHANGED <<rows, world, tickets, registry, reading, runtime, fenced,
                   writes, faults>>

(* The library is closed and opened again: another writer, another         *)
(* registry; plans of the last runtime are still in somebody's hands.      *)
Reopen ==
    /\ runtime < MaxOpens /\ writes < MaxWrites
    /\ reading = NoReading
    /\ runtime' = runtime + 1
    /\ fenced' = FALSE
    /\ registry' = {}
    /\ UNCHANGED <<rows, world, tickets, expired, reading, writes, faults>>

(* A shelf that was just created from a review, linked to every            *)
(* collection, with some of the stories these select.                      *)
ShelfInit ==
    /\ matches = [c \in Collections |-> Stories]
    /\ lives = 1
    /\ collections = Collections
    /\ attention = {}
    /\ available = Stories
    /\ \E chosen \in SUBSET Matching(Collections):
         shelf = [i \in Ids |->
                    IF i # 1 THEN NoShelf
                    ELSE [NewShelf(1) EXCEPT !.members = chosen,
                                             !.sources = Collections]]
    /\ tickets = <<>>
    /\ registry = {}
    /\ expired = 0
    /\ reading = NoReading
    /\ runtime = 0
    /\ fenced = FALSE
    /\ writes = 0
    /\ faults = 0

Unreviewed ==
    \/ CreateShelf
    \/ \E i \in Ids: Touch(i) \/ Duplicate(i) \/ DeleteShelf(i) \/ Curate(i)
    \/ \E i \in Ids, cs \in SUBSET Collections: AttachSources(i, cs)
    \/ \E c \in Collections: DeleteCollection(c)

Preview ==
    \/ \E kind \in Kinds, target \in Ids \cup Collections \cup {0},
          desired \in SUBSET Collections, manual \in SUBSET Stories:
         Look(kind, target, desired, manual)
    \/ Answer

Reviewed ==
    \E t \in DOMAIN tickets:
        \/ Refuse(t)
        \/ ApplyUpdate(t) \/ ApplySources(t) \/ ApplyDeleteCollection(t)
        \/ ApplyCreate(t) \/ ApplyCuration(t) \/ ApplyDuplicate(t)
        \/ ApplyDelete(t)

ShelfNext == Unreviewed \/ Preview \/ Reviewed \/ Elsewhere \/ Expire \/ Reopen

ShelfSpec == ShelfInit /\ [][ShelfNext]_shelfVars

----------------------------------------------------------------------------
(* Properties.                                                             *)

(* The step spends the ticket.                                             *)
Spends(t) == tickets'[t].claims > tickets[t].claims

(* What the review of a ticket would show now.                             *)
Now(t) == View(tickets[t].kind, tickets[t].target, tickets[t].desired)

(* A reviewed change is made to the very shelf that was reviewed, not to   *)
(* a later one with its number, and to the rows as they were shown; all    *)
(* but a curation also with sources that still select what they did.       *)
(* Clone plans, other runtimes, deletions that roll back and previews that *)
(* overlap a deletion included.  A plan is good for one attempt, also if   *)
(* that was rolled back or its commit is uncertain (tickets.rs: "rollback/ *)
(* uncertainty requires refresh").                                         *)
ActsOnReview ==
    [][\A t \in DOMAIN tickets:
         Spends(t) /\ rows' # rows =>
            /\ tickets[t].claims = 0
            /\ Now(t).shelves = tickets[t].seen.shelves
            /\ tickets[t].kind # "curation" => Now(t) = tickets[t].seen]_shelfVars

(* No review takes a member off a shelf that somebody added or kept by     *)
(* hand, whose archive is away, that a source of the shelf still selects,  *)
(* or while one of these sources cannot be evaluated.                      *)
NoBlindRemoval ==
    [][\A t \in DOMAIN tickets, i \in Ids:
         Spends(t) /\ tickets[t].kind # "curation"
            /\ shelf'[i].life = shelf[i].life =>
              LET gone == shelf[i].members \ shelf'[i].members
              IN gone # {} =>
                   /\ gone \subseteq available \ shelf[i].kept
                   /\ gone \cap Matching(shelf'[i].sources) = {}
                   /\ ~ Incomplete(shelf'[i].sources)]_shelfVars

(* A shelf without sources is a manual shelf: all its members are kept, so *)
(* that no later source proposes to remove them.                           *)
ManualShelfIsKept ==
    \A i \in Ids: shelf[i].sources = {} => shelf[i].members \subseteq shelf[i].kept

=============================================================================
