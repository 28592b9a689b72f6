------------------------------ MODULE SyncPush ------------------------------
(***************************************************************************)
(* POST /sync/push: what a write handler executes between begin and        *)
(* finish of Idempotency.                                                  *)
(*                                                                         *)
(* A push carries operations that the handler applies one after the other. *)
(* An upsert looks for a tombstone, reads the current row, arbitrates,     *)
(* journals the version that is going to be lost, inserts, and updates     *)
(* when the identifier is taken; a delete counts the references, then      *)
(* removes the row and writes its tombstone in one transaction.  Each of   *)
(* these is a statement (or a transaction) of its own, and the handlers of *)
(* all devices interleave between them.  A statement that fails ends the   *)
(* push with 500 and leaves the earlier operations applied.                *)
(*                                                                         *)
(* Versions are instants of the database clock.  `clock' counts the writes,*)
(* so that two writes never bear the same version.                         *)
(***************************************************************************)
EXTENDS Idempotency, Sequences

CONSTANTS
  Entity,       \* (type, identifier) pairs
  KindOf,       \* the type of an entity
  Name,         \* the contents an upsert may carry, NoName when it is invalid
  Home,
  HomeOf,       \* the household of the sender of a request
  InitialRows,
  NoName, NoEntity,
  Retention,    \* days tombstones and journal entries are kept
  LastDay,      \* bound: the last day
  MaxSends      \* bound: how often each request reaches a server

Kind == {"category", "payer", "payment_method", "subscription"}
Status == {"applied", "rejected"}

\* base is the version the sender started from, 0 when it gives none.
Operation == [op: {"upsert", "delete"}, ent: Entity, name: Name \cup {NoName},
              ref: Entity \cup {NoEntity}, base: Nat]

\* born: when the insertion that made the row looked for a tombstone (history).
StoredRow == [home: Home, name: Name, ref: Entity \cup {NoEntity}, ver: Nat \ {0}, born: Nat]
NoRow == [home |-> NoEntity, name |-> NoName, ref |-> NoEntity, ver |-> 0, born |-> 0]
EntityRow == StoredRow \cup {NoRow}

Stone == [home: Home, ent: Entity, at: Nat, day: 0..LastDay]
Loss == [home: Home, ent: Entity, reason: {"overwritten", "deleted_remotely"},
         name: Name \cup {NoName}, ver: Nat, day: 0..LastDay]

ASSUME PushAssumption ==
  /\ KindOf \in [Entity -> Kind]
  /\ HomeOf \in [Request -> Home]
  /\ \A r \in Request : BodyOf[r] \in Seq(Operation)
  /\ \A r \in Request : [1..Len(BodyOf[r]) -> Status] \subseteq Result
  /\ NoName \notin Name /\ NoEntity \notin Entity \cup Home
  /\ InitialRows \in [Entity -> EntityRow]
  /\ \A e \in Entity : InitialRows[e].ver \in {0, 1} /\ InitialRows[e].born = 0
  /\ Retention \in Nat /\ LastDay \in Nat /\ MaxSends \in [Request -> Nat]

VARIABLES
  rows,      \* the entity tables
  stones,    \* tombstones
  journal,   \* conflict_journal
  clock,
  today,
  work,      \* where each handler is in its batch
  sends

store == <<rows, stones, journal, clock>>
pushVars == <<rows, stones, journal, clock, today, work, sends>>
allVars == <<keyVars, pushVars>>

OpPoint == {"none", "stone", "current", "reject", "journal", "create", "update",
            "count", "delete", "respond"}

\* i: the operation in progress; deleted, seen: what was read, at looked and readAt.
Work == [i: Nat, step: OpPoint, deleted: BOOLEAN, looked: Nat, seen: EntityRow,
         readAt: Nat, results: Seq(Status)]

Rest == [i |-> 0, step |-> "none", deleted |-> FALSE, looked |-> 0, seen |-> NoRow,
         readAt |-> 0, results |-> <<>>]

PushTypeOK ==
  /\ rows \in [Entity -> EntityRow]
  /\ stones \subseteq Stone
  /\ journal \subseteq Loss
  /\ clock \in Nat
  /\ today \in 0..LastDay
  /\ work \in [Handler -> Work]
  /\ sends \in [Request -> Nat]

PushInit ==
  /\ KeysInit
  /\ rows = InitialRows
  /\ stones = {}
  /\ journal = {}
  /\ clock = 1
  /\ today = 0
  /\ work = [h \in Handler |-> Rest]
  /\ sends = [r \in Request |-> 0]

-----------------------------------------------------------------------------
(* The batch.                                                              *)

Exists(row) == row.ver > 0

\* Only categories and payers are protected by a count of their references.
Counted(e) == KindOf[e] \in {"category", "payer"}

FirstStep(ops, i) ==
  IF i > Len(ops) THEN "respond"
  ELSE IF ops[i].op = "upsert" THEN "stone"
  ELSE IF Counted(ops[i].ent) THEN "count" ELSE "delete"

Op(h) == BodyAt(h)[work[h].i]
Sender(h) == HomeOf[handler[h].req]
Working(h, step) == At(h, "exec") /\ work[h].step = step

Continue(h, step) == work' = [work EXCEPT ![h].step = step]

\* The result of the operation is noted and the next one starts.
Conclude(h, status) ==
  work' = [work EXCEPT ![h] =
    [Rest EXCEPT !.i = work[h].i + 1, !.step = FirstStep(BodyAt(h), work[h].i + 1),
                 !.results = Append(work[h].results, status)]]

\* Category names are unique in their household, by an index.
NameTaken(e, home, name) ==
  /\ KindOf[e] = "category"
  /\ \E f \in Entity \ {e} : KindOf[f] = "category" /\ rows[f].home = home /\ rows[f].name = name

\* Mutant: the statements go by the identifier alone.
OwnedMutant(row, home) == Exists(row)

\* The sender's household guards every statement on an entity.
Owned(row, home) == row.home = home

\* Only subscriptions refer to other entities.
NewRow(op, home, born) ==
  [home |-> home, name |-> op.name, ver |-> clock + 1, born |-> born,
   ref |-> IF KindOf[op.ent] = "subscription" THEN op.ref ELSE NoEntity]

CheckStone(h) ==
  /\ Working(h, "stone")
  /\ work' = [work EXCEPT ![h].step = "current", ![h].looked = clock,
       ![h].deleted = \E st \in stones : st.ent = Op(h).ent /\ st.home = Sender(h)]
  /\ UNCHANGED <<keyVars, store, today, sends>>

\* Mutant: a base is compared with the wrong side.
ArbitrateStaleMutant(base, current, deleted) ==
  IF deleted THEN "reject" ELSE IF base > current.ver THEN "journal" ELSE "create"

\* Deletion wins; else a base that is not the current version is an overwrite.
Arbitrate(base, current, deleted) ==
  IF deleted THEN "reject"
  ELSE IF base # 0 /\ Exists(current) /\ base # current.ver THEN "journal"
  ELSE "create"

ReadCurrent(h) ==
  LET row == IF Owned(rows[Op(h).ent], Sender(h)) THEN rows[Op(h).ent] ELSE NoRow
  IN /\ Working(h, "current")
     /\ work' = [work EXCEPT ![h].seen = row, ![h].readAt = clock,
                             ![h].step = Arbitrate(Op(h).base, row, work[h].deleted)]
     /\ UNCHANGED <<keyVars, store, today, sends>>

Journal(h, reason, name, ver) ==
  journal' = journal \cup {[home |-> Sender(h), ent |-> Op(h).ent, reason |-> reason,
                            name |-> name, ver |-> ver, day |-> today]}

\* The incoming content is journalled and rejected.
RejectDeleted(h) ==
  /\ Working(h, "reject")
  /\ Journal(h, "deleted_remotely", Op(h).name, 0)
  /\ Conclude(h, "rejected")
  /\ UNCHANGED <<keyVars, rows, stones, clock, today, sends>>

JournalOverwritten(h) ==
  /\ Working(h, "journal")
  /\ Journal(h, "overwritten", work[h].seen.name, work[h].seen.ver)
  /\ Continue(h, "create")
  /\ UNCHANGED <<keyVars, rows, stones, clock, today, sends>>

Valid(op) == op.name # NoName

\* The payload is validated after the arbitration.
Invalid(h) ==
  /\ Working(h, "create") /\ ~Valid(Op(h))
  /\ Conclude(h, "rejected")
  /\ UNCHANGED <<keyVars, store, today, sends>>

\* insert: the identifier may be taken, in any household, or else the name.
Create(h) ==
  LET e == Op(h).ent
  IN /\ Working(h, "create") /\ Valid(Op(h))
     /\ \/ /\ Exists(rows[e])
           /\ Continue(h, "update")
           /\ UNCHANGED <<rows, clock>>
        \/ /\ ~Exists(rows[e]) /\ NameTaken(e, Sender(h), Op(h).name)
           /\ Conclude(h, "rejected")
           /\ UNCHANGED <<rows, clock>>
        \/ /\ ~Exists(rows[e]) /\ ~NameTaken(e, Sender(h), Op(h).name)
           /\ rows' = [rows EXCEPT ![e] = NewRow(Op(h), Sender(h), work[h].looked)]
           /\ clock' = clock + 1
           /\ Conclude(h, "applied")
     /\ UNCHANGED <<keyVars, stones, journal, today, sends>>

\* update ... where id and household_id: nothing to update is a rejection.
Update(h) ==
  LET e == Op(h).ent
      mine == Exists(rows[e]) /\ Owned(rows[e], Sender(h))
  IN /\ Working(h, "update")
     /\ \/ /\ mine /\ ~NameTaken(e, Sender(h), Op(h).name)
           /\ rows' = [rows EXCEPT ![e] = NewRow(Op(h), rows[e].home, rows[e].born)]
           /\ clock' = clock + 1
           /\ Conclude(h, "applied")
        \/ /\ ~mine \/ NameTaken(e, Sender(h), Op(h).name)
           /\ Conclude(h, "rejected")
           /\ UNCHANGED <<rows, clock>>
     /\ UNCHANGED <<keyVars, stones, journal, today, sends>>

InUse(e, home) == \E f \in Entity : rows[f].home = home /\ rows[f].ref = e

CountReferences(h) ==
  /\ Working(h, "count")
  /\ IF InUse(Op(h).ent, Sender(h)) THEN Conclude(h, "rejected") ELSE Continue(h, "delete")
  /\ UNCHANGED <<keyVars, store, today, sends>>

\* The row goes and its tombstone is written, or refreshed, in one transaction.
Bury(e, home) ==
  {st \in stones : ~(st.ent = e /\ st.home = home)}
    \cup {[home |-> home, ent |-> e, at |-> clock + 1, day |-> today]}

DeleteRow(h) ==
  LET e == Op(h).ent
  IN /\ Working(h, "delete")
     /\ IF Exists(rows[e]) /\ Owned(rows[e], Sender(h))
        THEN /\ rows' = [rows EXCEPT ![e] = NoRow]
             /\ stones' = Bury(e, Sender(h))
             /\ clock' = clock + 1
        ELSE UNCHANGED <<rows, stones, clock>>
     /\ Conclude(h, "applied")
     /\ UNCHANGED <<keyVars, journal, today, sends>>

-----------------------------------------------------------------------------
(* The handler around the batch.                                           *)

\* The place in the batch is of no use once the execution has ended.
Tidy(h) ==
  work' = IF handler'[h].pc \in {"idle", "finish", "abort"} THEN [work EXCEPT ![h] = Rest] ELSE work

Arrive(h, r) ==
  /\ Receive(h, r)
  /\ sends[r] < MaxSends[r]
  /\ sends' = [sends EXCEPT ![r] = @ + 1]
  /\ work' = [work EXCEPT ![h] = [Rest EXCEPT !.i = 1, !.step = FirstStep(BodyOf[r], 1)]]
  /\ UNCHANGED <<store, today>>

Respond(h) ==
  /\ Working(h, "respond")
  /\ Succeed(h, work[h].results)
  /\ Tidy(h)
  /\ UNCHANGED <<store, today, sends>>

\* Mutant: the reservation is forgotten.
PushFailsMutant(h) ==
  /\ At(h, "exec")
  /\ End(h)
  /\ Tidy(h)
  /\ UNCHANGED <<keys, answers, effects, lost, faults, store, today, sends>>

\* A statement of the batch fails, or takes effect and only its report is lost (after
\* the last one this is the failure at "respond"): what was applied stays.
PushFails(h) ==
  /\ Fail(h)
  /\ Tidy(h)
  /\ UNCHANGED <<store, today, sends>>

Bracket(h) ==
  /\ KeyStep(h) \/ KeyFault(h) \/ Cut(h)
  /\ Tidy(h)
  /\ UNCHANGED <<store, today, sends>>

OpStep(h) ==
  \/ CheckStone(h)
  \/ ReadCurrent(h)
  \/ RejectDeleted(h)
  \/ JournalOverwritten(h)
  \/ Invalid(h)
  \/ Create(h)
  \/ Update(h)
  \/ CountReferences(h)
  \/ DeleteRow(h)

-----------------------------------------------------------------------------
(* Time and maintenance.                                                   *)

Grow(s) == Age(s) /\ UNCHANGED pushVars

\* A push does not last until the next day.
NextDay ==
  /\ today < LastDay
  /\ \A h \in Handler : At(h, "idle")
  /\ today' = today + 1
  /\ UNCHANGED <<keyVars, store, work, sends>>

\* Mutant: the day at the cutoff goes too.
OutdatedMutant(day) == day <= today - Retention

Outdated(day) == day < today - Retention

\* GET /sync/tombstones purges before it lists, for all households.
PurgeStones ==
  /\ \E st \in stones : Outdated(st.day)
  /\ stones' = {st \in stones : ~Outdated(st.day)}
  /\ UNCHANGED <<keyVars, rows, journal, clock, today, work, sends>>

\* GET /sync/conflicts does the same for the journal.
PurgeJournal ==
  /\ \E l \in journal : Outdated(l.day)
  /\ journal' = {l \in journal : ~Outdated(l.day)}
  /\ UNCHANGED <<keyVars, rows, stones, clock, today, work, sends>>

PushNext ==
  \/ \E h \in Handler, r \in Request : Arrive(h, r)
  \/ \E h \in Handler : Bracket(h) \/ OpStep(h) \/ Respond(h) \/ PushFails(h)
  \/ \E s \in Slot : Grow(s)
  \/ NextDay
  \/ PurgeStones
  \/ PurgeJournal

PushSpec == PushInit /\ [][PushNext]_allVars

-----------------------------------------------------------------------------
(* Properties.                                                             *)

\* While a deletion is remembered, no upsert that looked for it brings the entity back:
\* an entity that lives beside its tombstone was inserted by a push that had looked
\* before the deletion.
DeletionWins ==
  \A st \in stones : Owned(rows[st.ent], st.home) => rows[st.ent].born < st.at

\* From its arrival to the end of its execution a request has a place in its batch.
Begun(h) == handler[h].pc \in {"insert", "select", "reclaim", "exec"}

PlacedAt(h) == Begun(h) =>
  /\ work[h].i \in 1..(Len(BodyAt(h)) + 1)
  /\ Len(work[h].results) = work[h].i - 1
  /\ work[h].step # "none"
  /\ work[h].step = "respond" <=> work[h].i = Len(BodyAt(h)) + 1
  /\ work[h].step = "update" => Valid(Op(h))

\* An upsert that found no tombstone looked before every tombstone there is now.
Undeleted(h) ==
  \/ work[h].step \in {"journal", "create", "update"}
  \/ work[h].step = "current" /\ ~work[h].deleted

RememberedAt(h) == Begun(h) /\ Undeleted(h) =>
  /\ work[h].looked <= clock
  /\ \A st \in stones : st.ent = Op(h).ent /\ st.home = Sender(h) => work[h].looked < st.at

\* What an upsert has read is still the row, or the row was written since; and if its
\* base is another version, the version it read is in the journal before it writes.
Noted(h) ==
  \E l \in journal : l.ent = Op(h).ent /\ l.ver = work[h].seen.ver /\ l.home = Sender(h) /\ l.day = today

ComparedAt(h) == Begun(h) /\ work[h].step \in {"journal", "create", "update"} =>
  LET row == rows[Op(h).ent]
      seen == work[h].seen
  IN /\ work[h].readAt <= clock
     /\ row = seen \/ row.ver > work[h].readAt \/ ~Owned(row, Sender(h))
     /\ work[h].step = "journal" \/ Op(h).base \in {0, seen.ver} \/ ~Exists(seen) \/ Noted(h)

Placed ==
  /\ handler \in [Handler -> HandlerState]
  /\ \A h \in Handler : (~At(h, "idle") => handler[h].req \in Request) /\ PlacedAt(h)

\* The inductive invariant of the push.
PushInvariant ==
  /\ PushTypeOK /\ Placed /\ DeletionWins
  /\ \A h \in Handler : RememberedAt(h) /\ ComparedAt(h)

\* A version that an upsert overwrites although it started from another one is in the
\* journal, unless it was written after the upsert had read the current version.
OverwriteJournalled ==
  [][\A h \in Handler :
       LET e == Op(h).ent IN
       Working(h, "update") /\ rows'[e] # rows[e] /\ work'[h] # work[h] =>
         \/ Op(h).base \in {0, rows[e].ver}
         \/ \E l \in journal : l.ent = e /\ l.ver = rows[e].ver /\ l.home = rows[e].home
         \/ rows[e].ver > work[h].readAt]_allVars

\* A push changes the rows of its sender's household only, whatever identifiers it
\* carries, and adds tombstones and journal entries there only.
HomesIsolated ==
  [][\A h \in Handler : work'[h] # work[h] =>
       /\ \A e \in Entity : rows'[e] # rows[e] =>
            rows[e].home \in {Sender(h), NoEntity} /\ rows'[e].home \in {Sender(h), NoEntity}
       /\ \A x \in (stones' \ stones) \cup (journal' \ journal) : x.home = Sender(h)]_allVars
=============================================================================
