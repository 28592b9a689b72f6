----------------------------- MODULE ChangeFeed -----------------------------
(* The change feed of a household: rows stamped with the start of the         *)
(* transaction that wrote them, deletion records, and the pages of both that  *)
(* GET /sync/changes and GET /sync/tombstones serve.                          *)
(* Timestamps are natural numbers; two transactions never start at the same   *)
(* one, but a transaction may write several rows (the first rows have one).   *)
EXTENDS SequencesExt, Sorting

CONSTANTS
  Entities,      \* identifiers, natural numbers: PostgreSQL orders uuids
  Seeds,         \* what may be there at first: the seeded categories, or no row of a table
  Writers,       \* transactions that may be open at once
  Retention,     \* TOMBSTONE_RETENTION_DAYS
  MaxTime,       \* bound on the clock
  MaxVersion     \* bound on the changes of an entity

ASSUME FeedAssumption ==
  /\ IsFiniteSet(Entities) /\ Entities \subseteq Nat /\ Seeds \subseteq SUBSET Entities
  /\ Retention \in Nat /\ MaxTime \in Nat \ {0, 1} /\ MaxVersion \in Nat \ {0}

VARIABLES
  rows,          \* the entity tables: version and updated_at, NoRow when absent
  stones,        \* tombstones: the version they ended and deleted_at, NoRow without
  tx,            \* the open transactions
  clock,
  ask,           \* a request for the deletions: its place and the now it took
  version,       \* history: the changes each entity has had
  purged         \* history: the deletions purged, and the now of the request that did

feedVars == <<rows, stones, tx, clock, ask, version, purged>>

NoRow == [ver |-> 0, ts |-> 0]
NoTx == [kind |-> "none", e |-> 0, ts |-> 0]
NoAsk == [pc |-> "idle", now |-> 0]

FeedInit ==
  /\ \E seeded \in Seeds : rows = [e \in Entities |-> IF e \in seeded THEN [ver |-> 1, ts |-> 1] ELSE NoRow]
  /\ stones = [e \in Entities |-> NoRow]
  /\ tx = [w \in Writers |-> NoTx]
  /\ clock = 2 /\ ask = NoAsk
  /\ version = [e \in Entities |-> rows[e].ver]
  /\ purged = {}

-----------------------------------------------------------------------------
(* The cursor and the pages.                                                 *)

Beginning == [ts |-> 0, id |-> 0]

After(p, q) == p.ts > q.ts \/ (p.ts = q.ts /\ p.id > q.id)

RetentionCutoff(now) == IF now > Retention THEN now - Retention ELSE 0

RequiresFullResyncMutant(ts, now) == ts = 0
RequiresFullResync(ts, now) == ts < RetentionCutoff(now)

Upserts == {[ts |-> rows[e].ts, id |-> e, kind |-> "upsert", ver |-> rows[e].ver] :
              e \in {x \in Entities : rows[x] # NoRow}}
Deletes == {[ts |-> stones[e].ts, id |-> e, kind |-> "delete", ver |-> stones[e].ver] :
              e \in {x \in Entities : stones[x] # NoRow}}

ChangesMutant(after) == {c \in Upserts \union Deletes : c.ts > after.ts}
Changes(after) == {c \in Upserts \union Deletes : After(c, after)}

InOrderMutant(S) ==
  Sorted(S, {pair \in S \X S : pair[1].id < pair[2].id \/ (pair[1].id = pair[2].id /\ pair[1].ts < pair[2].ts)})
InOrder(S) ==
  [k \in 1 .. Cardinality(S) |-> CHOOSE c \in S : Cardinality({d \in S : After(c, d)}) = k - 1]

(* The page after a cursor: one change more than the page tells has_more.    *)
(* The handler takes its now after the rows: a later one announces no less.  *)
GetSyncChanges(cursor, limit) ==
  LET all == InOrder(Changes(cursor))
      page == SubSeq(all, 1, IF Len(all) > limit THEN limit ELSE Len(all))
  IN [changes |-> page,
      next |-> IF page = <<>> THEN cursor ELSE [ts |-> Last(page).ts, id |-> Last(page).id],
      more |-> Len(all) > limit,
      full |-> RequiresFullResync(cursor.ts, clock)]

(* The deletions after an instant, absent ones being 0, as the request that   *)
(* took this now answers them when it lists.                                  *)
GetTombstones(since, now) ==
  [tombstones |-> {c \in Deletes : c.ts > since},
   full |-> since = 0 \/ RequiresFullResync(since, now)]

-----------------------------------------------------------------------------
(* Writes: a statement, or a transaction, stamps what it writes with its     *)
(* start and becomes visible when it commits.                                *)

Free == {w \in Writers : tx[w] = NoTx}

Begin ==
  /\ Free # {} /\ clock < MaxTime
  /\ \E kind \in {"create", "update", "delete"}, e \in Entities :
       /\ (kind = "create") = (rows[e] = NoRow)
       /\ tx' = [tx EXCEPT ![CHOOSE w \in Free : TRUE] = [kind |-> kind, e |-> e, ts |-> clock]]
  /\ clock' = clock + 1
  /\ UNCHANGED <<rows, stones, ask, version, purged>>

(* The deletion and its record are one transaction.                          *)
Record(t) == [stones EXCEPT ![t.e] = [ver |-> version[t.e] + 1, ts |-> t.ts]]

Commit(w) ==
  LET t == tx[w] IN
  /\ t # NoTx /\ version[t.e] < MaxVersion
  /\ (t.kind = "create") = (rows[t.e] = NoRow)
  /\ version' = [version EXCEPT ![t.e] = @ + 1]
  /\ IF t.kind = "delete"
     THEN /\ rows' = [rows EXCEPT ![t.e] = NoRow]
          /\ stones' = Record(t)
     ELSE /\ rows' = [rows EXCEPT ![t.e] = [ver |-> version[t.e] + 1, ts |-> t.ts]]
          /\ UNCHANGED stones
  /\ tx' = [tx EXCEPT ![w] = NoTx]
  /\ UNCHANGED <<clock, ask, purged>>

(* The row is there already, or no longer, or the transaction fails.         *)
Rollback(w) ==
  /\ tx[w] # NoTx
  /\ tx' = [tx EXCEPT ![w] = NoTx]
  /\ UNCHANGED <<rows, stones, clock, ask, version, purged>>

(* GET /sync/tombstones takes its now, purges the expired records of every    *)
(* household, and lists: three places between which everything else goes on.  *)
Expired(now) == {c \in Deletes : c.ts < RetentionCutoff(now)}

PurgeExpired(now) ==
  /\ stones' = [e \in Entities |-> IF \E c \in Expired(now) : c.id = e THEN NoRow ELSE stones[e]]
  /\ purged' = purged \union {[ts |-> c.ts, id |-> c.id, by |-> now] : c \in Expired(now)}

(* The request of another device reaches its purge, with a now of its own.   *)
Purge ==
  /\ \E now \in 1 .. clock : Expired(now) # {} /\ PurgeExpired(now)
  /\ UNCHANGED <<rows, tx, clock, ask, version>>

AskTombstones ==
  /\ ask = NoAsk
  /\ ask' = [pc |-> "purge", now |-> clock]
  /\ UNCHANGED <<rows, stones, tx, clock, version, purged>>

PurgeFirst ==
  /\ ask.pc = "purge"
  /\ PurgeExpired(ask.now)
  /\ ask' = [ask EXCEPT !.pc = "list"]
  /\ UNCHANGED <<rows, tx, clock, version>>

(* It answers GetTombstones, whatever its since, or one of its statements    *)
(* failed.                                                                   *)
EndAsk ==
  /\ ask # NoAsk
  /\ ask' = NoAsk
  /\ UNCHANGED <<rows, stones, tx, clock, version, purged>>

PassTime ==
  /\ clock < MaxTime
  /\ clock' = clock + 1
  /\ UNCHANGED <<rows, stones, tx, ask, version, purged>>

FeedStep ==
  \/ Begin
  \/ \E w \in Writers : Commit(w) \/ Rollback(w)
  \/ Purge \/ AskTombstones \/ PurgeFirst \/ EndAsk
  \/ PassTime

-----------------------------------------------------------------------------
(* Types; a row is the last change of its entity, and an entity that is gone  *)
(* left a record of it, as long as the record is not purged                   *)
(* (storage/tombstones.rs, record, in the transaction of each deletion).      *)
FeedTypeOK ==
  LET stamped == [ver : 0 .. MaxVersion, ts : 0 .. MaxTime] IN
  /\ rows \in [Entities -> stamped] /\ stones \in [Entities -> stamped]
  /\ tx \in [Writers -> [kind : {"none", "create", "update", "delete"},
                        e : Entities \union {0}, ts : 0 .. MaxTime]]
  /\ ask \in [pc : {"idle", "purge", "list"}, now : 0 .. MaxTime]
  /\ purged \subseteq [ts : 0 .. MaxTime, id : Entities, by : 0 .. MaxTime]
  /\ clock \in 1 .. MaxTime /\ version \in [Entities -> 0 .. MaxVersion]
  /\ \A e \in Entities :
       IF rows[e] # NoRow THEN rows[e].ver = version[e]
       ELSE version[e] = 0 \/ stones[e].ver = version[e] \/ \E p \in purged : p.id = e

(* Where a device may have stopped, as long as those rows are as they were.  *)
Cursors == {Beginning} \union {[ts |-> c.ts, id |-> c.id] : c \in Upserts \union Deletes}

(* Two pages are the page of twice the size, and a page says that there is    *)
(* more exactly when the next one is not empty: whatever the cursor and the   *)
(* ties between rows of one transaction, nothing is skipped or served twice   *)
(* (server/sync.rs, get_sync_changes; storage/sync_changes.rs, changes).      *)
PagesTile ==
  \A cursor \in Cursors, limit \in 1 .. 2 :
    LET first == GetSyncChanges(cursor, limit)
        second == GetSyncChanges(first.next, limit)
    IN /\ first.changes \o second.changes = GetSyncChanges(cursor, 2 * limit).changes
       /\ first.more <=> second.changes # <<>>

(* A device that asks from before a deletion that was purged is told to start *)
(* over, by either of the two routes: the purge never makes a delta silently  *)
(* incomplete (core/sync.rs, requires_full_resync against retention_cutoff).  *)
(* The one exception is the order of get_tombstones: a request that took its  *)
(* now first decides by it whether the device must start over, and lists      *)
(* last, after the purge of a request with a later now.                       *)
PurgeIsAnnounced ==
  \A p \in purged, since \in 0 .. clock :
    /\ After(p, [ts |-> since, id |-> 0]) => GetSyncChanges([ts |-> since, id |-> 0], 1).full
    /\ ask.pc = "list" /\ p.ts > since /\ p.by <= ask.now => GetTombstones(since, ask.now).full

(* Both together: a deletion is remembered, or its purge is told.            *)
DeletionsTold == FeedTypeOK /\ PurgeIsAnnounced
=============================================================================
