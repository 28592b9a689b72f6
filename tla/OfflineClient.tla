--------------------------- MODULE OfflineClient ---------------------------
(* A device of the household and the server it follows: the resumable initial *)
(* synchronisation drains the change feed while the household writes.         *)
EXTENDS ChangeFeed

CONSTANTS
  PageSize,      \* pageSize of runInitialSync
  MaxBreaks      \* bound on failing requests, closed pages and new pairings

ASSUME DrainAssumption == PageSize \in Nat \ {0} /\ MaxBreaks \in Nat

VARIABLES
  cursor,        \* wallos.initialSync.cursor
  done,          \* wallos.initialSync.done
  drain,         \* the call of runInitialSync: its place, its cursor, its page
  delivered,     \* the versions that applyBatch has received since the reset
  breaks,
  acknowledged,  \* history: the versions in the pages whose cursor was persisted
  astray         \* history: the entities whose feed has hidden a change

drainVars == <<cursor, done, drain, delivered, breaks, acknowledged>>
deviceVars == <<feedVars, drainVars, astray>>

NoPage == [changes |-> <<>>, next |-> Beginning, more |-> FALSE, full |-> FALSE]
Idle == [pc |-> "idle", at |-> Beginning, page |-> NoPage]

DeviceInit ==
  /\ FeedInit
  /\ cursor = Beginning /\ done = FALSE /\ drain = Idle
  /\ delivered = [e \in Entities |-> 0] /\ acknowledged = delivered
  /\ breaks = 0 /\ astray = {}

-----------------------------------------------------------------------------
(* runInitialSync.  An absent cursor asks from the beginning.                *)

RunInitialSync ==
  /\ drain.pc = "idle"
  /\ drain' = [Idle EXCEPT !.pc = "ask", !.at = cursor]
  /\ UNCHANGED <<cursor, done, delivered, breaks, acknowledged, astray>>

(* The server reads one page, which travels back. *)
AskPageMutant ==
  /\ drain.pc = "ask"
  /\ drain' = [drain EXCEPT !.pc = "apply", !.page = GetSyncChanges(drain.at, PageSize)]
  /\ cursor' = drain'.page.next
  /\ UNCHANGED <<done, delivered, breaks, acknowledged, astray>>
AskPage ==
  /\ drain.pc = "ask"
  /\ drain' = [drain EXCEPT !.pc = "apply", !.page = GetSyncChanges(drain.at, PageSize)]
  /\ UNCHANGED <<cursor, done, delivered, breaks, acknowledged, astray>>

(* applyBatch, in the order of the page: the last change of an entity stays. *)
Applied(d, changes) ==
  [e \in Entities |->
     LET its == {i \in DOMAIN changes : changes[i].id = e}
     IN IF its = {} THEN d[e] ELSE changes[Max(its)].ver]

ApplyBatch ==
  /\ drain.pc = "apply"
  /\ delivered' = Applied(delivered, drain.page.changes)
  /\ drain' = [drain EXCEPT !.pc = "persist"]
  /\ UNCHANGED <<cursor, done, breaks, acknowledged, astray>>

(* The cursor is kept after the batch was applied. *)
PersistCursor ==
  /\ drain.pc = "persist"
  /\ cursor' = drain.page.next
  /\ acknowledged' = Applied(acknowledged, drain.page.changes)
  /\ drain' = [drain EXCEPT !.pc = IF drain.page.more THEN "ask" ELSE "finish",
                            !.at = drain.page.next, !.page = NoPage]
  /\ UNCHANGED <<done, delivered, breaks, astray>>

Finish ==
  /\ drain.pc = "finish"
  /\ done' = TRUE
  /\ drain' = Idle
  /\ UNCHANGED <<cursor, delivered, breaks, acknowledged, astray>>

(* A failing request or applyBatch throws, and the page may be closed at any *)
(* time: what was persisted stays.                                           *)
Interrupted ==
  /\ drain.pc # "idle" /\ breaks < MaxBreaks
  /\ drain' = Idle /\ breaks' = breaks + 1
  /\ UNCHANGED <<cursor, done, delivered, acknowledged, astray>>

(* A new pairing; no call of runInitialSync is in progress.  The whole feed   *)
(* is ahead of the device again: only a row that the feed shows before the    *)
(* deletion that preceded it stays astray.                                    *)
ResetInitialSync ==
  /\ drain.pc = "idle" /\ breaks < MaxBreaks
  /\ breaks' = breaks + 1
  /\ cursor' = Beginning /\ done' = FALSE
  /\ delivered' = [e \in Entities |-> 0] /\ acknowledged' = delivered'
  /\ astray' = {e \in astray : rows[e] # NoRow /\ stones[e].ts >= rows[e].ts}
  /\ UNCHANGED drain

DrainStep ==
  \/ RunInitialSync \/ AskPage \/ ApplyBatch \/ PersistCursor \/ Finish
  \/ Interrupted \/ ResetInitialSync

-----------------------------------------------------------------------------
(* The feed and the device together.  A change goes astray when it becomes   *)
(* visible behind a cursor the device may already keep, or out of the order  *)
(* of the entity's other changes; a deletion, when it is purged before a     *)
(* device that has the entity has passed it.                                 *)

Reached == IF drain.pc \in {"apply", "persist"} THEN drain.page.next ELSE cursor

OutOfPlace(c) ==
  \/ ~After(c, Reached) \/ ~After(c, cursor)
  \/ c.ts < rows[c.id].ts \/ c.ts < stones[c.id].ts

Held(e) == delivered[e] > 0 \/ \E i \in DOMAIN drain.page.changes : drain.page.changes[i].id = e

Watch ==
  LET new == {c \in (Upserts \union Deletes)' : version'[c.id] # version[c.id] /\ c.ver = version'[c.id]}
      gone == {p \in purged' \ purged : rows[p.id] = NoRow /\ Held(p.id) /\ After(p, cursor)}
  IN astray' = astray \union {c.id : c \in {x \in new : OutOfPlace(x)}} \union {p.id : p \in gone}

DeviceNext ==
  \/ FeedStep /\ Watch /\ UNCHANGED drainVars
  \/ DrainStep /\ UNCHANGED feedVars

DeviceSpec == DeviceInit /\ [][DeviceNext]_deviceVars

(* What is fair: a transaction ends; a call of runInitialSync runs on unless  *)
(* it is interrupted, and is made again: the resumption its comment describes.*)
TransactionEnds == (\E w \in Writers : Commit(w) \/ Rollback(w)) /\ Watch /\ UNCHANGED drainVars
DrainGoesOn == (RunInitialSync \/ AskPage \/ ApplyBatch \/ PersistCursor \/ Finish) /\ UNCHANGED feedVars

-----------------------------------------------------------------------------
(* Every change at or before the persisted cursor, of an entity that is not   *)
(* astray, was handed to applyBatch: a page that is interrupted is served     *)
(* again, and one whose cursor is kept was applied (initialSync.ts,           *)
(* runInitialSync; the cursor is persisted after the batch).                  *)
CursorCovers ==
  \A c \in Upserts \union Deletes :
    c.id \notin astray /\ ~After(c, cursor) => delivered[c.id] >= c.ver

(* The device and the feed implement the abstract replica: what the device    *)
(* has acknowledged only moves forwards, never beyond the server, and comes   *)
(* to be what the server holds.  What it has applied may go back for a while: *)
(* a page that was applied, and whose cursor was not kept, is served again    *)
(* with other changes before it, cut earlier.                                 *)
R == INSTANCE Replica WITH version <- version, rows <- rows, NoRow <- NoRow,
                           acknowledged <- acknowledged, astray <- astray
ImplementsReplica == R!Spec
=============================================================================
