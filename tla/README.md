# A verification project for wallos-rs

wallos-rs is a subscription tracker: a Rust server (axum, sqlx, PostgreSQL), a pure domain crate and a
React front end that also works offline. This directory holds TLA+ models of the parts whose
correctness depends on interleavings, failures and time, the TLC configurations that check them, and
proofs checked by TLAPS.

    tlc -config RemFaults.cfg MCReminderDelivery.tla      (one run)
    tlapm ReminderDeliveryProofs.tla                      (one proof module)

## 1. Inventory

| part | state | operations | hard behaviours |
|---|---|---|---|
| Reminder cron and outbox (`server/reminders.rs`, `storage/{reminders,notification_deliveries}.rs`, `core/reminders.rs`) | `reminder_log`, `notification_deliveries`, `households.reminder_lead_days` | `POST /internal/run-reminders`: scan, journal, send, retry, purge | several instances at once, every statement its own commit, a crash between any two, lost answers, retries, replayed dates |
| Push and arbitration (`server/sync.rs`, `core/sync.rs`) | entity tables, `conflict_journal` | `POST /sync/push`, upserts and deletes one after the other | read, arbitrate, journal and write are separate statements; a failing operation leaves the earlier ones applied |
| Deletion records (`storage/tombstones.rs`) | `tombstones` | record on delete, list, purge past retention | an offline client older than the retention |
| Change feed (`storage/sync_changes.rs`, `GET /sync/changes`) | none of its own: `updated_at` of the rows | keyset pages by (timestamp, id) | rows changing between pages, commits that become visible late |
| Idempotency keys (`storage/idempotency.rs`, `server/idempotency.rs`) | `idempotency_keys` | reserve, complete, release, reclaim after 5 minutes | racing duplicates, a crash holding a reservation, a slow holder that outlives its reservation |
| Offline client (`frontend/ui/src/sync`) | `localStorage` outbox, cursor | enqueue, flush, initial sync | edits during a flush, two flushes, a lost answer |
| Accounts and sessions (`server/auth.rs`, `storage/{users,sessions,device_tokens,login_attempts}.rs`) | users, sessions, device tokens, attempts | sign-up, login, logout, change of password | a login racing a change of password, attempts counted and recorded in two statements |
| Channels and test sends (`server/notifications.rs`, `storage/{notification_channels,secrets}.rs`) | `notification_channels`, `notification_test_attempts`, the key of the process | register with sealed secrets, list, delete, limited test | a restart under another key, a value sealed twice, count then record, a name that resolves elsewhere |
| Catalogues (`categories`, `payers`, `payment_methods`, `subscriptions`) | their tables; subscriptions refer to them without a foreign key | create, update, rename, delete if unused | a deletion racing a new reference |
| Import and export (`server/data.rs`) | all entities | export, import | a failure half way |
| Exchange rates (`core/exchange.rs`, `server/exchange.rs`) | `exchange_rates` | refresh by pivot, conversion | a provider that answers for some currencies only |
| Schedule (`core/{schedule,billing,reminders}.rs`, `server/schedule.rs`) | none: pure functions | occurrences, next due date, schedule of a window, reminders of a day | end of month, overflow, bounded search |
| Statistics, money, list (`core/{stats,money,text}.rs`, `server/{statistics,subscriptions}.rs`) | none: they read rows, rates and names | cost over months, repartition, list with filters, search, order and total | reads one after the other, missing rates, rounding |
| Notifier (`crates/notifier`) | none | one HTTP or SMTP send per channel | timeouts, redirections, diagnosis |
| Configuration, listening, shutdown, web UI (`server/{config,listen,shutdown,webui}.rs`) | process state | check the environment, open, listen, drain, stop; serve the interface | a handler that hangs, a pool that waits, a value judged twice |

Interactions. All server parts meet in the database: the handlers keep no state of their own, several
server processes may share one database, and unless a transaction is opened every statement commits by
itself at PostgreSQL's default isolation (READ COMMITTED). The cron reads subscriptions, households and
channels that users edit meanwhile; the outbox row refers to its channel and the journal to its
subscription by cascading foreign keys. Push calls the same repositories as the REST handlers; both go
through the idempotency keys when the client sends one. The offline client calls push and the change
feed.

What makes each part correct, in one sentence each: the cron sends each occurrence once, loses none in
silence and stops retrying; a push neither revives a deletion that is remembered, nor overwrites in
silence, nor touches another household; a key executes its request once and repeats its answer; the feed
shows a client every change; the offline client loses no edit; a change of password ends every other
access; a limit limits; references between catalogues stay valid; a schedule yields the dates of its
cycle.

## 2. Plan

| order | module | models | composes with | state |
|---|---|---|---|---|
| 1 | `ReminderDelivery`, `ReminderDeliveryProofs` | reminder cron, journal, outbox, retries | - | done |
| 2 | `Idempotency`, `IdempotencyProofs` | idempotency keys around any write handler | - | done |
| 3 | `SyncPush`, `SyncPushProofs` | POST /sync/push with arbitration, tombstones, journal | EXTENDS `Idempotency`, implements `KeysSpec` | done |
| 4 | `ChangeFeed` | keyset pages over rows whose transactions commit late, tombstones and their purge | - | done |
| 5 | `Replica`, `OfflineClient` | a device that drains the feed, and what it is promised | EXTENDS `ChangeFeed`, implements `Replica` | done |
| 6 | `Outbox` | edits made without network, crossing and late flushes | - | done |
| 7 | `RateLimit`, `Accounts` | sign-up, login, sessions, devices, change of password | `RateLimit` is shared with `Channels` | done |
| 8 | `ChannelConfig`, `Forms`, `Channels` | validators, sealed secrets, list, tests of a channel | EXTENDS `RateLimit` | done |
| 9 | `Catalogue` | REST routes of the household's rows, export, import | - | done |
| 10 | `Calendar`, `Schedule` | months, occurrence search, window, reminders of a day | - | done |
| 11 | `Rates`, `Statistics`, `Listing` | refreshes, conversion, statistics, list | each EXTENDS the one before | done |
| 12 | `Lifecycle` | start, settings, drain, stop, web interface | - | done |
| 13 | `AccountsProofs`, `CatalogueProofs`, `HouseholdProofs` | theorems about 7 to 9 and their composition | EXTEND the modules they prove | done |
| 14 | `FiguresProofs` | theorems about 10 and 11 | EXTENDS `Listing` | done |
| 15 | `DomainProofs` | theorems about 4 to 6 and 12, and the composition of 4 to 6 and 10 to 12 | EXTENDS `MCDomain`, `FiguresProofs` | done |

`Sorting` holds one helper. `MCHousehold` composes 7 to 9, `MCDomain` 4 to 6 and 10 to 12: these parts
share no state, so that the variable `focus` chooses the one that moves in a behaviour, and their states
add up instead of multiplying.

Abstract specifications: `KeysSpec` (what a keyed handler promises; `SyncPush` implements it, checked and
proved) and `Replica` (what the feed promises a device; `OfflineClient` implements it, checked with its
liveness). The pure parts have a reference definition each, stated without the search or the loop of the
code: what an occurrence is (`OnCycle`), what a month costs, which rate is the newest, which amounts of
a total are known. No RECURSIVE operator is used anywhere.

## 3. Modules and code

### ReminderDelivery

One action is one statement, or one network send, of `run_reminders` and `retry_due_deliveries`
(`server/src/reminders.rs`); an execution of the handler is an element of `Inst`, its local variables are
the record `run[i]` and its place the field `pc`.

| variable | code |
|---|---|
| `subState`, `plan` | subscriptions and the occurrences their stored dates yield |
| `lead`, `chanState`, `unreadable` | `households.reminder_lead_days`, notification channels, channels whose secret cannot be read |
| `log` | `reminder_log` |
| `outbox`, `nextId` | `notification_deliveries`, unique by (channel, reference date), and its identifiers |
| `run` | each execution: due occurrences, channels, fresh batch, channel in progress, claimed deliveries |
| `owed`, `received` | history: what is still to transmit, how often a target received it |
| `skipped` | history: what a run passed over because the secret of the channel could not be read |

`Start` is the scan, `LoadChannels` and `NextHousehold` the outer loop, `Record` the arbitrated insert,
`CloseBatch`/`NextBatch` the choice of the channels, `Open`/`Send`/`Note` the delivery of a batch, `SkipChannel`
the `continue` on a channel that cannot be read (no row, no abandonment: what was journalled stays owed), `ClaimRetries`/`Resend`/`NoteRetry`/`DropUnreadable` the retry phase, `Purge` the last statement. The
actions ending in `Fails` are the same statements failing; `Crash` ends an execution anywhere in
`CrashAt`. Instants are kept as what is left (`wait`) or what has passed (`age`), so that time never ends
and the state stays finite.

### Idempotency

`reserve` is three statements (`InsertKey`, `SelectKey`, `ReclaimKey`), `finish` and `abort` are one each;
the execution between them is open (`Succeed` with any answer, or `Fail`), so that the module stands for
every handler that uses keys. `Cut` drops a handler at any await, `BeginFails`, `FinishFails` and
`AbortFails` are failing statements whose effect may or may not have taken place, `Age` lets five minutes
pass for a pending row. `answers`, `effects` and `lost` are history variables.

### SyncPush

Extends `Idempotency` with what POST /sync/push executes. `work[h]` is the place of handler `h` in its
batch and what it has read: `CheckStone` (`tombstones::exists`), `ReadCurrent` (`sync_changes::current`
and the pure `arbitrate`), `RejectDeleted`, `JournalOverwritten` (`conflict_journal::record`), `Invalid`,
`Create` (insert), `Update` (the update that follows a conflict), `CountReferences` and `DeleteRow` (the
removal and its tombstone in one transaction). `rows`, `stones` and `journal` are the entity tables,
`tombstones` and `conflict_journal`. `clock` counts the writes, which gives each its own version. The
purges of `GET /sync/tombstones` and `GET /sync/conflicts` are `PurgeStones` and `PurgeJournal`.
`MCSyncReplay` adds the comparison of two identical sends.

### ChangeFeed, OfflineClient, Replica

`ChangeFeed` holds the rows of a household and its tombstones. A transaction (`Begin`, `Commit`, `Rollback`)
stamps what it writes with its start and shows it when it commits, so that rows appear out of the order of
their timestamps, as `now()` makes them do in PostgreSQL. `GetSyncChanges` is the page of
`server/sync.rs` over `Changes` (`storage/sync_changes.rs`). `GET /sync/tombstones` is a request of three places
(`ask`): it takes its `now` (`AskTombstones`), purges by it (`PurgeFirst`), then decides by the same `now` whether
the device must start over and lists (`GetTombstones`, `EndAsk`, which is also its failure). `Purge` is the purge
of any other request, with the `now` of that one, early or late. `RequiresFullResync` is the comparison with the
cutoff. `purged` (each record with the `now` that purged it) and `version` are history.

`OfflineClient` adds one device: `cursor` and `done` are its two keys of `localStorage`, `drain` the call of
`runInitialSync` in progress (`AskPage`, `ApplyBatch`, `PersistCursor`, `Finish`, cut anywhere by
`Interrupted`), `ResetInitialSync` a new pairing. The page is read by one action and applied by another,
while the household writes on.

`Replica` is what that is worth: entities change, the device acknowledges versions forwards only and never
beyond the server, and finally has them all. `OfflineClient` maps `acknowledged` to the versions in the
pages whose cursor was kept. What was applied (`delivered`) would not do: a page that was applied but whose
cursor was not kept is served again, and when late transactions have filled it meanwhile it is cut
earlier, so that it may bring back the deletion of an entity whose creation had been applied already. What
the device shows may go back for a while; what it has for good may not. An entity is `astray` in `Replica`
when the feed may hide a change of it; the
history variable `astray` of `OfflineClient` says exactly when that happens: the change becomes visible
behind a cursor the device may keep, out of the order of the entity's other changes, or is a deletion
purged before the device passed it. Nothing is promised of such an entity before the next pairing.

### Outbox

`queue` is the one key of `localStorage`; `FlushOutbox` reads it and sends it, `Answered`, `TurnedDown` and
`GiveUp` are the ends of the request, `ArriveLate` a batch that arrives after its sender gave up. Two calls
may be in flight, as nothing in `useOfflineSync` keeps them apart. `Push(ops, k)` is the loop of
`push_sync_changes` over the first `k` operations: all of them when the answer is a success, any number when the
handler answers 500 on the way, when the answer is lost or when the batch arrives late. What is executed of one
batch is one step: the interleavings of its statements are those of `SyncPush`.

### Accounts

One action is one SQL statement of a handler (`req[p].pc`): the extractor (`authenticate`: session, its
touch, or device token), login and pairing (count, read and verify, record or clear, create), sign-up
with its seeded categories, logout, revocation, and the change of password with its two best-effort
revocations. `StatementFails` and `Cut` end a handler anywhere. `epoch` (how many changes of password the
account had), `late`, `spent` and `swept` are history: a credential is `late` when its login had read the
password before the change and stored its session after it.

### ChannelConfig, Forms, Channels

`ChannelConfig` translates the validators of the six kinds over classes of field values ("absent", "blank",
"internal"...), the sealing of secrets with their associated data, their redaction and the reading of a row
back into a channel (`channel_from_row`). `Forms` puts every form through it. `Channels` has the rows, the
key of the process (`RestartWith` another, or none) and the tests: `OwnerContact`, `CountTests`, `RecordTest`,
`SendTest`. `Contacted` is the address the resolver lets through at the moment of the send.

### Catalogue

The rows of two households by kind (`rows[i]`), their tombstones and references. A route of one statement is
one action; a guarded deletion is the count and, later, the deletion with its tombstone; an export is four
reads and an import one statement per row, so that other requests come in between and `StopJob` leaves it
half way. The lines of an envelope are judged one by one as the handler does: a category, a method or a
subscription whose identifier, name or other fields are wrong (`NotAnId`, `Blank`, `valid`), or whose identifier is
taken, is refused and the import goes on with the next (`Sound`). `NotAnId` stands for every text that is no
identifier, those of one envelope being one label. `held` is history: the reference pointed to a row of the
household when it was written, and no deletion of that row was past its count.

### Calendar, Schedule, Rates, Statistics, Listing

Days are numbers from 1 January 2024, months are clamped as chrono does. `NextDue` and `OccurrencesInRange`
are the loops of `core/schedule.rs` as a function of the step number, with the 32-bit products
(`CheckedMul`, `MaxU32`) and the bound on steps. `Rates` has the table as refreshes leave it, one upsert at
a time, crossing and failing half way; conversions, `GetCostEvolution`, `GetRepartition` and
`ListSubscriptions` are answered between any two of these steps; a list is asked for under its three criteria at
once, in one state. Amounts are whole grains chosen so that
every division by a cycle is exact; rounding to a currency is half to even, as in the code. A text is a
sequence of letters, and folding maps a letter to any number of letters.

### Lifecycle

`ValidateStartup`, `OpenDatabase` and `Listen` are `main` in its order; each of the five variables of the
model stands for one way a value is judged (required, address, path, boolean, number). `conn[r]` is a request,
with or without a connection of the pool; `Signal`, `Drained`, `GraceElapses` and `CloseDatabase` are
`serve_with_graceful_shutdown`. `Served` and `CachePolicy` are the fallback of `webui.rs`.

## 4. Runs

`tlc -workers 2 -config X.cfg M`; every run ends within five minutes on two cores.

| run (module) | instance | what it shows | states |
|---|---|---|---|
| `RemNominal` (`MCReminderDelivery`) | two instances, two days, a household with three occurrences, `as_of` replays, no fault but failing sends | each occurrence reaches a channel once at most, no delivery is replayed twice at a time, attempts are bounded | 451,590 |
| `RemFaults` | crashes and failing statements anywhere, lost acknowledgements, slow runs, edits and deletions | batches stay disjoint, what a run or a row holds is journalled, attempts have one owner, abandonments are final and stay visible; and the inductive invariant of the proofs | 989,470 |
| `RemOutbox` | two households, two instances, crashes from the opening of the row on, secrets lost and found | nothing is lost in silence but what is passed over with an unreadable channel, retries keep their pace, households stay apart | 1,552,520 |
| `RemLive` | two fair instances, no crash | what is owed is delivered, visibly given up, or passed over with an unreadable channel | 164,101 |
| `Keys` (`MCIdempotency`) | three handlers, one key, two bodies, two faults | one execution at a time, exact replays, repetitions only after a lost record, final records, clients that retry are answered | 124,864 |
| `Push` (`MCSyncPush`) | two handlers, three batches of two households, one sent twice under its key, one fault, purges | deletions win, overwrites are journalled, households stay apart, `KeysSpec` is implemented; and the inductive invariant of the proofs | 720,846 |
| `Household` (`MCHousehold`) | accounts: three people, two handlers, three requests among eleven, one fault; channels: two households, two keys, two tests in flight; every form of a channel; catalogue: two jobs, one other write, one stop | a change of password ends what it should and nothing else; limits are passed by the handlers in flight at most; secrets stay sealed and reach their target as entered; references and envelopes hold | 516,828 |
| `Domain` (`MCDomain`) | feed: two entities, two transactions, three versions, pages of one change, a retention of one unit, one break; outbox: three edits, two flushes, two failures, a batch stopped after any operation; every query of the schedule, of two refreshes and the reads that follow, of the list; every environment, two requests | pages tile, no deletion is forgotten untold, the device implements `Replica`; edits are kept and repeated only as explained; schedule, conversions, statistics and list are what their references say; a stop cuts only the overdue and comes | 173,532 |
| `RemLossCrash`, `RemDouble`, `RemUnbounded`, `SyncReplay` (`MCSyncReplay`) | the smallest instance that shows it | each violates the one statement listed in section 6 | up to 8,489 |

Bounds, and why they are enough. Two executions are enough for every race of the cron: each decision is
taken by one statement on one row. Three handlers are needed for the keys: a holder, the one that takes
over, and one between its select and its conditional update. One channel and one or two occurrences show
every state of an outbox row; a second household and channel are added where isolation is the question.
Delays are compressed to one and two units and attempts to two or three, which keeps every outcome of the
policy (first failure, later failure, abandonment). `AttemptCap` ends the exploration of a delivery that
is claimed for ever. In the push, three batches meet on two categories and a subscription and hold every
kind of operation: a conflicting and an unconditional upsert, an invalid one, a taken name, an
identifier taken by another household or free again, a deletion that is refused and one that is not;
one batch is sent twice under its key. One fault is enough to end a push anywhere. `LastDay = 1` with a retention of
no day lets a purge follow the pushes. `CHECK_DEADLOCK FALSE` is used for the two push models and for the
two compositions, where everything bounded may be spent.

In `Household`, two handlers are enough for every race between two statements (a login and a change of password,
two counts), and three requests let a third one act on what the race left. In `Domain`, pages of one change cut
the feed between any two rows; two transactions make one commit late; `MaxTime = 4` leaves room for a write,
an expiry and another write (5 takes more than five minutes); one break ends a drain anywhere or pairs the
device again (the safety theorems of section 7 hold for any number of breaks);
`Seeds` starts with two rows of one timestamp, as the seeded categories are, or with none. The envelopes of
`Household` hold lines that are refused beside lines that are not. The queries of the
schedule hold the ends of January, February and the leap day, intervals past the limit of 32 bits (scaled to 60),
windows that a row's end or trial cuts. `MaxU32`, `MaxSteps`, `MaxWindow`, `LastDay` and `MaxMonths` are
scaled so that the queries pass them. The sets of queries are in the MC modules.

Some properties are conjunctions of named parts (`ConfigurationKept`, `TransfersKeep`, `StatisticsAreExact`,
`DeliveryInvariant`, `KeysInvariant`, `PushInvariant`...): each part is stated with its own comment where it is
defined.

Every property has a mutant in its module: a definition of the model changed the way a bug in that line
would change it (a dropped guard, a swapped side, a missing reset), which makes TLC find the property
violated.

## 5. Fairness

`RemLive` assumes that the external scheduler keeps calling, that a handler that was called keeps running
and that time passes: weak fairness of `Start`, `Step` and `Tick`. It excludes crashes and failing
statements, because a run that is cut for ever between a claim and its conclusion settles nothing, and
the code promises nothing for that case. `RetriesEnd` assumes that a client sends again until it is
answered (strong fairness, since a handler must be free), that handlers run, that time passes, and that an
execution does not fail for ever. Faults and cuts have no fairness and are bounded.

`Domain` assumes that an open transaction ends, that `runInitialSync` goes on unless it is interrupted and is
called again when it was (the resumption its comment describes), that `main` goes on, that the grace
period elapses and that the database ends the statements it was given. Handlers may hang: nothing is
assumed of `Reply` and `Acquire`. The assumptions are merged into two weak fairness conditions, because
`focus` never changes and one of the merged actions only is ever enabled. Interruptions, new pairings, writes
and signals have no fairness; the first two are bounded, so that they end.

## 6. What the code does not keep

| run | statement of the repository | what the code does |
|---|---|---|
| `RemLossCrash` | a pending row survives a process that dies between journal and send, "a silent loss becomes impossible" | the journal insert commits before the outbox row is opened: a run cut in between loses the batch, as later runs skip the occurrence |
| `RemDouble` | each occurrence is sent exactly once (spec/requirements/notifications.md, REQ-NOT-002) | a row already due is refreshed by a first send without moving its deadline: another instance replays it meanwhile |
| `RemUnbounded` | retries stop after a bounded number of attempts | claims count attempts without comparing them to the bound; only a recorded failure abandons |
| `SyncReplay` | a batch pushed and replayed identically leads to the same state as one send | without a key, an operation refused the first time may apply the second time |

Outside of these runs, modelling met behaviour that a reader of the code should know of. The properties
are stated so that they say what does hold.

- *Reminders.* A channel whose secret cannot be read when its turn comes is passed over with a bare `continue`
  (server/reminders.rs:456-458), after its occurrences were journalled and before any row: they are lost without
  a row, an abandonment or a line of log, whatever the comment just below says (459-461, "pas de perte
  silencieuse"). The retry phase abandons such a delivery in sight. `OwedToItsHousehold` and
  `EverythingSettles` name this exception (`skipped`) and say that there is no other. A run opens the row of a channel when its turn comes, so that a crash while it sends to the first
  channel of a household loses the others in silence; with one channel per household there is nothing to lose
  there (`Lossless` in section 7).
- *Limits.* Counting and recording are two statements, so that a limit is passed by the handlers in flight
  (`FailuresBounded`, `TestsLimited`); the comment in `server/notifications.rs` (487-490) says that a concurrent
  instance cannot exceed it. Failed logins are counted by the text typed, while accounts are found without
  regard to case: the limit is per spelling. SMTP hosts do not pass the resolver that HTTP sends use.
- *Sessions.* A login that read the old password may store its session after the change has revoked the
  others (`late` in `AccessEnds`). The new password is judged after the failure counter was cleared.
- *Catalogue.* References are checked by no write, payment methods are deleted even when referenced, and rows
  that are created again keep their tombstone. Payers are not exported although the documentation says
  all data are. In an import, a name created meanwhile maps its category to an identifier that was not created
  (the case `ImportLinks` leaves out).
- *Feed and client.* A row that commits after a later one was served lies behind the cursor and is not seen
  before the next pairing; the client does not read `full_resync_required`. A request for the tombstones decides
  by its own `now` whether the device must start over, and lists last: a record that another request, with a later
  `now`, purges in between is neither listed nor announced, and `as_of`, the next cursor, lies past it
  (server/sync.rs:109-124; `PurgeIsAnnounced` leaves out this one case). A push that answers 500 half way leaves
  the earlier operations applied: when a batch is sent again after its answer was lost and stops there, an older
  edit lies over a newer one until the batch goes through (`LatestEditWins`). The outbox sends no idempotency
  key and clears the edits queued while a push is under way (`hidden` in `EditsKept`).
- *Schedule.* A lead time as long as the interval is never reminded. Reminders and the list ignore the trial
  that the schedule excludes. The repartition counts subscriptions that have not started, the evolution does
  not. Nothing checks that a trial does not end before the first payment, as its wire type says.
- *Statistics and list.* A subscription that is ended before its trial is over has an empty window of cost, from
  the end of the trial to a day before it; `monthly_cost_evolution` (core/stats.rs) compares each of the two dates
  with the month only, so that the month that holds both counts a cost nobody pays (`EndsUnpaid` in
  `Statistics`), although the trial is documented as not counted (core/subscription.rs:81-83). Without this case
  `StatisticsAreExact` is violated. The list's total adds full prices, the statistics monthly costs; the order by amount
  converts the rounded monthly cost, the statistics the raw one. Displayed shares add up to the displayed total up
  to rounding. A category deleted between the reads is a share without a name.
- *Process.* An empty `LISTEN_ADDR` passes the check of the configuration and stops the start after the
  migrations. Very long durations in three variables overflow. A missing file under `/assets/` is answered with
  the document as immutable. Closing the pool waits for connections in use, so the grace period does not
  bound the stop.

## 7. Proofs

All proofs hold for every value of the constants, under the ASSUMEs of the modules: the types of the constants,
names standing for "none" that are not values, initial tables that the program can be in, requests and forms
that the extractors let through. Three groups of
theorems need more, and say so:

- the proofs of `Idempotency` assume `~Slow`: no execution outlasts the five minutes of a reservation, which is
  what the comment of `RESERVATION_TTL` takes for granted. `PushInvariant` and what follows from it do not;
- what `RemNominal` and `RemOutbox` check of the cron holds of a deployment without certain faults (section 6 shows
  what happens with them), and the theorems name it as an ASSUME that the constants of that run satisfy.
  `Orderly`: runs end before the shortest delay, the lead time is not edited, and either a
  household has no two occurrences on one date or nothing stops a run before its retries nor edits its
  subscriptions: the row of a day is not opened again once its retries have begun. `Reported`: what a send
  reports is what happened, and a run notes it. `Lossless`: no statement fails, the lead time is not edited, no two
  occurrences on one date, and no run stops between the journal and the rows; sends may be cut when a household
  has one channel;
- `TransfersKept` assumes that no envelope lists a category's identifier or name twice (`ListedOnce`). An identifier
  under two names is mapped to the last of them, and a name listed twice may be created by its second line
  after its first one met a concurrent creation. Every export is `ListedOnce`, which is part of the invariant
  and not assumed.

**ReminderDelivery.** `DeliveryInvariant` = `TypeOK`, `JournalFirst`, `OneBatchPerOccurrence`, `RowsIdentified`,
`AttemptOwned`. That an occurrence is in one batch is not inductive alone: it needs that whatever a run holds is
in the journal (or its subscription gone, which empties the journal), and that a claim stands for its row needs
identifiers that are never reused. Each conjunct has its lemma over the actions, from what the actions do to the
journal, the claims and the rows. From it: `OneBatch`, `AttemptsOwned`,
`AbandonmentIsFinal`, `AbandonmentShown`. Under no further assumption, `HomesKeptApart`: what a run holds, a row
holds and a target received is of one household.

`OrderlyInv` adds time: whatever a run or a row holds triggers on its day (`OnTime`), the row a run sends for the
first time is not due for a retry (`FirstSendsHold`), and a claimed row is not due again before its claim ends
(from `Prompt`) and carries its claim's number, channel and batch (`ClaimsHold`). Without edits it also needs that a run in its
first phase meets all that triggers on its day (`DaysSwept`), so that no later run of the same day has a batch
to open the row again. From it `PaceHolds` and `AttemptsAreBounded` (the last attempt is never made without its
end being recorded, `LastAttemptHeld`). `OnceInv` adds that what has still to be sent was not received
(`SendsFirst`, `RetriesFirst`) and that a row whose batch was received is about to be removed (`SuccessNoted`):
`OnceOnly`. `LossInv` follows what is owed (`StillCarried`) and needs that a settled pair is owed no more
(`Settled`) and that rows match the runs that hold them (`RowsMatch`): `NothingIsLost`. It says that what is owed is
on its way, in the outbox, given up in sight, or in `skipped`.

**Idempotency.** `KeysInvariant` = types, `Located`, `HolderOwnsRow`, `OneHolder`, `Accounted`, `AnswerKept`.
The core is `HolderOwnsRow`: the row under which a handler executes is pending, young and its own, so no insert
or conditional update of another handler takes it, and the late release or completion of another handler does
not exist. `Accounted` counts successes against records. From it: `OneExecutionAtATime`, `RepetitionNeedsLoss`,
`ReplaysRepeatTheAnswer`, `RecordsAreFinal`.

**SyncPush.** `PushInvariant` = types, `Placed` (a handler from its arrival to the end of its execution stands
at an operation of its batch, with one result for each earlier one), `DeletionWins`, `RememberedAt` (an upsert
that found no tombstone looked before every tombstone there is now) and `ComparedAt` (what was read is still the
row, or the row was written since; a version that differs from the base is in the journal before the write). The
lemma `OthersKept` states what a step of one handler may do to the tables (`StoreMoves`: new versions and
tombstones are younger than the clock, today's journal stays) and that this keeps the part of every other
handler; the lemmas of the actions then speak of one handler each. From it: `RememberedDeletionsWin`,
`OverwritesJournalled`, `HouseholdsApart`, and `PushImplementsKeys`: with the identity as refinement mapping,
every step of a push is a step of `KeysSpec` or leaves its variables alone; so `OnePushAtATime` follows from the
theorem of `Idempotency`.

**Accounts.** `AccountsInv` = types, `HandlersPlaced` (a handler carries what its place needs), `EpochsOrdered`
(a handler, a credential and a revocation hold no later password than the account has, and an undecided handler
that holds the current one is not late) and the two halves of `AccessEnds`, which are inductive with the rest:
`EndedAccess`, and `OwnersEnd` from the places at which a session or a device may go. `BoundedFailures` counts
by induction on the steps: the failures of an address in a window and the handlers past their count, together,
never pass the limit by more than the handlers (`FailuresCounted`). Writing this proof found two overlapping
cases in `AfterProof`, where TLC takes the first and the definition says nothing; it has been stated without.

**Channels, Forms.** `FormsWork` goes through the six kinds with all that a form may hold: what is sealed is not
what an unsealed field may be, so that it is read back as entered. `ChannelsInv` = types, `TestsPlaced`,
`AttemptsApart` (an attempt belongs to one test), the part of `ConfigurationKept` that each send had when it
left, and `TestsCounted`, the argument of `BoundedFailures` for tests: `ConfigurationIsKept`, `TestsAreLimited`.

**Catalogue.** `CatalogueInv` = types, `JobsPlaced`, `NamesUnique`, `HeldThere` and `PastCount`:
`HeldReferencesStay` is not inductive without the last one, that a deletion past its count has no held reference
left, which is what the history variable `held` was made to say. `TransfersInv` follows what an import has still
to do and what an export has still to read: the lines left and those that are refused, stored, taken or deleted make
the whole envelope. `HeldStay`, `OwnersDelete`, `TransfersComplete`, `TransfersKept`.

**The parts together.** `PartsKept` and `DomainPartsKept` show that no action of one part moves another: `Spec`
of each composition implements the specification of each part, so that what is proved of the parts holds of the
composition that TLC checks (`HouseholdSafe`, `OnlyOwnersEnd`, `HouseholdTyping`, `DomainSafe`).

**Feed and device.** The order of the feed is a strict order on (timestamp, identifier), total because no two
rows of one feed share both (`FeedInv`: stamps, versions, what was purged). Its pages are the first elements of
`InOrder`, which the lemmas reach by the number of changes before a change: `PagesAreWhole`, `AnyPagesTile` for
pages of any size (TLC has 1 and 2), `DeletionsAreTold`
(a purge by a `now` leaves nothing behind the cutoff of that `now`, and `AskValues` places the request under way).
`DeviceInv` says of an entity that is not astray that
the persisted cursor parts exactly what was acknowledged from what is new (`AckedToCursor`), that what was
acknowledged was applied (`AckedApplied`), and of a page under way that it holds, in the order of their
versions, all that still stands up to its next cursor, with only newer versions beyond it (`PageIsNew`,
`PageIsWhole`, `PageApplied`). TLC has checked it as an invariant, with pages of one and of two changes. From it
`CursorIsTrue`, and `ReplicaForwards`: the initial states and the steps of `Replica` for every page size and
number of writers. It was this proof that showed that the applied versions do not refine `Replica` as soon as a
page holds two changes (section 3).

**Outbox.** `OutboxInv` = types, `InTurn` (batches end with their latest edit), `SentOrHidden` (what is queued
during a send is part of it, or was hidden), `Alone`, `LastExecuted` (unless two batches were together, an executed edit
newer than the last executed one is still queued, and so is all that is under way), `ExecutedOnce`, and `SendsCounted`:
executions, requests in flight and late batches of an edit are together no more than its sends. `EditsAreKept`,
`SendsAreExplained`.

**Lifecycle.** `LifeInv` = what the start has checked at each phase, and that the pool closes early only when no
request is left: `ShutdownCutsOverdue`, `ServesAsConfigured`.

Conjuncts that have a theorem of their own: `OneBatchPerOccurrence`, `AttemptOwned`, `HouseholdsIsolated`,
`OneHolder`, `AnswerKept`, `DeletionWins`, `EndsOnlyByItsOwner`, `DeletedByItsOwner` and the type invariants; so
has `RepeatsNeedLoss`, which follows from `Accounted`.

**Figures: induction without operators.** What a fold computes needs an induction over finite sets. The library
states it for an operator, so `FiguresProofs` states it again for sets: a set of natural numbers with 0 and the
successor of each of its elements is all of them (`Count`), a family of parts of a finite set that has the empty
one and each part with one element more has the set itself (`Gather`), both from a least element (`Least`), itself
from the library's well-founded orders. From them the equations of a sum over a function (`SumEquation`: there is
one function that satisfies the recursion of the fold, so the fold is it), and what sums need here: the order of
the terms does not matter (`SumTake`), parts and buckets add up (`SumUnion`, `SumBuckets`), terms that are close
have sums that are close (`SumNear`). `Sorted` is a permutation in the order it was given, for a strict total order.

**Calendar, Schedule.** Months follow one another without a gap and every day lies in one (by induction on the
months), so that adding months from the anchor gives the day of the anchor or the last of a shorter month. The
occurrences rise with the step number, the steps below an occurrence are as many as its rank, and what the
reference calls on the cycle and reachable is what a step yields: `DueDatesExact`, `WindowsExact`. For
`RemindersExact`, the next payment that a day shows is an occurrence with nothing of the cycle between; so one day
only is the lead time before it. Two cases are not claimed, because the code does not keep them: on the first day
of the calendar there is no day before the reference (`Preceding`), so a window from there is not compared with
the list; and an occurrence that the bounded search does not reach is not reminded.

**Rates, Statistics, Listing.** `RatesInv` is inductive over the refreshes (`TableInv`: the table has one rate for
a pair and a date, all positive, and its latest is `newest`) and holds, of the answer kept in `asked`, that it was
computed with the table of that moment (`Computed`; a behaviour ends with its answer); the properties then speak
of pure functions.
`ConversionsExact`. In `StatisticsExact` the buckets of an axis add up to what converts, rounding moves each share
and the total by half a step at most, and a window meets a month exactly when one of its days costs something, but
for `EndsUnpaid`: it was this equivalence that failed and showed the empty window of section 6. `ListExact` needs
that each criterion is a strict total order, with the identifier last, and that folding a folded text changes
nothing.

**Assumptions of the figures.** Their ASSUMEs say what rows and queries can hold (`IsRow`, `IsPriced`: dates of the
calendar or none, intervals without sign, identifiers that are unique), that the rates of a source are
dated, that a step of rounding is a whole number of grains, that folding is idempotent letter by letter, and that
the calendar begins before the first month of any series.

Only model-checked. `EverythingSettles`, `RetriesEnd`, `SignalStops` and the liveness of `Replica` (the other
half of `ImplementsReplica`): liveness under fairness and ENABLED are out of the prover's reach. Every safety
invariant and action property that a passing run checks is stated by a theorem.

## 8. What is not modelled, and why

- Hazards without a property: the 500-row limit of a claim (`storage/notification_deliveries.rs`), which needs
  hundreds of rows; the fingerprint of a key, which is the body alone (`server/idempotency.rs`), as routes are not told
  apart; an execution that outlasts the five minutes of its reservation, which the code's comment excludes;
  a creation over REST after a deletion that is remembered (`Catalogue` keeps the tombstone, `SyncPush` is a
  model of its own).
- Statement-level details without a property: disabled channels (the flag is set at creation only), wording,
  formats, HTTP status codes other than success, refusal and error; the labels and platforms of devices; the
  diagnosis of a failed send.
- Identifiers of subscriptions are not used again after a deletion in `ReminderDelivery`; the channels of
  a household and its contacts are read in one step.
- Under `Prompt`, a run ends before the shortest retry delay (sends last ten seconds at most, the first
  delay is an hour); `RemFaults` and `RemLive` do without it.
- In `SyncPush`: operations with an unknown type, an unknown verb or a malformed identifier, which are
  rejected before any statement; the edits of the REST handlers; a push that lasts until the next day;
  two writes with the same timestamp. What the versions of the database compare is which write came last.
- Two calls of `runInitialSync` at once, a reset during a drain, storage that cannot be read; the pages and
  forms of the front end, which call what is modelled.
- The parts that are composed under a `focus` do not interact in the models: the feed does not read what
  `SyncPush` writes, and the cron does not read what `Catalogue` edits. Each model has the environment it needs.
- `Statistics.GetStatistics` answers the two routes of the statistics from one snapshot of rows and rates, so that
  what relates the two answers is not claimed of two requests with a write in between. In `Lifecycle` the document
  of the interface is there or not for the whole life of the process; `CachePolicy` speaks of the fallback's
  document and of `/assets/`, not of another HTML file that the static service finds by its own name.
- Lines of an envelope without an identifier, for which the server makes one: nothing refers to them. Identifiers are
  in their canonical form.
- Decimal arithmetic beyond exact multiples: the 28 digits of a decimal, and the intermediate roundings that
  come from them, are outside of what TLC represents.
- Serialised types, macros and the build tool keep no state; `core` accessors and tables neither.
