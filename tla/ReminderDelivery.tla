-------------------------- MODULE ReminderDelivery --------------------------
(***************************************************************************)
(* The reminder cron of wallos-rs and its delivery outbox.                 *)
(*                                                                         *)
(* POST /internal/run-reminders is called by an external scheduler, on any *)
(* number of server instances at once.  One call scans every household,    *)
(* journals each due occurrence in reminder_log (an insert that a unique   *)
(* constraint arbitrates), sends the occurrences it won to the household's *)
(* channels as one batch, and follows each send with a row of              *)
(* notification_deliveries, unique per (channel, reference date).  It then *)
(* replays the rows whose retry is due and purges the old abandonments.    *)
(* Every statement commits on its own, so each action below is one         *)
(* statement or one network send, and runs interleave between them.        *)
(*                                                                         *)
(* Dates are day numbers.  Instants are not stored: `wait' is what is left *)
(* until next_attempt_at and `age' what has passed since updated_at, so    *)
(* time never ends and the state stays finite.                             *)
(***************************************************************************)
EXTENDS Integers, FiniteSets

CONSTANTS
  Household,
  Sub,            \* subscriptions
  SubHome,        \* the household of each subscription
  Chan,           \* enabled notification channels
  ChanHome,       \* the household of each channel
  Occ,            \* occurrences: [sub, kind, due]
  Inst,           \* concurrent executions of the handler
  LastDay,        \* bound: the last day the clock reaches
  Lead,           \* the reminder_lead_days an account may choose
  DefaultLead,
  AsOf,           \* dates the operator may pass as ?as_of=
  MaxAttempts,    \* MAX_DELIVERY_ATTEMPTS
  Delay,          \* Delay[n]: wait after the n-th failed attempt
  AttemptCap,     \* bound: attempts at which the exploration of a delivery stops
  Retention,      \* how long an abandonment stays listed
  InitialSubs,    \* subscriptions that exist at first
  EditableSubs,   \* subscriptions users create and update
  DeletableSubs,  \* subscriptions users delete
  InitialChans,   \* channels that exist at first
  EditableChans,  \* channels users create and delete
  LosableKeys,    \* channels whose stored secret may become unreadable
  CrashAt,        \* program points at which a run may be cut short
  DbFails,        \* TRUE: a statement may fail
  AckLost,        \* TRUE: a send may reach its target and still report failure
  Prompt          \* TRUE: a run ends well before the shortest retry delay

Day == 0..LastDay
Kind == {"payment", "trial_ending"}
Point == {"idle", "chans", "next", "log", "open", "send", "note", "retry", "renote"}

ASSUME ConstantsAssumption ==
  /\ SubHome \in [Sub -> Household]
  /\ ChanHome \in [Chan -> Household]
  /\ LastDay \in Nat
  /\ Occ \subseteq [sub: Sub, kind: Kind, due: Nat]
  /\ Lead \subseteq 0..365 /\ DefaultLead \in Lead
  /\ AsOf \subseteq Day
  /\ InitialSubs \subseteq Sub /\ EditableSubs \subseteq Sub /\ DeletableSubs \subseteq Sub
  /\ InitialChans \subseteq Chan /\ EditableChans \subseteq Chan
  /\ LosableKeys \subseteq Chan
  /\ CrashAt \subseteq Point
  /\ DbFails \in BOOLEAN /\ AckLost \in BOOLEAN /\ Prompt \in BOOLEAN

ASSUME PolicyAssumption ==
  /\ MaxAttempts \in Nat /\ MaxAttempts > 1
  /\ Delay \in [1..(MaxAttempts - 1) -> Nat \ {0}]
  /\ \A m, n \in 1..(MaxAttempts - 1) : m < n => Delay[m] < Delay[n]
  /\ AttemptCap \in Nat /\ AttemptCap > MaxAttempts
  /\ Retention \in Nat \ {0}

VARIABLES
  subState,    \* "new", "live" or "gone" for each subscription
  plan,        \* occurrences the stored rows of active subscriptions yield
  lead,        \* households.reminder_lead_days
  chanState,   \* "new", "live" or "gone" for each channel
  unreadable,  \* channels channel_from_row cannot build with the current key
  log,         \* reminder_log
  outbox,      \* notification_deliveries, by (channel, as_of)
  nextId,      \* the next row identifier
  today,
  run,         \* the local state of each execution
  owed,        \* history: (occurrence, channel) pairs still to transmit
  skipped,     \* history: pairs passed over because the channel was unreadable
  received     \* history: how often a channel's target got an occurrence (0, 1, 2 = more)

data == <<subState, plan, lead, chanState, unreadable, today>>
history == <<owed, skipped, received>>
vars == <<subState, plan, lead, chanState, unreadable, log, outbox, nextId,
          today, run, owed, skipped, received>>

Row == [id: Nat, batch: SUBSET Occ, attempts: Nat, wait: Nat, age: Nat,
        status: {"none", "pending", "abandoned"}, quiet: Nat]

Claim == [chan: Chan, id: Nat, attempts: Nat, batch: SUBSET Occ]

Execution == [pc: Point, day: Day, due: SUBSET Occ, chans: SUBSET Chan,
              home: SUBSET Household, fresh: SUBSET Occ, queue: SUBSET Chan,
              cur: SUBSET Chan, id: Nat, ok: BOOLEAN, claimed: SUBSET Claim]

NoRow == [id |-> 0, batch |-> {}, attempts |-> 0, wait |-> 0, age |-> 0,
          status |-> "none", quiet |-> 0]

Idle == [pc |-> "idle", day |-> 0, due |-> {}, chans |-> {}, home |-> {}, fresh |-> {},
         queue |-> {}, cur |-> {}, id |-> 0, ok |-> FALSE, claimed |-> {}]

TypeOK ==
  /\ subState \in [Sub -> {"new", "live", "gone"}]
  /\ plan \subseteq Occ
  /\ lead \in [Household -> Lead]
  /\ chanState \in [Chan -> {"new", "live", "gone"}]
  /\ unreadable \subseteq Chan
  /\ log \subseteq Occ
  /\ outbox \in [Chan \X Day -> Row]
  /\ nextId \in Nat \ {0}
  /\ today \in Day
  /\ run \in [Inst -> Execution]
  /\ owed \subseteq Occ \X Chan
  /\ skipped \subseteq Occ \X Chan
  /\ received \in [Occ \X Chan -> 0..2]

Init ==
  /\ subState = [s \in Sub |-> IF s \in InitialSubs THEN "live" ELSE "new"]
  /\ plan = {o \in Occ : o.sub \in InitialSubs}
  /\ lead = [h \in Household |-> DefaultLead]
  /\ chanState = [c \in Chan |-> IF c \in InitialChans THEN "live" ELSE "new"]
  /\ unreadable = {}
  /\ log = {}
  /\ outbox = [k \in Chan \X Day |-> NoRow]
  /\ nextId = 1
  /\ today = 0
  /\ run = [i \in Inst |-> Idle]
  /\ owed = {} /\ skipped = {}
  /\ received = [p \in Occ \X Chan |-> 0]

-----------------------------------------------------------------------------
(* What is due, and what a failure leads to. *)

\* candidate_of / trial_candidate_of: an occurrence is a candidate at d when it
\* is the next one of its subscription and kind, d included.
IsNext(o, d) ==
  /\ o.due >= d
  /\ \A p \in plan : p.sub = o.sub /\ p.kind = o.kind /\ p.due >= d => p.due >= o.due

\* due_reminders: exact trigger, days until the occurrence = the lead time.
Due(d) == {o \in plan : IsNext(o, d) /\ o.due - d = lead[SubHome[o.sub]]}

\* record_emitted: the unique constraint on (household, subscription, due, kind).
IsFreshOccurrence(o) == o \notin log
Journal(o) == log \cup {o}

\* retry_delay_minutes: attempt 0 counts as 1; None once the bound is reached.
Abandons(n) == n >= MaxAttempts
RetryDelay(n) == Delay[IF n = 0 THEN 1 ELSE n]
MaxDelay == Delay[MaxAttempts - 1]

-----------------------------------------------------------------------------
(* The statements on notification_deliveries. *)

\* open: a new row, due for retry after the first delay.
NewRow(id, b) ==
  [id |-> id, batch |-> b, attempts |-> 1, wait |-> RetryDelay(1), age |-> 0,
   status |-> "pending", quiet |-> RetryDelay(1)]

\* open, on conflict (channel_id, as_of): only the payload and updated_at change.
RefreshedRow(r, b) == [r EXCEPT !.batch = b, !.age = 0]

\* claim_due_retries: the conditional update and its where clause.
ClaimableNoDeadlineMutant(r) == r.status = "pending"
ClaimableNoStatusMutant(r) == r.status # "none" /\ r.wait = 0
Claimable(r) == r.status = "pending" /\ r.wait = 0
ClaimedRowUncountedMutant(r) == [r EXCEPT !.wait = MaxDelay, !.age = 0]
ClaimedRowShortMutant(r) ==
  [r EXCEPT !.attempts = @ + 1, !.wait = Delay[1], !.age = 0,
            !.quiet = IF Abandons(r.attempts + 1) THEN MaxDelay ELSE RetryDelay(r.attempts + 1)]
ClaimedRow(r) ==
  [r EXCEPT !.attempts = @ + 1, !.wait = MaxDelay, !.age = 0,
            !.quiet = IF Abandons(r.attempts + 1) THEN MaxDelay ELSE RetryDelay(r.attempts + 1)]

\* record_retry_failure(None): abandoned, without a next attempt.
AbandonedRow(r) == [r EXCEPT !.status = "abandoned", !.wait = 0, !.age = 0, !.quiet = 0]

\* record_retry_failure for the failure of attempt n: with a next attempt the
\* status is left as it is.
FailedRowForeverMutant(r, n) == [r EXCEPT !.wait = MaxDelay, !.age = 0]
FailedRow(r, n) ==
  IF Abandons(n) THEN AbandonedRow(r)
  ELSE [r EXCEPT !.wait = RetryDelay(n), !.age = 0]

\* What the end of a send does to its row: resolve deletes it.
ConcludedRowMutant(r, ok, n) == NoRow
ConcludedRow(r, ok, n) == IF ok THEN NoRow ELSE FailedRow(r, n)

\* purge_abandoned_before.
ExpiredMutant(r) == r.status = "abandoned"
Expired(r) == r.status = "abandoned" /\ r.age >= Retention

\* An update ... where id = $1 (id 0: nothing to update).
RowsOf(id) == {k \in DOMAIN outbox : id # 0 /\ outbox[k].id = id}
Conclude(id, ok, n) ==
  [k \in DOMAIN outbox |->
     IF k \in RowsOf(id) THEN ConcludedRow(outbox[k], ok, n) ELSE outbox[k]]
Abandon(id) ==
  [k \in DOMAIN outbox |-> IF k \in RowsOf(id) THEN AbandonedRow(outbox[k]) ELSE outbox[k]]

\* History: the pairs row id shows as given up once the outbox is ob.
GivenUp(ob, id) ==
  {p \in owed : \E k \in RowsOf(id) : /\ k[1] = p[2]
                                      /\ ob[k].status = "abandoned"
                                      /\ p[1] \in ob[k].batch}

\* History: channel c's target gets batch b.
Receive(b, c) ==
  /\ received' = [p \in DOMAIN received |->
                    IF p[1] \in b /\ p[2] = c /\ received[p] < 2
                    THEN received[p] + 1 ELSE received[p]]
  /\ owed' = owed \ (b \X {c})
  /\ UNCHANGED skipped

-----------------------------------------------------------------------------
(* A run: from the scan to the journal. *)

\* A run starts on today's date or on the operator's ?as_of=, and scans.
Start(i) ==
  /\ run[i].pc = "idle"
  /\ \E d \in {today} \cup AsOf :
       run' = [run EXCEPT ![i] = [Idle EXCEPT !.pc = "chans", !.day = d, !.due = Due(d)]]
  /\ UNCHANGED <<data, log, outbox, nextId, history>>

\* list_enabled_by_household: a second read, after the scan.
LoadChannels(i) ==
  /\ run[i].pc = "chans"
  /\ run' = [run EXCEPT ![i] =
                [run[i] EXCEPT !.pc = "next", !.chans = {c \in Chan : chanState[c] = "live"}]]
  /\ UNCHANGED <<data, log, outbox, nextId, history>>

\* A failed read ends the run with 500, before anything is journalled.
LoadFails(i) ==
  /\ run[i].pc = "chans" /\ DbFails
  /\ run' = [run EXCEPT ![i] = Idle]
  /\ UNCHANGED <<data, log, outbox, nextId, history>>

NextHousehold(i) ==
  /\ run[i].pc = "next"
  /\ \E o \in run[i].due :
       run' = [run EXCEPT ![i] = [run[i] EXCEPT !.pc = "log", !.home = {SubHome[o.sub]}, !.fresh = {}]]
  /\ UNCHANGED <<data, log, outbox, nextId, history>>

HomeDue(i) == {o \in run[i].due : SubHome[o.sub] \in run[i].home}
HomeChans(i) == {c \in run[i].chans : ChanHome[c] \in run[i].home}

\* record_emitted: the winner of the insert adds the occurrence to its batch.
Record(i, o) ==
  /\ run[i].pc = "log" /\ o \in HomeDue(i)
  /\ subState[o.sub] = "live"
  /\ IF IsFreshOccurrence(o)
     THEN /\ log' = Journal(o)
          /\ run' = [run EXCEPT ![i] = [run[i] EXCEPT !.due = @ \ {o}, !.fresh = @ \cup {o}]]
          /\ owed' = owed \cup ({o} \X HomeChans(i))
     ELSE /\ run' = [run EXCEPT ![i] = [run[i] EXCEPT !.due = @ \ {o}]]
          /\ UNCHANGED <<log, owed>>
  /\ UNCHANGED <<data, outbox, nextId, skipped, received>>

\* record_emitted fails (the subscription is gone: foreign key; or the base
\* does): the handler answers 500 and drops the whole run.
RecordFails(i, o) ==
  /\ run[i].pc = "log" /\ o \in HomeDue(i)
  /\ subState[o.sub] # "live" \/ DbFails
  /\ run' = [run EXCEPT ![i] = Idle]
  /\ UNCHANGED <<data, log, outbox, nextId, history>>

\* The household's batch is complete: send it, if there is one, to its channels.
CloseBatch(i) ==
  /\ run[i].pc = "log" /\ HomeDue(i) = {}
  /\ run' = [run EXCEPT ![i] =
                [run[i] EXCEPT !.pc = "open",
                               !.queue = IF run[i].fresh = {} THEN {} ELSE HomeChans(i)]]
  /\ UNCHANGED <<data, log, outbox, nextId, history>>

NextBatch(i) ==
  /\ run[i].pc = "open" /\ run[i].queue = {}
  /\ run' = [run EXCEPT ![i] = [run[i] EXCEPT !.pc = "next", !.home = {}, !.fresh = {}]]
  /\ UNCHANGED <<data, log, outbox, nextId, history>>

-----------------------------------------------------------------------------
(* A run: the first send of a batch, channel by channel. *)

\* channel_from_row gives None and the loop continues: no row is opened and
\* nothing is sent, while the journal has the batch already.  The channel is
\* still owed it, and no later run will send it.
SkipChannel(i, c) ==
  /\ run[i].pc = "open" /\ c \in run[i].queue \cap unreadable
  /\ run' = [run EXCEPT ![i] = [run[i] EXCEPT !.queue = @ \ {c}]]
  /\ skipped' = skipped \cup (run[i].fresh \X {c})
  /\ UNCHANGED <<data, log, outbox, nextId, owed, received>>

\* open, before the send.
Open(i, c) ==
  LET k == <<c, run[i].day>>
      held == outbox[k]
  IN
  /\ run[i].pc = "open" /\ c \in run[i].queue \ unreadable
  /\ chanState[c] = "live"
  /\ outbox' = [outbox EXCEPT ![k] = IF held.id = 0 THEN NewRow(nextId, run[i].fresh)
                                     ELSE RefreshedRow(held, run[i].fresh)]
  /\ nextId' = IF held.id = 0 THEN nextId + 1 ELSE nextId
  /\ run' = [run EXCEPT ![i] =
                [run[i] EXCEPT !.pc = "send", !.queue = @ \ {c}, !.cur = {c},
                               !.id = IF held.id = 0 THEN nextId ELSE held.id]]
  /\ UNCHANGED <<data, log, history>>

\* open fails (the channel is gone, or the base fails): the send goes untracked.
OpenFails(i, c) ==
  /\ run[i].pc = "open" /\ c \in run[i].queue \ unreadable
  /\ chanState[c] # "live" \/ DbFails
  /\ run' = [run EXCEPT ![i] = [run[i] EXCEPT !.pc = "send", !.queue = @ \ {c}, !.cur = {c}, !.id = 0]]
  /\ UNCHANGED <<data, log, outbox, nextId, history>>

\* The send itself: received or not, reported as a success or not.
Send(i) ==
  /\ run[i].pc = "send"
  /\ \E c \in run[i].cur, got \in BOOLEAN, ok \in BOOLEAN :
       /\ ok => got
       /\ got /\ ~ok => AckLost
       /\ run' = [run EXCEPT ![i] = [run[i] EXCEPT !.pc = "note", !.ok = ok]]
       /\ IF got THEN Receive(run[i].fresh, c) ELSE UNCHANGED history
  /\ UNCHANGED <<data, log, outbox, nextId>>

AfterNote(r) == [r EXCEPT !.pc = "open", !.cur = {}, !.id = 0, !.ok = FALSE]

\* resolve after a success, record_retry_failure after a failure.
Note(i) ==
  /\ run[i].pc = "note"
  /\ outbox' = Conclude(run[i].id, run[i].ok, 1)
  /\ owed' = owed \ GivenUp(outbox', run[i].id)
  /\ run' = [run EXCEPT ![i] = AfterNote(@)]
  /\ UNCHANGED <<data, log, nextId, skipped, received>>

\* Its error is ignored.
NoteFails(i) ==
  /\ run[i].pc = "note" /\ DbFails
  /\ run' = [run EXCEPT ![i] = AfterNote(@)]
  /\ UNCHANGED <<data, log, outbox, nextId, history>>

-----------------------------------------------------------------------------
(* A run: the retry phase. *)

\* claim_due_retries: one update takes every due row.
ClaimRetries(i) ==
  LET taken == {k \in DOMAIN outbox : Claimable(outbox[k])} IN
  /\ run[i].pc = "next" /\ run[i].due = {}
  /\ \A k \in taken : outbox[k].attempts < AttemptCap
  /\ outbox' = [k \in DOMAIN outbox |->
                  IF k \in taken THEN ClaimedRow(outbox[k]) ELSE outbox[k]]
  /\ run' = [run EXCEPT ![i] =
       [Idle EXCEPT !.pc = "retry",
                    !.claimed = {[chan |-> k[1], id |-> outbox[k].id,
                                  attempts |-> ClaimedRow(outbox[k]).attempts,
                                  batch |-> outbox[k].batch] : k \in taken}]]
  /\ UNCHANGED <<data, log, nextId, history>>

ClaimFails(i) ==
  /\ run[i].pc = "next" /\ run[i].due = {} /\ DbFails
  /\ run' = [run EXCEPT ![i] = [Idle EXCEPT !.pc = "retry"]]
  /\ UNCHANGED <<data, log, outbox, nextId, history>>

\* The next claimed delivery is replayed with the payload read by the claim.
Resend(i, d) ==
  /\ run[i].pc = "retry" /\ d \in run[i].claimed /\ d.chan \notin unreadable
  /\ \E got \in BOOLEAN, ok \in BOOLEAN :
       /\ ok => got
       /\ got /\ ~ok => AckLost
       /\ run' = [run EXCEPT ![i] = [run[i] EXCEPT !.pc = "renote", !.id = d.id, !.ok = ok]]
       /\ IF got THEN Receive(d.batch, d.chan) ELSE UNCHANGED history
  /\ UNCHANGED <<data, log, outbox, nextId>>

AfterRetry(r, d) ==
  [r EXCEPT !.pc = "retry", !.id = 0, !.ok = FALSE, !.claimed = @ \ {d}]

NoteRetry(i, d) ==
  /\ run[i].pc = "renote" /\ d \in run[i].claimed /\ d.id = run[i].id
  /\ outbox' = Conclude(d.id, run[i].ok, d.attempts)
  /\ owed' = owed \ GivenUp(outbox', d.id)
  /\ run' = [run EXCEPT ![i] = AfterRetry(@, d)]
  /\ UNCHANGED <<data, log, nextId, skipped, received>>

NoteRetryFails(i, d) ==
  /\ run[i].pc = "renote" /\ d \in run[i].claimed /\ d.id = run[i].id /\ DbFails
  /\ run' = [run EXCEPT ![i] = AfterRetry(@, d)]
  /\ UNCHANGED <<data, log, outbox, nextId, history>>

\* The channel can no longer be built: abandoned at once, nothing is sent.
DropUnreadable(i, d) ==
  /\ run[i].pc = "retry" /\ d \in run[i].claimed /\ d.chan \in unreadable
  /\ \/ /\ outbox' = Abandon(d.id)
        /\ owed' = owed \ GivenUp(outbox', d.id)
     \/ DbFails /\ UNCHANGED <<outbox, owed>>
  /\ run' = [run EXCEPT ![i] = AfterRetry(@, d)]
  /\ UNCHANGED <<data, log, nextId, skipped, received>>

\* purge_abandoned_before, and the run answers 200.
Purge(i) ==
  /\ run[i].pc = "retry" /\ run[i].claimed = {}
  /\ \/ outbox' = [k \in DOMAIN outbox |-> IF Expired(outbox[k]) THEN NoRow ELSE outbox[k]]
     \/ DbFails /\ UNCHANGED outbox
  /\ run' = [run EXCEPT ![i] = Idle]
  /\ UNCHANGED <<data, log, nextId, history>>

\* The process dies or the caller hangs up: nothing more of the run happens.
Crash(i) ==
  /\ run[i].pc # "idle" /\ run[i].pc \in CrashAt
  /\ run' = [run EXCEPT ![i] = Idle]
  /\ UNCHANGED <<data, log, outbox, nextId, history>>

-----------------------------------------------------------------------------
(* Time and the users. *)

\* A send lasts at most 10 seconds and the shortest retry delay is an hour, so
\* that runs usually end before a unit of time passes.
Less(n) == IF n = 0 THEN 0 ELSE n - 1
TickedRow(r) ==
  [r EXCEPT !.wait = Less(@), !.quiet = Less(@),
            !.age = IF r.status = "abandoned" /\ @ < Retention THEN @ + 1 ELSE @]

Tick ==
  /\ Prompt => \A i \in Inst : run[i].pc = "idle"
  /\ outbox' = [k \in DOMAIN outbox |-> TickedRow(outbox[k])]
  /\ UNCHANGED <<data, log, nextId, run, history>>

NextDay ==
  /\ today < LastDay
  /\ today' = today + 1
  /\ UNCHANGED <<subState, plan, lead, chanState, unreadable, log, outbox, nextId, run, history>>

OccsOf(s) == {o \in Occ : o.sub = s}

CreateSub(s) ==
  /\ s \in EditableSubs /\ subState[s] = "new"
  /\ subState' = [subState EXCEPT ![s] = "live"]
  /\ plan' = plan \cup OccsOf(s)
  /\ UNCHANGED <<lead, chanState, unreadable, today, log, outbox, nextId, run, history>>

\* An update changes the dates, the cycle or the active flag.
UpdateSub(s) ==
  /\ s \in EditableSubs /\ subState[s] = "live"
  /\ \E p \in SUBSET OccsOf(s) : plan' = (plan \ OccsOf(s)) \cup p
  /\ UNCHANGED <<subState, lead, chanState, unreadable, today, log, outbox, nextId, run, history>>

\* reminder_log.subscription_id cascades.
DeleteSub(s) ==
  /\ s \in DeletableSubs /\ subState[s] = "live"
  /\ subState' = [subState EXCEPT ![s] = "gone"]
  /\ plan' = plan \ OccsOf(s)
  /\ log' = log \ OccsOf(s)
  /\ owed' = owed \ (OccsOf(s) \X Chan)
  /\ UNCHANGED <<lead, chanState, unreadable, today, outbox, nextId, run, skipped, received>>

SetLeadDays(h) ==
  /\ \E n \in Lead : lead' = [lead EXCEPT ![h] = n]
  /\ UNCHANGED <<subState, plan, chanState, unreadable, today, log, outbox, nextId, run, history>>

CreateChannel(c) ==
  /\ c \in EditableChans /\ chanState[c] = "new"
  /\ chanState' = [chanState EXCEPT ![c] = "live"]
  /\ UNCHANGED <<subState, plan, lead, unreadable, today, log, outbox, nextId, run, history>>

\* notification_deliveries.channel_id cascades.
DeleteChannel(c) ==
  /\ c \in EditableChans /\ chanState[c] = "live"
  /\ chanState' = [chanState EXCEPT ![c] = "gone"]
  /\ outbox' = [k \in DOMAIN outbox |-> IF k[1] = c THEN NoRow ELSE outbox[k]]
  /\ owed' = owed \ (Occ \X {c})
  /\ UNCHANGED <<subState, plan, lead, unreadable, today, log, nextId, run, skipped, received>>

\* The server is restarted with, or without, the key that reads c's secret.
ChangeKey(c) ==
  /\ c \in LosableKeys
  /\ \A i \in Inst : run[i].pc = "idle"
  /\ unreadable' = IF c \in unreadable THEN unreadable \ {c} ELSE unreadable \cup {c}
  /\ UNCHANGED <<subState, plan, lead, chanState, today, log, outbox, nextId, run, history>>

Environment ==
  \/ Tick
  \/ NextDay
  \/ \E s \in Sub : CreateSub(s) \/ UpdateSub(s) \/ DeleteSub(s)
  \/ \E h \in Household : SetLeadDays(h)
  \/ \E c \in Chan : CreateChannel(c) \/ DeleteChannel(c) \/ ChangeKey(c)

\* What a started run does next when nothing cuts it short.
Step(i) ==
  \/ LoadChannels(i)
  \/ LoadFails(i)
  \/ NextHousehold(i)
  \/ \E o \in Occ : Record(i, o) \/ RecordFails(i, o)
  \/ CloseBatch(i)
  \/ NextBatch(i)
  \/ \E c \in Chan : SkipChannel(i, c) \/ Open(i, c) \/ OpenFails(i, c)
  \/ Send(i)
  \/ Note(i)
  \/ NoteFails(i)
  \/ ClaimRetries(i)
  \/ ClaimFails(i)
  \/ \E d \in run[i].claimed :
       Resend(i, d) \/ NoteRetry(i, d) \/ NoteRetryFails(i, d) \/ DropUnreadable(i, d)
  \/ Purge(i)

Next ==
  \/ Environment
  \/ \E i \in Inst : Start(i) \/ Step(i) \/ Crash(i)

Spec == Init /\ [][Next]_vars

\* The scheduler keeps calling, a called handler keeps running, time passes.
Fairness ==
  /\ WF_vars(Tick)
  /\ \A i \in Inst : WF_vars(Start(i)) /\ WF_vars(Step(i))

FairSpec == Spec /\ Fairness

-----------------------------------------------------------------------------
(* Properties. *)

\* An occurrence is in the batch of one run at most, however many instances
\* race: the unique constraint of reminder_log is the only lock there is.
OneBatchPerOccurrence ==
  \A i, j \in Inst : i # j => run[i].fresh \cap run[j].fresh = {}

\* A household's channels carry and receive the reminders of that household only.
HouseholdsIsolated ==
  \A o \in Occ, c \in Chan : SubHome[o.sub] # ChanHome[c] =>
    /\ received[<<o, c>>] = 0
    /\ \A d \in Day : o \notin outbox[<<c, d>>].batch

\* A channel's target gets an occurrence at most once, concurrent runs and
\* retries included, as long as no run is cut, every statement succeeds, sends
\* report what happened and end before a retry is due.
AtMostOneDelivery == \A p \in Occ \X Chan : received[p] <= 1

\* Two runs never replay the same delivery at the same time.
ClaimExclusive ==
  \A i, j \in Inst : i # j =>
    {d.id : d \in run[i].claimed} \cap {d.id : d \in run[j].claimed} = {}

\* Both together: no occurrence is delivered twice, no delivery replayed twice at once.
DeliveredOnce == AtMostOneDelivery /\ ClaimExclusive

\* However slow or crashed the runs are, an attempt (a delivery and its number)
\* is made by one run, and the row has counted every attempt in progress.
AttemptOwned ==
  /\ \A i, j \in Inst : i # j => \A d \in run[i].claimed, e \in run[j].claimed :
       d.id = e.id => d.attempts # e.attempts
  /\ \A i \in Inst : \A d \in run[i].claimed : \A k \in RowsOf(d.id) :
       d.attempts <= outbox[k].attempts

\* The invariant the proofs use. An occurrence is accounted for when it is
\* journalled or its subscription is deleted: whatever a run, a claim, a row or a
\* target holds is, which is why no second run can put it in a batch.
Accounted(o) == o \in log \/ subState[o.sub] = "gone"

JournalFirst ==
  /\ \A i \in Inst : \A o \in run[i].fresh : Accounted(o)
  /\ \A i \in Inst : \A d \in run[i].claimed : \A o \in d.batch : Accounted(o)
  /\ \A k \in Chan \X Day : \A o \in outbox[k].batch : Accounted(o)
  /\ \A p \in Occ \X Chan : received[p] > 0 => Accounted(p[1])

\* Row identifiers are never reused, so a claim that outlives its row touches none.
RowsIdentified ==
  /\ \A k \in Chan \X Day : outbox[k].status = "none" <=> outbox[k].id = 0
  /\ \A k \in Chan \X Day : outbox[k].id < nextId
  /\ \A k, l \in Chan \X Day : outbox[k].id = outbox[l].id /\ outbox[k].id # 0 => k = l
  /\ \A i \in Inst : \A d \in run[i].claimed : d.id # 0 /\ d.id < nextId

DeliveryInvariant ==
  TypeOK /\ JournalFirst /\ OneBatchPerOccurrence /\ RowsIdentified /\ AttemptOwned

\* The number of attempts of a delivery is bounded.
AttemptsBounded == \A k \in Chan \X Day : outbox[k].attempts <= MaxAttempts

\* A delivery is due only once the delay that follows its current attempt has
\* passed, also when the run died between the claim and its conclusion.
RetryPace ==
  \A k \in Chan \X Day : Claimable(outbox[k]) => outbox[k].quiet = 0

\* The pairs that some run, or some pending delivery, still carries.
Carried(o, c) ==
  \/ \E i \in Inst :
       \/ /\ o \in run[i].fresh
          /\ \/ run[i].pc = "log" /\ c \in HomeChans(i)
             \/ c \in run[i].queue \cup run[i].cur
       \/ \E d \in run[i].claimed : d.chan = c /\ o \in d.batch
  \/ \E d \in Day : outbox[<<c, d>>].status = "pending" /\ o \in outbox[<<c, d>>].batch

\* No silent loss: an occurrence journalled as emitted reaches a channel, is
\* given up in the user's sight, or is still carried by a run or a delivery.
NoSilentLoss ==
  \A p \in owed : chanState[p[2]] = "live" => Carried(p[1], p[2])

\* The code loses in silence what a run passes over because the secret of the
\* channel cannot be read at its turn; this is the only loss there is when a run
\* is not cut before the row is open and a household has one batch a day.
OnlySkippedLost ==
  \A p \in owed \ skipped : chanState[p[2]] = "live" => Carried(p[1], p[2])

\* What is owed goes to the channels of its household: all of it, what was passed
\* over excepted, and nothing else.
OwedToItsHousehold == OnlySkippedLost /\ HouseholdsIsolated

\* Abandonment is terminal: the row is never attempted or revived.
AbandonmentFinal ==
  [][\A k \in Chan \X Day :
       outbox[k].status = "abandoned" /\ outbox'[k].id = outbox[k].id =>
         /\ outbox'[k].status = "abandoned"
         /\ outbox'[k].attempts = outbox[k].attempts]_vars

\* An abandonment stays listed for the retention period, unless the user
\* deletes its channel or a run that was still sending this delivery succeeds.
AbandonmentVisible ==
  [][\A k \in Chan \X Day :
       outbox[k].status = "abandoned" /\ outbox'[k].status # "abandoned" =>
         \/ outbox[k].age >= Retention
         \/ chanState'[k[1]] = "gone"
         \/ \E i \in Inst : /\ run[i].pc \in {"note", "renote"} /\ run[i].ok
                            /\ run[i].id = outbox[k].id]_vars

\* With the scheduler calling and no run cut short, what is owed to a channel is
\* delivered or given up in sight, unless the user deletes the channel first or a
\* run passes over it because the channel's secret cannot be read at its turn.
EverythingSettles ==
  \A p \in Occ \X Chan :
    (p \in owed \ skipped /\ chanState[p[2]] = "live")
      ~> (p \notin owed \/ p \in skipped \/ chanState[p[2]] = "gone")

=============================================================================
