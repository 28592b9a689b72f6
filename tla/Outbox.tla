------------------------------- MODULE Outbox -------------------------------
(* The outbox of the edits made without network (localStorage, one key) and   *)
(* the calls of flushOutbox that push it: at the start of the page and at     *)
(* each "online" event, with nothing that keeps two calls apart.              *)
(* Edits are numbered in the order they are made.  The push handler executes  *)
(* a batch operation by operation and may stop on the way (its statements are *)
(* the module SyncPush); here what it executed of a batch is one step, since  *)
(* only two batches together could tell the difference, and crossed tells     *)
(* them.                                                                      *)
EXTENDS SequencesExt

CONSTANTS
  Flushers,      \* calls of flushOutbox that may be in flight at once
  MaxEdits,      \* bound on the edits
  MaxFailures    \* bound on failing and late requests

ASSUME OutboxAssumption == IsFiniteSet(Flushers) /\ MaxEdits \in Nat /\ MaxFailures \in Nat

VARIABLES
  queue,         \* wallos.outbox
  flush,         \* [Flushers -> Seq]: the batch each call has sent
  wire,          \* batches whose sender has given up, that may still arrive
  failures,
  edits,         \* history: how many edits were made
  executed,      \* history: how often the server executed each edit
  effect,        \* history: the edit whose execution was the last
  hidden,        \* history: edits queued while a batch was in flight
  sends,         \* history: how many batches each edit was part of
  crossed        \* history: two batches were under way together

outboxVars == <<queue, flush, wire, failures, edits, executed, effect, hidden, sends, crossed>>

OutboxInit ==
  /\ queue = <<>> /\ flush = [f \in Flushers |-> <<>>] /\ wire = {}
  /\ failures = 0 /\ edits = 0
  /\ executed = [n \in 1 .. MaxEdits |-> 0] /\ effect = 0
  /\ hidden = {} /\ sends = executed /\ crossed = FALSE

InFlight == {f \in Flushers : flush[f] # <<>>}

Queued(ops, n) == Append(ops, n)

(* enqueue: read, push, save, without an await. *)
Enqueue ==
  /\ edits < MaxEdits
  /\ edits' = edits + 1
  /\ queue' = Queued(queue, edits + 1)
  /\ hidden' = IF InFlight = {} THEN hidden ELSE hidden \union {edits + 1}
  /\ UNCHANGED <<flush, wire, failures, executed, effect, sends, crossed>>

Counted(count, ops) == [n \in DOMAIN count |-> count[n] + IF Contains(ops, n) THEN 1 ELSE 0]

(* flushOutbox reads the queue and sends it; an empty one sends nothing. *)
FlushOutbox(f) ==
  /\ flush[f] = <<>> /\ queue # <<>>
  /\ flush' = [flush EXCEPT ![f] = queue]
  /\ sends' = Counted(sends, queue)
  /\ crossed' = (crossed \/ InFlight # {} \/ wire # {})
  /\ UNCHANGED <<queue, wire, failures, edits, executed, effect, hidden>>

(* The server executes a batch in its order, up to the k-th operation: the   *)
(* one after it fails and answers 500, or the handler ends with the           *)
(* connection or the process.  What was executed stays.                       *)
Executed(ops, k) == SubSeq(ops, 1, k)
Push(ops, k) ==
  /\ executed' = Counted(executed, Executed(ops, k))
  /\ effect' = IF k = 0 THEN effect ELSE ops[k]

(* clearOutbox removes the key: what was queued meanwhile goes as well.      *)
ClearOutboxMutant(sent) == queue
ClearOutbox(sent) == <<>>

(* A success clears the queue; any other answer keeps it.                    *)
SettleMutant(answer, sent) == ClearOutbox(sent)
Settle(answer, sent) == IF answer = "ok" THEN ClearOutbox(sent) ELSE queue

(* The batch is executed to its end and its answer arrives. *)
Answered(f) ==
  /\ flush[f] # <<>>
  /\ Push(flush[f], Len(flush[f]))
  /\ queue' = Settle("ok", flush[f])
  /\ flush' = [flush EXCEPT ![f] = <<>>]
  /\ UNCHANGED <<wire, failures, edits, hidden, sends, crossed>>

(* The call fails: there is no network, a problem response comes, or the      *)
(* answer gets lost.  The server executed nothing, a part, or all of it.      *)
TurnedDown(f) ==
  /\ flush[f] # <<>> /\ failures < MaxFailures
  /\ \E k \in 0 .. Len(flush[f]) : Push(flush[f], k)
  /\ failures' = failures + 1
  /\ queue' = Settle("refused", flush[f])
  /\ flush' = [flush EXCEPT ![f] = <<>>]
  /\ UNCHANGED <<wire, edits, hidden, sends, crossed>>

(* The connection breaks, or the page is closed, with the request under way. *)
GiveUp(f) ==
  /\ flush[f] # <<>> /\ failures < MaxFailures
  /\ failures' = failures + 1
  /\ wire' = wire \union {[ops |-> flush[f], nth |-> failures]}
  /\ flush' = [flush EXCEPT ![f] = <<>>]
  /\ UNCHANGED <<queue, edits, executed, effect, hidden, sends, crossed>>

ArriveLate ==
  /\ \E late \in wire :
       /\ \E k \in 0 .. Len(late.ops) : Push(late.ops, k)
       /\ wire' = wire \ {late}
  /\ UNCHANGED <<queue, flush, failures, edits, hidden, sends, crossed>>

OutboxNext ==
  \/ Enqueue
  \/ \E f \in Flushers : FlushOutbox(f) \/ Answered(f) \/ TurnedDown(f) \/ GiveUp(f)
  \/ ArriveLate

OutboxSpec == OutboxInit /\ [][OutboxNext]_outboxVars

-----------------------------------------------------------------------------
(* An edit that has left the queue without being executed was queued while a  *)
(* batch was under way: clearOutbox loses no other edit, whichever calls of   *)
(* flushOutbox fail or answer late (outbox.ts, flushOutbox).                  *)
EditsKept == \A n \in 1 .. edits : executed[n] > 0 \/ Contains(queue, n) \/ n \in hidden

(* The server executes an edit once for each batch that carried it at most,   *)
(* and an edit that went through without failure nor overlap once in all:     *)
(* the outbox sends no key, so that nothing else tells a repetition           *)
(* (outbox.ts:80, api.POST without Idempotency-Key).                          *)
RepeatsExplained ==
  \A n \in 1 .. edits :
    /\ executed[n] <= sends[n]
    /\ failures = 0 /\ ~crossed => executed[n] <= 1

(* When nothing is under way and no two batches ever were together, an edit   *)
(* newer than the one executed last is still queued if the server ever        *)
(* executed it: a batch sent again that stops half way leaves an older edit   *)
(* over a newer one only until the batch goes through (sync.rs:506,           *)
(* push_sync_changes answers 500 with the first operations applied;           *)
(* outbox.ts, flushOutbox keeps the queue).                                   *)
LatestEditWins ==
  ~crossed /\ InFlight = {} /\ wire = {} =>
    \A n \in 1 .. edits : executed[n] > 0 => n <= effect \/ Contains(queue, n)

(* Both together: what a batch sent again can do to the server is bounded, in *)
(* number and in order.                                                       *)
SendsExplained == RepeatsExplained /\ LatestEditWins
=============================================================================
