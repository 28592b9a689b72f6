----------------------------- MODULE Idempotency -----------------------------
(***************************************************************************)
(* The idempotency keys of the write handlers.                             *)
(*                                                                         *)
(* A write request may carry an Idempotency-Key.  begin reserves the key   *)
(* (insert, else select, else a conditional update that takes over an      *)
(* orphan), the handler executes, then finish stores the successful answer *)
(* in the row, or abort deletes the row.  Each of these is one statement   *)
(* that commits by itself, and handlers interleave between them, on one    *)
(* server or on several.  A handler may be cut at any await: the process   *)
(* dies, or the client disconnects and the server drops the request.       *)
(*                                                                         *)
(* What is executed is left open here: an execution ends with any answer   *)
(* of Result, or fails.  SyncPush gives the execution of POST /sync/push.  *)
(***************************************************************************)
EXTENDS Integers, FiniteSets

CONSTANTS
  Handler,     \* concurrent executions of a write handler
  Request,     \* the requests clients send, each any number of times
  Slot,        \* (user, key) pairs
  SlotOf,      \* the pair of a request, NoSlot when it carries no key
  BodyOf,      \* the body of a request, which is its fingerprint
  Result,      \* the successful answers
  NoSlot, NoRequest, NoResult,
  MaxFaults,   \* bound: cut handlers and failing statements
  Slow         \* TRUE: an execution may outlast RESERVATION_TTL

ASSUME KeysAssumption ==
  /\ SlotOf \in [Request -> Slot \cup {NoSlot}] /\ NoSlot \notin Slot
  /\ BodyOf \in [Request -> {BodyOf[r] : r \in Request}]
  /\ NoRequest \notin Request
  /\ NoResult \notin Result
  /\ MaxFaults \in Nat
  /\ Slow \in BOOLEAN

VARIABLES
  keys,     \* idempotency_keys
  handler,  \* the local state of each handler
  answers,  \* history: the successful answers clients received under a key
  effects,  \* history: executions that succeeded, per key
  lost,     \* history: executions that succeeded and left no record, per key
  faults

keyVars == <<keys, handler, answers, effects, lost, faults>>

Body == {BodyOf[r] : r \in Request}

NoKey == [state |-> "none", body |-> NoResult, res |-> NoResult, old |-> FALSE]

\* A row: `done' when response_status is not PENDING, `old' when created_at is
\* older than RESERVATION_TTL (of interest while the row is pending only).
KeyRow ==
  {NoKey} \cup [state: {"pending"}, body: Body, res: {NoResult}, old: BOOLEAN]
          \cup [state: {"done"}, body: Body, res: Result, old: BOOLEAN]

Reserved(b) == [state |-> "pending", body |-> b, res |-> NoResult, old |-> FALSE]

\* The row with the answer and its status.
Recorded(k, res) == [k EXCEPT !.state = "done", !.res = res]

KeyPoint == {"idle", "insert", "select", "reclaim", "exec", "finish", "abort"}

HandlerState == [pc: KeyPoint, req: Request \cup {NoRequest}, res: Result \cup {NoResult}]

Free == [pc |-> "idle", req |-> NoRequest, res |-> NoResult]

Answer == [slot: Slot, body: Body, res: Result]

KeysTypeOK ==
  /\ keys \in [Slot -> KeyRow]
  /\ handler \in [Handler -> HandlerState]
  /\ answers \subseteq Answer
  /\ effects \in [Slot -> Nat]
  /\ lost \in [Slot -> Nat]
  /\ faults \in 0..MaxFaults

KeysInit ==
  /\ keys = [s \in Slot |-> NoKey]
  /\ handler = [h \in Handler |-> Free]
  /\ answers = {}
  /\ effects = [s \in Slot |-> 0]
  /\ lost = [s \in Slot |-> 0]
  /\ faults = 0

-----------------------------------------------------------------------------
At(h, pc) == handler[h].pc = pc
SlotAt(h) == SlotOf[handler[h].req]
BodyAt(h) == BodyOf[handler[h].req]
Keyed(h) == SlotAt(h) # NoSlot

Goto(h, pc) == handler' = [handler EXCEPT ![h].pc = pc]
End(h) == handler' = [handler EXCEPT ![h] = Free]

\* The client receives the success `res'.
Reply(h, res) == answers' = answers \cup {[slot |-> SlotAt(h), body |-> BodyAt(h), res |-> res]}

Fault == faults < MaxFaults /\ faults' = faults + 1

\* A request arrives: for the first time, again, or duplicated on its way.
Receive(h, r) ==
  /\ At(h, "idle")
  /\ handler' = [handler EXCEPT ![h] =
       [Free EXCEPT !.pc = IF SlotOf[r] = NoSlot THEN "exec" ELSE "insert", !.req = r]]
  /\ UNCHANGED <<keys, answers, effects, lost, faults>>

\* Mutant: on conflict do update.
InsertedKeyMutant(k, b) == Reserved(b)

\* insert ... on conflict do nothing
InsertedKey(k, b) == IF k.state = "none" THEN Reserved(b) ELSE k

InsertKey(h) ==
  /\ At(h, "insert")
  /\ keys' = [keys EXCEPT ![SlotAt(h)] = InsertedKey(keys[SlotAt(h)], BodyAt(h))]
  /\ Goto(h, IF keys[SlotAt(h)].state = "none" THEN "exec" ELSE "select")
  /\ UNCHANGED <<answers, effects, lost, faults>>

\* The stored row answers the request: a replay.  Otherwise, unless it is pending,
\* the request is refused with 409.
Replays(k, b) == k.state = "done" /\ k.body = b

SelectKey(h) ==
  LET k == keys[SlotAt(h)]
  IN /\ At(h, "select")
     /\ \/ k.state = "pending" /\ Goto(h, "reclaim") /\ UNCHANGED answers
        \/ Replays(k, BodyAt(h)) /\ End(h) /\ Reply(h, k.res)
        \/ k.state # "pending" /\ ~Replays(k, BodyAt(h)) /\ End(h) /\ UNCHANGED answers
     /\ UNCHANGED <<keys, effects, lost, faults>>

\* Mutant: the age is not compared.
OrphanAgelessMutant(k) == k.state = "pending"

\* Mutant: nothing takes an orphan over.
OrphanNeverMutant(k) == FALSE

\* The conditional update: pending, and older than the TTL.
Orphan(k) == k.state = "pending" /\ k.old

ReclaimedKey(k, b) == IF Orphan(k) THEN Reserved(b) ELSE k

ReclaimKey(h) ==
  /\ At(h, "reclaim")
  /\ keys' = [keys EXCEPT ![SlotAt(h)] = ReclaimedKey(keys[SlotAt(h)], BodyAt(h))]
  /\ IF Orphan(keys[SlotAt(h)]) THEN Goto(h, "exec") ELSE End(h)
  /\ UNCHANGED <<answers, effects, lost, faults>>

\* A statement of begin fails, whether or not it took effect: 500.
BeginFails(h) ==
  /\ Fault
  /\ handler[h].pc \in {"insert", "select", "reclaim"}
  /\ \/ UNCHANGED keys
     \/ At(h, "insert") /\ keys' = [keys EXCEPT ![SlotAt(h)] = InsertedKey(@, BodyAt(h))]
     \/ At(h, "reclaim") /\ keys' = [keys EXCEPT ![SlotAt(h)] = ReclaimedKey(@, BodyAt(h))]
  /\ End(h)
  /\ UNCHANGED <<answers, effects, lost>>

\* The execution succeeds; without a key finish is a no-op and the answer leaves.
Succeed(h, res) ==
  /\ At(h, "exec")
  /\ IF Keyed(h)
     THEN /\ handler' = [handler EXCEPT ![h].pc = "finish", ![h].res = res]
          /\ effects' = [effects EXCEPT ![SlotAt(h)] = @ + 1]
     ELSE End(h) /\ UNCHANGED effects
  /\ UNCHANGED <<keys, answers, lost, faults>>

\* The execution ends with an error, which is never recorded.
Fail(h) ==
  /\ At(h, "exec")
  /\ IF Keyed(h) THEN Goto(h, "abort") ELSE End(h)
  /\ UNCHANGED <<keys, answers, effects, lost, faults>>

\* complete: an update by (user, key), whoever reserved the row.
CompletedKey(k, res) == IF k.state = "none" THEN k ELSE Recorded(k, res)

Finish(h) ==
  /\ At(h, "finish")
  /\ keys' = [keys EXCEPT ![SlotAt(h)] = CompletedKey(@, handler[h].res)]
  /\ End(h)
  /\ Reply(h, handler[h].res)
  /\ UNCHANGED <<effects, lost, faults>>

\* finish is best effort: the client gets its answer all the same.
FinishFails(h) ==
  /\ Fault
  /\ At(h, "finish")
  /\ \/ keys' = [keys EXCEPT ![SlotAt(h)] = CompletedKey(@, handler[h].res)] /\ UNCHANGED lost
     \/ lost' = [lost EXCEPT ![SlotAt(h)] = @ + 1] /\ UNCHANGED keys
  /\ End(h)
  /\ Reply(h, handler[h].res)
  /\ UNCHANGED effects

\* release: a delete by (user, key), whoever reserved the row.
ReleasedKey == NoKey

Abort(h) ==
  /\ At(h, "abort")
  /\ keys' = [keys EXCEPT ![SlotAt(h)] = ReleasedKey]
  /\ End(h)
  /\ UNCHANGED <<answers, effects, lost, faults>>

\* The row stays, or the delete took effect and only its report was lost.
AbortFails(h) ==
  /\ Fault
  /\ At(h, "abort")
  /\ keys' \in {keys, [keys EXCEPT ![SlotAt(h)] = ReleasedKey]}
  /\ End(h)
  /\ UNCHANGED <<answers, effects, lost>>

\* The handler is dropped: its process dies, or its client has gone.
Cut(h) ==
  /\ Fault
  /\ ~At(h, "idle")
  /\ lost' = IF At(h, "finish") THEN [lost EXCEPT ![SlotAt(h)] = @ + 1] ELSE lost
  /\ End(h)
  /\ UNCHANGED <<keys, answers, effects>>

-----------------------------------------------------------------------------
\* From the reservation to its completion or release.
Holds(h, s) == handler[h].pc \in {"exec", "finish", "abort"} /\ SlotAt(h) = s

\* Five minutes pass for a reservation; unless Slow, no execution lasts that long.
Age(s) ==
  /\ keys[s].state = "pending" /\ ~keys[s].old
  /\ Slow \/ \A h \in Handler : ~Holds(h, s)
  /\ keys' = [keys EXCEPT ![s].old = TRUE]
  /\ UNCHANGED <<handler, answers, effects, lost, faults>>

\* The statements of begin, finish and abort.
KeyStep(h) ==
  \/ InsertKey(h)
  \/ SelectKey(h)
  \/ ReclaimKey(h)
  \/ Finish(h)
  \/ Abort(h)

KeyFault(h) ==
  \/ BeginFails(h)
  \/ FinishFails(h)
  \/ AbortFails(h)

Execute(h) == Fail(h) \/ \E res \in Result : Succeed(h, res)

KeysNext ==
  \/ \E h \in Handler, r \in Request : Receive(h, r)
  \/ \E h \in Handler : KeyStep(h) \/ Execute(h) \/ KeyFault(h) \/ Cut(h)
  \/ \E s \in Slot : Age(s)

KeysSpec == KeysInit /\ [][KeysNext]_keyVars

Answered(r) == \E a \in answers : a.slot = SlotOf[r] /\ a.body = BodyOf[r]

\* A client sends again until it is answered; handlers run; time passes; an
\* execution does not fail for ever.
KeysFairness ==
  /\ \A r \in Request : SF_keyVars(~Answered(r) /\ \E h \in Handler : Receive(h, r))
  /\ \A h \in Handler :
       /\ WF_keyVars(KeyStep(h) \/ Execute(h))
       /\ SF_keyVars(At(h, "exec") /\ Keyed(h) /\ \E res \in Result : Succeed(h, res))
  /\ \A s \in Slot : WF_keyVars(Age(s))

FairKeysSpec == KeysSpec /\ KeysFairness

-----------------------------------------------------------------------------
(* Properties.  All of them need that no execution outlasts the TTL.       *)

\* A reservation has one holder at a time: never do two handlers execute under the
\* same key, whatever the order of their inserts, selects and conditional updates,
\* and of the releases in between.
OneHolder ==
  \A s \in Slot : \A g, h \in Handler : Holds(g, s) /\ Holds(h, s) => g = h

\* The holder's row is there, pending, young and carries its fingerprint: what it
\* will record or release is its own reservation.
HolderOwnsRow ==
  \A s \in Slot : \A h \in Handler : Holds(h, s) => keys[s] = Reserved(BodyAt(h))

\* A request is executed again after a success only if that success left no record
\* (a cut before finish, or a failing finish): each repeated effect has its fault.
RepeatsNeedLoss ==
  \A s \in Slot : lost[s] <= effects[s] /\ effects[s] <= lost[s] + 1

\* Unless a record was lost, what a client was once answered is what the row keeps
\* and what every later replay of that body will be answered.
AnswerKept ==
  \A a \in answers : lost[a.slot] = 0 =>
    keys[a.slot].state = "done" /\ Replays(keys[a.slot], a.body) /\ keys[a.slot].res = a.res

\* A handler that is past begin works for a request, and finishes with an answer;
\* only keyed requests go through begin, finish and abort.
Located ==
  \A h \in Handler : ~At(h, "idle") =>
    /\ handler[h].req \in Request
    /\ At(h, "exec") \/ Keyed(h)
    /\ At(h, "finish") => handler[h].res \in Result

\* Every success is recorded, about to be, or lost: none is counted twice.
Settled(s) == keys[s].state = "done" \/ \E h \in Handler : At(h, "finish") /\ SlotAt(h) = s
Accounted == \A s \in Slot : effects[s] = IF Settled(s) THEN lost[s] + 1 ELSE lost[s]

\* The inductive invariant of the protocol.
KeysInvariant ==
  KeysTypeOK /\ Located /\ HolderOwnsRow /\ OneHolder /\ Accounted /\ AnswerKept

\* A recorded answer is never replaced nor released: no late statement of another
\* handler touches it.
RecordFinal ==
  [][\A s \in Slot : keys[s].state = "done" => keys'[s] = keys[s]]_keyVars

\* A reservation never blocks its key for ever, although its holder may have been
\* cut: a client that keeps trying is answered, or refused because the key has
\* recorded the answer to another body.
RetriesEnd ==
  \A r \in Request : SlotOf[r] # NoSlot =>
    <>(Answered(r) \/ (keys[SlotOf[r]].state = "done" /\ keys[SlotOf[r]].body # BodyOf[r]))
=============================================================================
