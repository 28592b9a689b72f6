-------------------------- MODULE IdempotencyProofs --------------------------
(***************************************************************************)
(* Proofs about the idempotency keys, for any number of handlers, keys,    *)
(* requests and faults, under the one assumption that the comment of       *)
(* RESERVATION_TTL states: no execution outlasts the reservation.          *)
(***************************************************************************)
EXTENDS Idempotency, TLAPS

-----------------------------------------------------------------------------
(* What a step does to the state of its handler.                           *)

\* Goto only moves the handler.
LEMMA GotoMoves ==
  ASSUME handler \in [Handler -> HandlerState], NEW h \in Handler, NEW pc \in KeyPoint, Goto(h, pc)
  PROVE  /\ handler' \in [Handler -> HandlerState]
         /\ handler'[h].pc = pc
         /\ handler'[h].req = handler[h].req
         /\ handler'[h].res = handler[h].res
         /\ \A g \in Handler : g # h => handler'[g] = handler[g]
<1> DEFINE new == [handler[h] EXCEPT !.pc = pc]
<1>1. new \in HandlerState
  <2>1. handler[h] \in HandlerState
    OBVIOUS
  <2>. QED BY <2>1 DEF HandlerState
<1>2. handler' = [handler EXCEPT ![h] = new]
  BY DEF Goto
<1>3. new.pc = pc /\ new.req = handler[h].req /\ new.res = handler[h].res
  <2>1. handler[h] \in HandlerState
    OBVIOUS
  <2>. QED BY <2>1 DEF HandlerState
<1>. HIDE DEF new
<1>. QED BY <1>1, <1>2, <1>3

\* End frees the handler.
LEMMA EndFrees ==
  ASSUME handler \in [Handler -> HandlerState], NEW h \in Handler, End(h)
  PROVE  /\ handler' \in [Handler -> HandlerState]
         /\ handler'[h].pc = "idle"
         /\ \A g \in Handler : g # h => handler'[g] = handler[g]
<1>1. Free \in HandlerState /\ Free.pc = "idle"
  BY DEF Free, HandlerState, KeyPoint
<1>2. handler' = [handler EXCEPT ![h] = Free]
  BY DEF End
<1>. QED BY <1>1, <1>2

\* The rows the statements write are rows.
LEMMA RowTypes ==
  ASSUME NEW b \in Body, NEW k \in KeyRow
  PROVE  /\ Reserved(b) \in KeyRow
         /\ NoKey \in KeyRow
         /\ InsertedKey(k, b) \in KeyRow
         /\ ReclaimedKey(k, b) \in KeyRow
         /\ k.state = "pending" => [k EXCEPT !.old = TRUE] \in KeyRow
<1>1. Reserved(b) \in KeyRow /\ NoKey \in KeyRow
  BY DEF Reserved, NoKey, KeyRow
<1>2. ASSUME k.state = "pending"
      PROVE  [k EXCEPT !.old = TRUE] \in KeyRow
  <2>1. k \in [state: {"pending"}, body: Body, res: {NoResult}, old: BOOLEAN]
    BY <1>2 DEF KeyRow, NoKey
  <2>. QED BY <2>1 DEF KeyRow
<1>. QED BY <1>1, <1>2 DEF InsertedKey, ReclaimedKey

\* Recording an answer in a reservation.
LEMMA RecordTypes ==
  ASSUME NEW b \in Body, NEW res \in Result
  PROVE  /\ CompletedKey(Reserved(b), res) \in KeyRow
         /\ CompletedKey(Reserved(b), res).state = "done"
         /\ CompletedKey(Reserved(b), res).body = b
         /\ CompletedKey(Reserved(b), res).res = res
<1>1. CompletedKey(Reserved(b), res) = [state |-> "done", body |-> b, res |-> res, old |-> FALSE]
  BY DEF CompletedKey, Recorded, Reserved
<1>. QED BY <1>1 DEF KeyRow

\* A row that is held is pending and young.
LEMMA HeldIsPending ==
  ASSUME KeysInvariant, NEW s \in Slot, NEW g \in Handler, Holds(g, s)
  PROVE  keys[s].state = "pending" /\ ~keys[s].old
<1>1. keys[s] = Reserved(BodyAt(g))
  BY DEF KeysInvariant, HolderOwnsRow
<1>2. Reserved(BodyAt(g)).state = "pending" /\ ~Reserved(BodyAt(g)).old
  BY DEF Reserved
<1>. QED BY <1>1, <1>2

\* The request of a busy handler has a body, and a slot if it carries a key.
LEMMA Places ==
  ASSUME Located, NEW h \in Handler, ~At(h, "idle")
  PROVE  BodyAt(h) \in Body /\ (Keyed(h) => SlotAt(h) \in Slot)
BY KeysAssumption DEF Located, BodyAt, SlotAt, Keyed, Body

-----------------------------------------------------------------------------
(* One handler moves.                                                      *)

\* The types and the ownership of the rows survive a step of one handler that leaves
\* the rows of the others alone, and after which it holds at most a row that is its
\* own reservation and that nobody else held.
LEMMA OwnershipKept ==
  ASSUME KeysInvariant, NEW h \in Handler,
         handler' \in [Handler -> HandlerState],
         \A g \in Handler : g # h => handler'[g] = handler[g],
         handler'[h].pc # "idle" =>
           /\ handler'[h].req \in Request
           /\ handler'[h].pc = "exec" \/ SlotOf[handler'[h].req] # NoSlot
           /\ handler'[h].pc = "finish" => handler'[h].res \in Result,
         keys' \in [Slot -> KeyRow],
         answers' \subseteq Answer,
         effects' \in [Slot -> Nat], lost' \in [Slot -> Nat], faults' \in 0..MaxFaults,
         \A s \in Slot : keys'[s] # keys[s] => \A g \in Handler : g # h => ~Holds(g, s),
         \A s \in Slot : Holds(h, s)' =>
           /\ keys'[s] = Reserved(BodyAt(h)')
           /\ \A g \in Handler : g # h => ~Holds(g, s)
  PROVE  KeysTypeOK' /\ Located' /\ HolderOwnsRow' /\ OneHolder'
<1>. USE DEF KeysInvariant
<1>1. KeysTypeOK'
  BY DEF KeysTypeOK
<1>2. Located'
  <2>. SUFFICES ASSUME NEW g \in Handler, ~At(g, "idle")'
                PROVE  ( /\ handler[g].req \in Request
                         /\ At(g, "exec") \/ Keyed(g)
                         /\ At(g, "finish") => handler[g].res \in Result )'
    BY DEF Located
  <2>1. CASE g = h
    BY <2>1 DEF At, Keyed, SlotAt
  <2>2. CASE g # h
    BY <2>2 DEF Located, At, Keyed, SlotAt
  <2>. QED BY <2>1, <2>2
<1>3. \A g \in Handler, s \in Slot : g # h => (Holds(g, s)' <=> Holds(g, s)) /\ BodyAt(g)' = BodyAt(g)
  BY DEF Holds, SlotAt, BodyAt
<1>4. HolderOwnsRow'
  <2>. SUFFICES ASSUME NEW s \in Slot, NEW g \in Handler, Holds(g, s)'
                PROVE  keys'[s] = Reserved(BodyAt(g)')
    BY DEF HolderOwnsRow, Reserved
  <2>1. CASE g = h
    BY <2>1
  <2>2. CASE g # h
    <3>1. Holds(g, s) /\ BodyAt(g)' = BodyAt(g)
      BY <1>3, <2>2
    <3>2. keys'[s] = keys[s]
      BY <3>1, <2>2
    <3>. QED BY <3>1, <3>2 DEF HolderOwnsRow
  <2>. QED BY <2>1, <2>2
<1>5. OneHolder'
  <2>. SUFFICES ASSUME NEW s \in Slot, NEW f \in Handler, NEW g \in Handler,
                       Holds(f, s)', Holds(g, s)', f # g
                PROVE  FALSE
    BY DEF OneHolder
  <2>1. CASE f = h \/ g = h
    BY <1>3, <2>1
  <2>2. CASE f # h /\ g # h
    BY <1>3, <2>2 DEF OneHolder
  <2>. QED BY <2>1, <2>2
<1>. QED BY <1>1, <1>2, <1>4, <1>5

\* The counters stay right for a slot when they do not change, its row is as much
\* recorded as before, and the same handlers are about to finish.
LEMMA AccountsKept ==
  ASSUME KeysInvariant, NEW s \in Slot,
         (keys[s].state = "done")' <=> keys[s].state = "done", effects'[s] = effects[s], lost'[s] = lost[s],
         \A g \in Handler : (At(g, "finish") /\ SlotAt(g) = s)' <=> (At(g, "finish") /\ SlotAt(g) = s)
  PROVE  effects'[s] = IF Settled(s)' THEN lost'[s] + 1 ELSE lost'[s]
<1>1. Settled(s)' <=> Settled(s)
  BY DEF Settled
<1>. QED BY <1>1 DEF KeysInvariant, Accounted

\* The same for what clients were answered.
LEMMA AnswersKept ==
  ASSUME KeysInvariant, answers' = answers,
         \A s \in Slot : lost'[s] = 0 => lost[s] = 0 /\ (keys[s].state = "done" => keys'[s] = keys[s])
  PROVE  AnswerKept'
<1>. SUFFICES ASSUME NEW a \in answers, lost'[a.slot] = 0
              PROVE  (keys[a.slot].state = "done" /\ Replays(keys[a.slot], a.body) /\ keys[a.slot].res = a.res)'
  BY DEF AnswerKept
<1>1. a \in Answer
  BY DEF KeysInvariant, KeysTypeOK
<1>2. a.slot \in Slot
  BY <1>1 DEF Answer
<1>3. lost[a.slot] = 0
  BY <1>2
<1>4. keys[a.slot].state = "done" /\ Replays(keys[a.slot], a.body) /\ keys[a.slot].res = a.res
  BY <1>3 DEF KeysInvariant, AnswerKept
<1>5. keys'[a.slot] = keys[a.slot]
  BY <1>2, <1>4
<1>. QED BY <1>4, <1>5 DEF Replays

-----------------------------------------------------------------------------
(* Each action preserves the invariant.                                    *)

\* Receiving a request keeps the invariant.
LEMMA ReceiveKeeps ==
  ASSUME KeysInvariant, NEW h \in Handler, NEW r \in Request, Receive(h, r)
  PROVE  KeysInvariant'
<1>. USE DEF KeysInvariant
<1>1. /\ handler' \in [Handler -> HandlerState]
      /\ \A g \in Handler : g # h => handler'[g] = handler[g]
      /\ handler'[h].pc = IF SlotOf[r] = NoSlot THEN "exec" ELSE "insert"
      /\ handler'[h].req = r
  <2> DEFINE new == [Free EXCEPT !.pc = IF SlotOf[r] = NoSlot THEN "exec" ELSE "insert", !.req = r]
  <2>1. new \in HandlerState /\ new.pc = (IF SlotOf[r] = NoSlot THEN "exec" ELSE "insert") /\ new.req = r
    BY DEF HandlerState, Free, KeyPoint
  <2>2. handler' = [handler EXCEPT ![h] = new]
    BY DEF Receive
  <2>. HIDE DEF new
  <2>. QED BY <2>1, <2>2 DEF KeysTypeOK
<1>2. \A s \in Slot : ~Holds(h, s)' /\ ~Holds(h, s)
  BY <1>1, KeysAssumption DEF Holds, SlotAt, Receive, At
<1>3. KeysTypeOK' /\ Located' /\ HolderOwnsRow' /\ OneHolder'
  BY <1>1, <1>2, OwnershipKept DEF Receive, KeysTypeOK
<1>4. Accounted'
  <2>. SUFFICES ASSUME NEW s \in Slot
                PROVE  effects'[s] = IF Settled(s)' THEN lost'[s] + 1 ELSE lost'[s]
    BY DEF Accounted
  <2>1. \A g \in Handler : (At(g, "finish") /\ SlotAt(g) = s)' <=> (At(g, "finish") /\ SlotAt(g) = s)
    BY <1>1 DEF At, SlotAt, Receive
  <2>. QED BY <2>1, AccountsKept DEF Receive
<1>5. AnswerKept'
  BY AnswersKept DEF Receive
<1>. QED BY <1>3, <1>4, <1>5

\* A row that begin inserts or takes over was nobody's, and no record is touched.
LEMMA TakenRow ==
  ASSUME KeysInvariant, NEW t \in Slot, NEW b \in Body,
         \/ keys' = [keys EXCEPT ![t] = InsertedKey(keys[t], b)]
         \/ keys' = [keys EXCEPT ![t] = ReclaimedKey(keys[t], b)]
  PROVE  /\ keys' \in [Slot -> KeyRow]
         /\ \A s \in Slot : keys'[s] # keys[s] => \A g \in Handler : ~Holds(g, s)
         /\ \A s \in Slot : keys[s].state = "done" => keys'[s] = keys[s]
         /\ \A s \in Slot : (keys[s].state = "done")' <=> keys[s].state = "done"
<1>. keys \in [Slot -> KeyRow]
  BY DEF KeysInvariant, KeysTypeOK
<1>1. InsertedKey(keys[t], b) \in KeyRow /\ ReclaimedKey(keys[t], b) \in KeyRow
  BY RowTypes
<1>2. \A s \in Slot : s # t => keys'[s] = keys[s]
  OBVIOUS
<1>3. keys' \in [Slot -> KeyRow]
  BY <1>1
<1>4. keys'[t] = keys[t] \/ (keys'[t] = Reserved(b) /\ (keys[t].state = "none" \/ Orphan(keys[t])))
  BY DEF InsertedKey, ReclaimedKey
<1>5. keys'[t] # keys[t] => \A g \in Handler : ~Holds(g, t)
  BY <1>4, HeldIsPending DEF Orphan
<1>6. Reserved(b).state = "pending"
  BY DEF Reserved
<1>. QED BY <1>2, <1>3, <1>4, <1>5, <1>6 DEF Orphan

\* The insertion of a key takes it only when nobody has it.
LEMMA InsertKeeps ==
  ASSUME KeysInvariant, NEW h \in Handler, InsertKey(h)
  PROVE  KeysInvariant'
<1>. USE DEF KeysInvariant
<1>. DEFINE t == SlotAt(h)
<1>1. t \in Slot /\ BodyAt(h) \in Body /\ handler[h].req \in Request /\ SlotOf[handler[h].req] # NoSlot
  BY Places DEF InsertKey, At, Located, Keyed, SlotAt
<1>2. /\ handler' \in [Handler -> HandlerState]
      /\ \A g \in Handler : g # h => handler'[g] = handler[g]
      /\ handler'[h].pc = IF keys[t].state = "none" THEN "exec" ELSE "select"
      /\ handler'[h].req = handler[h].req
  BY GotoMoves DEF InsertKey, KeysTypeOK, KeyPoint
<1>3. /\ keys' \in [Slot -> KeyRow]
      /\ \A s \in Slot : keys'[s] # keys[s] => \A g \in Handler : ~Holds(g, s)
      /\ \A s \in Slot : keys[s].state = "done" => keys'[s] = keys[s]
      /\ \A s \in Slot : (keys[s].state = "done")' <=> keys[s].state = "done"
  BY <1>1, TakenRow DEF InsertKey
<1>4. keys[t].state = "none" => keys'[t] = Reserved(BodyAt(h)) /\ \A g \in Handler : ~Holds(g, t)
  BY <1>1, HeldIsPending DEF InsertKey, InsertedKey, KeysTypeOK
<1>5. SlotAt(h)' = t /\ BodyAt(h)' = BodyAt(h)
  BY <1>2 DEF SlotAt, BodyAt
<1>6. KeysTypeOK' /\ Located' /\ HolderOwnsRow' /\ OneHolder'
  <2>1. \A s \in Slot : Holds(h, s)' =>
          keys'[s] = Reserved(BodyAt(h)') /\ \A g \in Handler : g # h => ~Holds(g, s)
    BY <1>2, <1>4, <1>5 DEF Holds
  <2>. QED BY <1>1, <1>2, <1>3, <2>1, OwnershipKept DEF InsertKey, KeysTypeOK
<1>7. Accounted'
  <2>. SUFFICES ASSUME NEW s \in Slot
                PROVE  effects'[s] = IF Settled(s)' THEN lost'[s] + 1 ELSE lost'[s]
    BY DEF Accounted
  <2>1. \A g \in Handler : (At(g, "finish") /\ SlotAt(g) = s)' <=> (At(g, "finish") /\ SlotAt(g) = s)
    BY <1>2 DEF At, SlotAt, InsertKey
  <2>. QED BY <1>3, <2>1, AccountsKept DEF InsertKey
<1>8. AnswerKept'
  BY <1>3, AnswersKept DEF InsertKey
<1>. QED BY <1>6, <1>7, <1>8

\* The conditional update takes a row over only from a holder that is no longer
\* executing.
LEMMA ReclaimKeeps ==
  ASSUME KeysInvariant, NEW h \in Handler, ReclaimKey(h)
  PROVE  KeysInvariant'
<1>. USE DEF KeysInvariant
<1>. DEFINE t == SlotAt(h)
<1>1. t \in Slot /\ BodyAt(h) \in Body /\ handler[h].req \in Request /\ SlotOf[handler[h].req] # NoSlot
  BY Places DEF ReclaimKey, At, Located, Keyed, SlotAt
<1>2. /\ handler' \in [Handler -> HandlerState]
      /\ \A g \in Handler : g # h => handler'[g] = handler[g]
      /\ handler'[h].pc = IF Orphan(keys[t]) THEN "exec" ELSE "idle"
      /\ handler'[h].pc # "idle" => handler'[h].req = handler[h].req
  <2>1. CASE Orphan(keys[t])
    BY <2>1, GotoMoves DEF ReclaimKey, KeysTypeOK, KeyPoint
  <2>2. CASE ~Orphan(keys[t])
    BY <2>2, EndFrees DEF ReclaimKey, KeysTypeOK
  <2>. QED BY <2>1, <2>2
<1>3. /\ keys' \in [Slot -> KeyRow]
      /\ \A s \in Slot : keys'[s] # keys[s] => \A g \in Handler : ~Holds(g, s)
      /\ \A s \in Slot : keys[s].state = "done" => keys'[s] = keys[s]
      /\ \A s \in Slot : (keys[s].state = "done")' <=> keys[s].state = "done"
  BY <1>1, TakenRow DEF ReclaimKey
<1>4. Orphan(keys[t]) => keys'[t] = Reserved(BodyAt(h)) /\ \A g \in Handler : ~Holds(g, t)
  BY <1>1, HeldIsPending DEF ReclaimKey, ReclaimedKey, Orphan, KeysTypeOK
<1>5. handler'[h].pc # "idle" => SlotAt(h)' = t /\ BodyAt(h)' = BodyAt(h)
  BY <1>2 DEF SlotAt, BodyAt
<1>6. KeysTypeOK' /\ Located' /\ HolderOwnsRow' /\ OneHolder'
  <2>1. \A s \in Slot : Holds(h, s)' =>
          keys'[s] = Reserved(BodyAt(h)') /\ \A g \in Handler : g # h => ~Holds(g, s)
    BY <1>2, <1>4, <1>5 DEF Holds
  <2>. QED BY <1>1, <1>2, <1>3, <2>1, OwnershipKept DEF ReclaimKey, KeysTypeOK
<1>7. Accounted'
  <2>. SUFFICES ASSUME NEW s \in Slot
                PROVE  effects'[s] = IF Settled(s)' THEN lost'[s] + 1 ELSE lost'[s]
    BY DEF Accounted
  <2>1. \A g \in Handler : (At(g, "finish") /\ SlotAt(g) = s)' <=> (At(g, "finish") /\ SlotAt(g) = s)
    BY <1>2 DEF At, SlotAt, ReclaimKey
  <2>. QED BY <1>3, <2>1, AccountsKept DEF ReclaimKey
<1>8. AnswerKept'
  BY <1>3, AnswersKept DEF ReclaimKey
<1>. QED BY <1>6, <1>7, <1>8

\* A failing reservation keeps the invariant, whether or not it took place.
LEMMA BeginFailsKeeps ==
  ASSUME KeysInvariant, NEW h \in Handler, BeginFails(h)
  PROVE  KeysInvariant'
<1>. USE DEF KeysInvariant
<1>. DEFINE t == SlotAt(h)
<1>1. t \in Slot /\ BodyAt(h) \in Body
  BY Places DEF BeginFails, At, Located
<1>2. /\ handler' \in [Handler -> HandlerState]
      /\ \A g \in Handler : g # h => handler'[g] = handler[g]
      /\ handler'[h].pc = "idle"
  BY EndFrees DEF BeginFails, KeysTypeOK
<1>3. /\ keys' \in [Slot -> KeyRow]
      /\ \A s \in Slot : keys'[s] # keys[s] => \A g \in Handler : ~Holds(g, s)
      /\ \A s \in Slot : keys[s].state = "done" => keys'[s] = keys[s]
      /\ \A s \in Slot : (keys[s].state = "done")' <=> keys[s].state = "done"
  <2>1. CASE keys' = keys
    BY <2>1 DEF KeysTypeOK
  <2>2. CASE keys' # keys
    BY <1>1, <2>2, TakenRow DEF BeginFails
  <2>. QED BY <2>1, <2>2
<1>4. KeysTypeOK' /\ Located' /\ HolderOwnsRow' /\ OneHolder'
  <2>1. \A s \in Slot : ~Holds(h, s)'
    BY <1>2 DEF Holds
  <2>2. faults' \in 0..MaxFaults
    BY KeysAssumption DEF BeginFails, Fault, KeysTypeOK
  <2>. QED BY <1>2, <1>3, <2>1, <2>2, OwnershipKept DEF BeginFails, KeysTypeOK
<1>5. Accounted'
  <2>. SUFFICES ASSUME NEW s \in Slot
                PROVE  effects'[s] = IF Settled(s)' THEN lost'[s] + 1 ELSE lost'[s]
    BY DEF Accounted
  <2>1. \A g \in Handler : (At(g, "finish") /\ SlotAt(g) = s)' <=> (At(g, "finish") /\ SlotAt(g) = s)
    BY <1>2 DEF At, SlotAt, BeginFails
  <2>. QED BY <1>3, <2>1, AccountsKept DEF BeginFails
<1>6. AnswerKept'
  BY <1>3, AnswersKept DEF BeginFails
<1>. QED BY <1>4, <1>5, <1>6

\* Reading the row of a key keeps the invariant.
LEMMA SelectKeeps ==
  ASSUME KeysInvariant, NEW h \in Handler, SelectKey(h)
  PROVE  KeysInvariant'
<1>. USE DEF KeysInvariant
<1>. DEFINE t == SlotAt(h)
<1>1. t \in Slot /\ BodyAt(h) \in Body /\ handler[h].req \in Request /\ SlotOf[handler[h].req] # NoSlot
  BY Places DEF SelectKey, At, Located, Keyed, SlotAt
<1>2. /\ handler' \in [Handler -> HandlerState]
      /\ \A g \in Handler : g # h => handler'[g] = handler[g]
      /\ handler'[h].pc \in {"reclaim", "idle"}
      /\ handler'[h].pc # "idle" => handler'[h].req = handler[h].req
  BY GotoMoves, EndFrees DEF SelectKey, KeysTypeOK, KeyPoint
<1>3. \/ answers' = answers
      \/ /\ keys[t].state = "done" /\ keys[t].body = BodyAt(h) /\ keys[t].res \in Result
         /\ answers' = answers \cup {[slot |-> t, body |-> BodyAt(h), res |-> keys[t].res]}
  <2>1. keys[t] \in KeyRow
    BY <1>1 DEF KeysTypeOK
  <2>2. keys[t].state = "done" => keys[t].res \in Result
    BY <2>1 DEF KeyRow, NoKey
  <2>. QED BY <2>2 DEF SelectKey, Reply, Replays
<1>4. answers' \subseteq Answer
  BY <1>1, <1>3 DEF KeysTypeOK, Answer
<1>5. \A s \in Slot : ~Holds(h, s)'
  BY <1>2 DEF Holds
<1>6. KeysTypeOK' /\ Located' /\ HolderOwnsRow' /\ OneHolder'
  BY <1>1, <1>2, <1>4, <1>5, OwnershipKept DEF SelectKey, KeysTypeOK
<1>7. Accounted'
  <2>. SUFFICES ASSUME NEW s \in Slot
                PROVE  effects'[s] = IF Settled(s)' THEN lost'[s] + 1 ELSE lost'[s]
    BY DEF Accounted
  <2>1. \A g \in Handler : (At(g, "finish") /\ SlotAt(g) = s)' <=> (At(g, "finish") /\ SlotAt(g) = s)
    BY <1>2 DEF At, SlotAt, SelectKey
  <2>. QED BY <2>1, AccountsKept DEF SelectKey
<1>8. AnswerKept'
  BY <1>3 DEF AnswerKept, SelectKey, Replays
<1>. QED BY <1>6, <1>7, <1>8

\* The handler that finishes is the only one to hold its row.
LEMMA FinisherAlone ==
  ASSUME KeysInvariant, NEW h \in Handler, handler[h].pc \in {"finish", "abort"}
  PROVE  /\ SlotAt(h) \in Slot /\ BodyAt(h) \in Body
         /\ handler[h].req \in Request /\ SlotOf[handler[h].req] # NoSlot
         /\ keys[SlotAt(h)] = Reserved(BodyAt(h))
         /\ \A g \in Handler : g # h => ~Holds(g, SlotAt(h))
<1>1. handler[h].req \in Request /\ Keyed(h) /\ BodyAt(h) \in Body /\ SlotAt(h) \in Slot
  BY Places DEF KeysInvariant, Located, At
<1>2. Holds(h, SlotAt(h))
  BY DEF Holds
<1>3. keys[SlotAt(h)] = Reserved(BodyAt(h))
  BY <1>1, <1>2 DEF KeysInvariant, HolderOwnsRow
<1>4. \A g \in Handler : g # h => ~Holds(g, SlotAt(h))
  BY <1>1, <1>2 DEF KeysInvariant, OneHolder
<1>. QED BY <1>1, <1>3, <1>4 DEF Keyed, SlotAt

\* An execution that succeeds is counted with its answer.
LEMMA SucceedKeeps ==
  ASSUME KeysInvariant, NEW h \in Handler, NEW res \in Result, Succeed(h, res)
  PROVE  KeysInvariant'
<1>. USE DEF KeysInvariant
<1>. DEFINE t == SlotAt(h)
<1>1. handler[h].req \in Request /\ At(h, "exec") /\ (Keyed(h) => t \in Slot)
  BY Places DEF Succeed, At, Located
<1>2. /\ handler' \in [Handler -> HandlerState]
      /\ \A g \in Handler : g # h => handler'[g] = handler[g]
      /\ handler'[h].pc = IF Keyed(h) THEN "finish" ELSE "idle"
      /\ Keyed(h) => handler'[h].req = handler[h].req /\ handler'[h].res = res
  <2>1. CASE Keyed(h)
    <3> DEFINE new == [[handler[h] EXCEPT !.pc = "finish"] EXCEPT !.res = res]
    <3>1. handler[h] \in HandlerState
      BY DEF KeysTypeOK
    <3>2. new \in HandlerState /\ new.pc = "finish" /\ new.req = handler[h].req /\ new.res = res
      BY <3>1 DEF HandlerState, KeyPoint
    <3>3. handler' = [handler EXCEPT ![h] = new]
      BY <2>1, <3>1 DEF Succeed, KeysTypeOK, HandlerState
    <3>. HIDE DEF new
    <3>. QED BY <2>1, <3>2, <3>3 DEF KeysTypeOK
  <2>2. CASE ~Keyed(h)
    BY <2>2, EndFrees DEF Succeed, KeysTypeOK
  <2>. QED BY <2>1, <2>2
<1>3. \A s \in Slot : Holds(h, s)' => Keyed(h) /\ s = t /\ BodyAt(h)' = BodyAt(h) /\ Holds(h, s)
  BY <1>1, <1>2 DEF Holds, SlotAt, BodyAt, At
<1>4. KeysTypeOK' /\ Located' /\ HolderOwnsRow' /\ OneHolder'
  <2>1. \A s \in Slot : Holds(h, s)' =>
          keys'[s] = Reserved(BodyAt(h)') /\ \A g \in Handler : g # h => ~Holds(g, s)
    BY <1>3 DEF HolderOwnsRow, OneHolder, Succeed
  <2>2. effects' \in [Slot -> Nat]
    <3>1. CASE Keyed(h)
      BY <1>1, <3>1 DEF Succeed, KeysTypeOK
    <3>2. CASE ~Keyed(h)
      BY <3>2 DEF Succeed, KeysTypeOK
    <3>. QED BY <3>1, <3>2
  <2>3. handler'[h].pc # "idle" => SlotOf[handler'[h].req] # NoSlot
    BY <1>2 DEF Keyed, SlotAt
  <2>. QED BY <1>1, <1>2, <2>1, <2>2, <2>3, OwnershipKept DEF Succeed, KeysTypeOK
<1>5. Accounted'
  <2>. SUFFICES ASSUME NEW s \in Slot
                PROVE  effects'[s] = IF Settled(s)' THEN lost'[s] + 1 ELSE lost'[s]
    BY DEF Accounted
  <2>1. CASE Keyed(h) /\ s = t
    <3>1. Holds(h, s) /\ \A g \in Handler : g # h => ~Holds(g, s)
      BY <1>1, <2>1 DEF Holds, At, OneHolder
    <3>2. ~Settled(s)
      BY <1>1, <3>1, HeldIsPending DEF Settled, At, Holds
    <3>3. Settled(s)'
      BY <1>2, <2>1 DEF Settled, At, SlotAt
    <3>4. effects'[s] = effects[s] + 1 /\ lost' = lost
      BY <2>1, <1>1 DEF Succeed, KeysTypeOK
    <3>5. effects[s] = lost[s]
      BY <3>2 DEF Accounted
    <3>. QED BY <3>3, <3>4, <3>5
  <2>2. CASE ~(Keyed(h) /\ s = t)
    <3>1. \A g \in Handler : (At(g, "finish") /\ SlotAt(g) = s)' <=> (At(g, "finish") /\ SlotAt(g) = s)
      BY <1>1, <1>2, <2>2 DEF At, SlotAt
    <3>2. effects'[s] = effects[s]
      BY <2>2, <1>1 DEF Succeed, KeysTypeOK
    <3>. QED BY <3>1, <3>2, AccountsKept DEF Succeed
  <2>. QED BY <2>1, <2>2
<1>6. AnswerKept'
  BY AnswersKept DEF Succeed
<1>. QED BY <1>4, <1>5, <1>6

\* An execution that fails keeps the invariant.
LEMMA FailKeeps ==
  ASSUME KeysInvariant, NEW h \in Handler, Fail(h)
  PROVE  KeysInvariant'
<1>. USE DEF KeysInvariant
<1>1. handler[h].req \in Request /\ At(h, "exec")
  BY DEF Fail, At, Located
<1>2. /\ handler' \in [Handler -> HandlerState]
      /\ \A g \in Handler : g # h => handler'[g] = handler[g]
      /\ handler'[h].pc = IF Keyed(h) THEN "abort" ELSE "idle"
      /\ Keyed(h) => handler'[h].req = handler[h].req
  <2>1. CASE Keyed(h)
    BY <2>1, GotoMoves DEF Fail, KeysTypeOK, KeyPoint
  <2>2. CASE ~Keyed(h)
    BY <2>2, EndFrees DEF Fail, KeysTypeOK
  <2>. QED BY <2>1, <2>2
<1>3. \A s \in Slot : Holds(h, s)' => BodyAt(h)' = BodyAt(h) /\ Holds(h, s)
  BY <1>1, <1>2 DEF Holds, SlotAt, BodyAt, At
<1>4. KeysTypeOK' /\ Located' /\ HolderOwnsRow' /\ OneHolder'
  <2>1. \A s \in Slot : Holds(h, s)' =>
          keys'[s] = Reserved(BodyAt(h)') /\ \A g \in Handler : g # h => ~Holds(g, s)
    BY <1>3 DEF HolderOwnsRow, OneHolder, Fail
  <2>2. handler'[h].pc # "idle" => SlotOf[handler'[h].req] # NoSlot
    BY <1>2 DEF Keyed, SlotAt
  <2>. QED BY <1>1, <1>2, <2>1, <2>2, OwnershipKept DEF Fail, KeysTypeOK
<1>5. Accounted'
  <2>. SUFFICES ASSUME NEW s \in Slot
                PROVE  effects'[s] = IF Settled(s)' THEN lost'[s] + 1 ELSE lost'[s]
    BY DEF Accounted
  <2>1. \A g \in Handler : (At(g, "finish") /\ SlotAt(g) = s)' <=> (At(g, "finish") /\ SlotAt(g) = s)
    BY <1>1, <1>2 DEF At, SlotAt
  <2>. QED BY <2>1, AccountsKept DEF Fail
<1>6. AnswerKept'
  BY AnswersKept DEF Fail
<1>. QED BY <1>4, <1>5, <1>6

\* Finishing, with its row recorded.
LEMMA RecordKeeps ==
  ASSUME KeysInvariant, NEW h \in Handler, At(h, "finish"), End(h), Reply(h, handler[h].res),
         keys' = [keys EXCEPT ![SlotAt(h)] = CompletedKey(keys[SlotAt(h)], handler[h].res)],
         effects' = effects, lost' = lost, faults' \in 0..MaxFaults
  PROVE  KeysInvariant'
<1>. USE DEF KeysInvariant
<1>. DEFINE t == SlotAt(h)
<1>1. /\ t \in Slot /\ BodyAt(h) \in Body
      /\ keys[t] = Reserved(BodyAt(h))
      /\ \A g \in Handler : g # h => ~Holds(g, t)
  BY FinisherAlone DEF At
<1>2. handler[h].res \in Result
  BY DEF At, Located
<1>3. /\ handler' \in [Handler -> HandlerState]
      /\ \A g \in Handler : g # h => handler'[g] = handler[g]
      /\ handler'[h].pc = "idle"
  BY EndFrees DEF KeysTypeOK
<1>4. /\ keys'[t] \in KeyRow /\ keys'[t].state = "done"
      /\ keys'[t].body = BodyAt(h) /\ keys'[t].res = handler[h].res
      /\ keys' \in [Slot -> KeyRow]
      /\ \A s \in Slot : s # t => keys'[s] = keys[s]
  BY <1>1, <1>2, RecordTypes DEF KeysTypeOK
<1>5. KeysTypeOK' /\ Located' /\ HolderOwnsRow' /\ OneHolder'
  <2>1. answers' \subseteq Answer
    BY <1>1, <1>2 DEF Reply, Answer, KeysTypeOK
  <2>2. \A s \in Slot : ~Holds(h, s)'
    BY <1>3 DEF Holds
  <2>. QED BY <1>1, <1>3, <1>4, <2>1, <2>2, OwnershipKept DEF KeysTypeOK
<1>6. Accounted'
  <2>. SUFFICES ASSUME NEW s \in Slot
                PROVE  effects'[s] = IF Settled(s)' THEN lost'[s] + 1 ELSE lost'[s]
    BY DEF Accounted
  <2>1. CASE s = t
    <3>1. Settled(s) /\ Settled(s)'
      BY <1>4, <2>1 DEF Settled
    <3>. QED BY <3>1 DEF Accounted
  <2>2. CASE s # t
    <3>1. \A g \in Handler : (At(g, "finish") /\ SlotAt(g) = s)' <=> (At(g, "finish") /\ SlotAt(g) = s)
      BY <1>3, <2>2 DEF At, SlotAt
    <3>. QED BY <1>4, <2>2, <3>1, AccountsKept
  <2>. QED BY <2>1, <2>2
<1>7. AnswerKept'
  <2>. SUFFICES ASSUME NEW a \in answers', lost'[a.slot] = 0
                PROVE  /\ keys'[a.slot].state = "done"
                       /\ keys'[a.slot].body = a.body
                       /\ keys'[a.slot].res = a.res
    BY DEF AnswerKept, Replays
  <2>1. CASE a = [slot |-> t, body |-> BodyAt(h), res |-> handler[h].res]
    BY <1>4, <2>1
  <2>2. CASE a \in answers
    <3>1. keys[a.slot].state = "done" /\ keys[a.slot].body = a.body /\ keys[a.slot].res = a.res
      BY <2>2 DEF AnswerKept, Replays
    <3>2. a.slot \in Slot
      BY <2>2 DEF KeysTypeOK, Answer
    <3>3. a.slot # t
      BY <1>1, <3>1 DEF Reserved
    <3>. QED BY <1>4, <3>1, <3>2, <3>3
  <2>. QED BY <2>1, <2>2 DEF Reply
<1>. QED BY <1>5, <1>6, <1>7

\* A success whose record is lost: the row stays pending.
LEMMA LossKeeps ==
  ASSUME KeysInvariant, NEW h \in Handler, At(h, "finish"), End(h),
         Reply(h, handler[h].res) \/ answers' = answers,
         lost' = [lost EXCEPT ![SlotAt(h)] = lost[SlotAt(h)] + 1],
         keys' = keys, effects' = effects, faults' \in 0..MaxFaults
  PROVE  KeysInvariant'
<1>. USE DEF KeysInvariant
<1>. DEFINE t == SlotAt(h)
<1>1. /\ t \in Slot /\ BodyAt(h) \in Body
      /\ keys[t] = Reserved(BodyAt(h))
      /\ \A g \in Handler : g # h => ~Holds(g, t)
  BY FinisherAlone DEF At
<1>2. handler[h].res \in Result
  BY DEF At, Located
<1>3. /\ handler' \in [Handler -> HandlerState]
      /\ \A g \in Handler : g # h => handler'[g] = handler[g]
      /\ handler'[h].pc = "idle"
  BY EndFrees DEF KeysTypeOK
<1>4. /\ lost' \in [Slot -> Nat] /\ lost'[t] = lost[t] + 1 /\ lost[t] \in Nat
      /\ \A s \in Slot : s # t => lost'[s] = lost[s]
  BY <1>1 DEF KeysTypeOK
<1>5. KeysTypeOK' /\ Located' /\ HolderOwnsRow' /\ OneHolder'
  <2>1. answers' \subseteq Answer
    BY <1>1, <1>2 DEF Reply, Answer, KeysTypeOK
  <2>2. \A s \in Slot : ~Holds(h, s)'
    BY <1>3 DEF Holds
  <2>. QED BY <1>1, <1>3, <1>4, <2>1, <2>2, OwnershipKept DEF KeysTypeOK
<1>6. Accounted'
  <2>. SUFFICES ASSUME NEW s \in Slot
                PROVE  effects'[s] = IF Settled(s)' THEN lost'[s] + 1 ELSE lost'[s]
    BY DEF Accounted
  <2>1. CASE s = t
    <3>1. Settled(s)
      BY <2>1 DEF Settled
    <3>2. ~Settled(s)'
      BY <1>1, <1>3, <2>1 DEF Settled, At, Holds, SlotAt, Reserved
    <3>. QED BY <1>4, <2>1, <3>1, <3>2 DEF Accounted
  <2>2. CASE s # t
    <3>1. \A g \in Handler : (At(g, "finish") /\ SlotAt(g) = s)' <=> (At(g, "finish") /\ SlotAt(g) = s)
      BY <1>3, <2>2 DEF At, SlotAt
    <3>. QED BY <1>4, <2>2, <3>1, AccountsKept
  <2>. QED BY <2>1, <2>2
<1>7. AnswerKept'
  <2>. SUFFICES ASSUME NEW a \in answers', lost'[a.slot] = 0
                PROVE  /\ keys[a.slot].state = "done"
                       /\ keys[a.slot].body = a.body
                       /\ keys[a.slot].res = a.res
    BY DEF AnswerKept, Replays
  <2>1. a.slot # t
    BY <1>4
  <2>2. a \in answers
    BY <2>1 DEF Reply
  <2>3. a.slot \in Slot
    BY <2>2 DEF KeysTypeOK, Answer
  <2>. QED BY <1>4, <2>1, <2>2, <2>3 DEF AnswerKept, Replays
<1>. QED BY <1>5, <1>6, <1>7

\* A completion records the answer of the row's own holder.
LEMMA FinishKeeps ==
  ASSUME KeysInvariant, NEW h \in Handler, Finish(h) \/ FinishFails(h)
  PROVE  KeysInvariant'
<1>1. faults' \in 0..MaxFaults
  BY KeysAssumption DEF Finish, FinishFails, Fault, KeysInvariant, KeysTypeOK
<1>. QED BY <1>1, RecordKeeps, LossKeeps DEF Finish, FinishFails

\* The handler ends and the counters stay; its row may go if it was about to abort.
LEMMA EndKeeps ==
  ASSUME KeysInvariant, NEW h \in Handler, ~At(h, "finish"), End(h),
         \/ keys' = keys
         \/ At(h, "abort") /\ keys' = [keys EXCEPT ![SlotAt(h)] = NoKey],
         answers' = answers, effects' = effects, lost' = lost, faults' \in 0..MaxFaults
  PROVE  KeysInvariant'
<1>. USE DEF KeysInvariant
<1>. DEFINE t == SlotAt(h)
<1>1. /\ handler' \in [Handler -> HandlerState]
      /\ \A g \in Handler : g # h => handler'[g] = handler[g]
      /\ handler'[h].pc = "idle"
  BY EndFrees DEF KeysTypeOK
<1>2. /\ keys' \in [Slot -> KeyRow]
      /\ \A s \in Slot : keys'[s] # keys[s] => \A g \in Handler : g # h => ~Holds(g, s)
      /\ \A s \in Slot : keys[s].state = "done" => keys'[s] = keys[s]
      /\ \A s \in Slot : (keys[s].state = "done")' <=> keys[s].state = "done"
  <2>1. CASE keys' = keys
    BY <2>1 DEF KeysTypeOK
  <2>2. CASE keys' # keys
    <3>1. t \in Slot /\ keys[t] = Reserved(BodyAt(h)) /\ \A g \in Handler : g # h => ~Holds(g, t)
      BY <2>2, FinisherAlone DEF At
    <3>2. NoKey \in KeyRow /\ NoKey.state # "done" /\ Reserved(BodyAt(h)).state # "done"
      BY DEF KeyRow, NoKey, Reserved
    <3>3. keys' = [keys EXCEPT ![t] = NoKey]
      BY <2>2
    <3>. QED BY <3>1, <3>2, <3>3 DEF KeysTypeOK
  <2>. QED BY <2>1, <2>2
<1>3. KeysTypeOK' /\ Located' /\ HolderOwnsRow' /\ OneHolder'
  <2>1. \A s \in Slot : ~Holds(h, s)'
    BY <1>1 DEF Holds
  <2>. QED BY <1>1, <1>2, <2>1, OwnershipKept DEF KeysTypeOK
<1>4. Accounted'
  <2>. SUFFICES ASSUME NEW s \in Slot
                PROVE  effects'[s] = IF Settled(s)' THEN lost'[s] + 1 ELSE lost'[s]
    BY DEF Accounted
  <2>1. \A g \in Handler : (At(g, "finish") /\ SlotAt(g) = s)' <=> (At(g, "finish") /\ SlotAt(g) = s)
    BY <1>1 DEF At, SlotAt
  <2>. QED BY <1>2, <2>1, AccountsKept
<1>5. AnswerKept'
  BY <1>2, AnswersKept
<1>. QED BY <1>3, <1>4, <1>5

\* A release gives up the row of its own holder only.
LEMMA AbortKeeps ==
  ASSUME KeysInvariant, NEW h \in Handler, Abort(h) \/ AbortFails(h)
  PROVE  KeysInvariant'
<1>1. faults' \in 0..MaxFaults /\ ~At(h, "finish")
  BY KeysAssumption DEF Abort, AbortFails, Fault, At, KeysInvariant, KeysTypeOK
<1>. QED BY <1>1, EndKeeps DEF Abort, AbortFails, ReleasedKey

\* A handler that is dropped keeps the invariant.
LEMMA CutKeeps ==
  ASSUME KeysInvariant, NEW h \in Handler, Cut(h)
  PROVE  KeysInvariant'
<1>1. faults' \in 0..MaxFaults
  BY KeysAssumption DEF Cut, Fault, KeysInvariant, KeysTypeOK
<1>2. CASE At(h, "finish")
  BY <1>1, <1>2, LossKeeps DEF Cut
<1>3. CASE ~At(h, "finish")
  BY <1>1, <1>3, EndKeeps DEF Cut
<1>. QED BY <1>2, <1>3

\* Time passes for a row that nobody holds.
LEMMA AgeKeeps ==
  ASSUME KeysInvariant, ~Slow, NEW t \in Slot, Age(t)
  PROVE  KeysInvariant'
<1>. USE DEF KeysInvariant
<1>1. /\ [keys[t] EXCEPT !.old = TRUE] \in KeyRow
      /\ [keys[t] EXCEPT !.old = TRUE].state = keys[t].state
  <2>1. keys[t] \in KeyRow /\ keys[t].state = "pending"
    BY DEF Age, KeysTypeOK
  <2>2. keys[t] \in [state: {"pending"}, body: Body, res: {NoResult}, old: BOOLEAN]
    BY <2>1 DEF KeyRow, NoKey
  <2>. QED BY <2>1, <2>2 DEF KeyRow
<1>2. keys' = [keys EXCEPT ![t] = [keys[t] EXCEPT !.old = TRUE]]
  BY DEF Age, KeysTypeOK
<1>3. /\ keys' \in [Slot -> KeyRow]
      /\ \A s \in Slot : s # t => keys'[s] = keys[s]
      /\ keys'[t].state = "pending"
  BY <1>1, <1>2 DEF Age, KeysTypeOK
<1>4. \A g \in Handler, s \in Slot : (Holds(g, s)' <=> Holds(g, s)) /\ BodyAt(g)' = BodyAt(g)
  BY DEF Age, Holds, SlotAt, BodyAt
<1>5. KeysTypeOK' /\ Located' /\ OneHolder'
  BY <1>3, <1>4 DEF Age, KeysTypeOK, Located, OneHolder, At, Keyed, SlotAt
<1>6. HolderOwnsRow'
  <2>. SUFFICES ASSUME NEW s \in Slot, NEW g \in Handler, Holds(g, s)
                PROVE  keys'[s] = Reserved(BodyAt(g))
    BY <1>4 DEF HolderOwnsRow, Reserved
  <2>1. s # t
    BY DEF Age
  <2>. QED BY <1>3, <2>1 DEF HolderOwnsRow
<1>7. Accounted'
  <2>. SUFFICES ASSUME NEW s \in Slot
                PROVE  effects'[s] = IF Settled(s)' THEN lost'[s] + 1 ELSE lost'[s]
    BY DEF Accounted
  <2>1. \A g \in Handler : (At(g, "finish") /\ SlotAt(g) = s)' <=> (At(g, "finish") /\ SlotAt(g) = s)
    BY DEF Age, At, SlotAt
  <2>2. (keys[s].state = "done")' <=> keys[s].state = "done"
    BY <1>3 DEF Age
  <2>. QED BY <2>1, <2>2, AccountsKept DEF Age
<1>8. AnswerKept'
  <2>1. \A s \in Slot : keys[s].state = "done" => keys'[s] = keys[s]
    BY <1>3 DEF Age
  <2>. QED BY <2>1, AnswersKept DEF Age
<1>. QED BY <1>5, <1>6, <1>7, <1>8

-----------------------------------------------------------------------------
(* The theorems.                                                           *)

\* The invariant holds at first.
LEMMA KeysInitial == KeysInit => KeysInvariant
<1>. SUFFICES ASSUME KeysInit
              PROVE  KeysInvariant
  OBVIOUS
<1>1. \A h \in Handler : handler[h].pc = "idle"
  BY DEF KeysInit, Free
<1>2. \A s \in Slot : keys[s].state = "none"
  BY DEF KeysInit, NoKey
<1>3. KeysTypeOK
  BY KeysAssumption DEF KeysInit, KeysTypeOK, HandlerState, KeyPoint, Free, KeyRow
<1>4. Located /\ HolderOwnsRow /\ OneHolder
  BY <1>1 DEF Located, HolderOwnsRow, OneHolder, Holds, At
<1>5. Accounted /\ AnswerKept
  BY <1>1, <1>2 DEF Accounted, Settled, AnswerKept, At, KeysInit
<1>. QED BY <1>3, <1>4, <1>5 DEF KeysInvariant

\* Without slow executions every step keeps the invariant.
LEMMA KeysInductive ==
  ASSUME ~Slow, KeysInvariant, [KeysNext]_keyVars
  PROVE  KeysInvariant'
<1>1. CASE UNCHANGED keyVars
  BY <1>1 DEF keyVars, KeysInvariant, KeysTypeOK, Located, HolderOwnsRow, OneHolder, Accounted,
              AnswerKept, Settled, Holds, At, Keyed, SlotAt, BodyAt, Replays
<1>2. CASE \E h \in Handler, r \in Request : Receive(h, r)
  BY <1>2, ReceiveKeeps
<1>3. CASE \E h \in Handler : KeyStep(h)
  BY <1>3, InsertKeeps, SelectKeeps, ReclaimKeeps, FinishKeeps, AbortKeeps DEF KeyStep
<1>4. CASE \E h \in Handler : Execute(h)
  BY <1>4, SucceedKeeps, FailKeeps DEF Execute
<1>5. CASE \E h \in Handler : KeyFault(h)
  BY <1>5, BeginFailsKeeps, FinishKeeps, AbortKeeps DEF KeyFault
<1>6. CASE \E h \in Handler : Cut(h)
  BY <1>6, CutKeeps
<1>7. CASE \E s \in Slot : Age(s)
  BY <1>7, AgeKeeps
<1>. QED BY <1>1, <1>2, <1>3, <1>4, <1>5, <1>6, <1>7 DEF KeysNext

\* For any number of racing handlers, keys and faults: the invariant of the protocol.
THEOREM KeysInvariantHolds ==
  ASSUME ~Slow
  PROVE  KeysSpec => []KeysInvariant
<1>1. KeysInvariant /\ [KeysNext]_keyVars => KeysInvariant'
  BY KeysInductive
<1>. QED BY <1>1, KeysInitial, PTL DEF KeysSpec

\* No two handlers execute under the same key at the same time.
THEOREM OneExecutionAtATime ==
  ASSUME ~Slow
  PROVE  KeysSpec => []OneHolder
<1>1. KeysInvariant => OneHolder
  BY DEF KeysInvariant
<1>. QED BY <1>1, KeysInvariantHolds, PTL

\* A success is repeated only after its record was lost.
THEOREM RepetitionNeedsLoss ==
  ASSUME ~Slow
  PROVE  KeysSpec => []RepeatsNeedLoss
<1>1. KeysInvariant => RepeatsNeedLoss
  BY DEF KeysInvariant, KeysTypeOK, Accounted, RepeatsNeedLoss
<1>. QED BY <1>1, KeysInvariantHolds, PTL

\* Unless a record was lost, replays repeat what the client was answered first.
THEOREM ReplaysRepeatTheAnswer ==
  ASSUME ~Slow
  PROVE  KeysSpec => []AnswerKept
<1>1. KeysInvariant => AnswerKept
  BY DEF KeysInvariant
<1>. QED BY <1>1, KeysInvariantHolds, PTL

\* A recorded answer is never written again.
LEMMA RecordStays ==
  ASSUME KeysInvariant, [KeysNext]_keyVars, NEW s \in Slot, keys[s].state = "done"
  PROVE  keys'[s] = keys[s]
<1>. keys \in [Slot -> KeyRow]
  BY DEF KeysInvariant, KeysTypeOK
<1>1. ASSUME NEW h \in Handler, InsertKey(h) \/ ReclaimKey(h) \/ BeginFails(h)
      PROVE  keys'[s] = keys[s]
  <2>1. SlotAt(h) \in Slot /\ BodyAt(h) \in Body
    BY <1>1, Places DEF InsertKey, ReclaimKey, BeginFails, KeysInvariant, Located, At
  <2>. QED BY <1>1, <2>1, TakenRow DEF InsertKey, ReclaimKey, BeginFails
<1>2. ASSUME NEW h \in Handler, Finish(h) \/ FinishFails(h) \/ Abort(h) \/ AbortFails(h)
      PROVE  keys'[s] = keys[s]
  <2>1. SlotAt(h) \in Slot /\ keys[SlotAt(h)] = Reserved(BodyAt(h))
    BY <1>2, FinisherAlone DEF Finish, FinishFails, Abort, AbortFails, At
  <2>2. s # SlotAt(h)
    BY <2>1 DEF Reserved
  <2>. QED BY <1>2, <2>1, <2>2 DEF Finish, FinishFails, Abort, AbortFails
<1>3. ASSUME NEW t \in Slot, Age(t)
      PROVE  keys'[s] = keys[s]
  BY <1>3 DEF Age
<1>4. CASE UNCHANGED keyVars
  BY <1>4 DEF keyVars
<1>5. CASE KeysNext
  BY <1>1, <1>2, <1>3, <1>5
     DEF KeysNext, KeyStep, KeyFault, Execute, Receive, SelectKey, Succeed, Fail, Cut
<1>. QED BY <1>4, <1>5

\* No late statement of any handler replaces or releases a recorded answer.
THEOREM RecordsAreFinal ==
  ASSUME ~Slow
  PROVE  KeysSpec => RecordFinal
<1>1. KeysInvariant /\ [KeysNext]_keyVars => [\A s \in Slot : keys[s].state = "done" => keys'[s] = keys[s]]_keyVars
  BY RecordStays
<1>. QED BY <1>1, KeysInvariantHolds, PTL DEF KeysSpec, RecordFinal
=============================================================================
