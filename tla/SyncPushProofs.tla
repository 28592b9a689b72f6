--------------------------- MODULE SyncPushProofs ---------------------------
(***************************************************************************)
(* Proofs about POST /sync/push, for any batches, households, handlers and *)
(* faults: it implements the protocol of Idempotency, deletions win, and   *)
(* overwritten versions are journalled.                                    *)
(***************************************************************************)
EXTENDS SyncPush, IdempotencyProofs

-----------------------------------------------------------------------------
(* Types.                                                                  *)

\* The handler in a batch has an operation, unless it is about to respond.
LEMMA Batch ==
  ASSUME PushTypeOK, Placed, NEW h \in Handler, Begun(h)
  PROVE  /\ handler[h].req \in Request
         /\ BodyAt(h) \in Seq(Operation)
         /\ Sender(h) \in Home
         /\ work[h] \in Work
         /\ work[h].i \in 1..(Len(BodyAt(h)) + 1)
         /\ work[h].step # "respond" => work[h].i \in 1..Len(BodyAt(h)) /\ Op(h) \in Operation
<1>1. handler[h].req \in Request /\ work[h] \in Work
  BY DEF PushTypeOK, Placed, Begun, At
<1>2. BodyAt(h) \in Seq(Operation) /\ Sender(h) \in Home
  BY <1>1, PushAssumption DEF BodyAt, Sender
<1>3. /\ work[h].i \in 1..(Len(BodyAt(h)) + 1)
      /\ work[h].step = "respond" <=> work[h].i = Len(BodyAt(h)) + 1
  BY DEF Placed, PlacedAt
<1>4. ASSUME work[h].step # "respond"
      PROVE  work[h].i \in 1..Len(BodyAt(h)) /\ Op(h) \in Operation
  <2>1. Len(BodyAt(h)) \in Nat
    BY <1>2
  <2>2. work[h].i \in 1..Len(BodyAt(h))
    BY <1>3, <1>4, <2>1
  <2>. QED BY <1>2, <2>2 DEF Op
<1>. QED BY <1>1, <1>2, <1>3, <1>4

\* The first step of an operation is one of three, or the response after the last one.
LEMMA FirstSteps ==
  ASSUME NEW ops \in Seq(Operation), NEW i \in 1..(Len(ops) + 1)
  PROVE  /\ FirstStep(ops, i) \in {"stone", "count", "delete", "respond"}
         /\ FirstStep(ops, i) = "respond" <=> i = Len(ops) + 1
BY DEF FirstStep

\* A handler at rest has no work, and an absent row is a row of the tables.
LEMMA RestType == Rest \in Work /\ NoRow \in EntityRow
BY DEF Rest, Work, OpPoint, EntityRow, NoRow

\* Continue changes the step only.
LEMMA ContinueMoves ==
  ASSUME work \in [Handler -> Work], NEW h \in Handler, NEW step \in OpPoint, Continue(h, step)
  PROVE  /\ work' \in [Handler -> Work]
         /\ work'[h] = [work[h] EXCEPT !.step = step]
         /\ \A g \in Handler : g # h => work'[g] = work[g]
<1> DEFINE new == [work[h] EXCEPT !.step = step]
<1>1. new \in Work
  <2>1. work[h] \in Work
    OBVIOUS
  <2>. QED BY <2>1 DEF Work
<1>2. work' = [work EXCEPT ![h] = new]
  BY DEF Continue
<1> HIDE DEF new
<1>3. work'[h] = new /\ work' \in [Handler -> Work] /\ \A g \in Handler : g # h => work'[g] = work[g]
  BY <1>1, <1>2
<1>. QED BY <1>3 DEF new

\* Conclude goes to the next operation.
LEMMA ConcludeMoves ==
  ASSUME PushTypeOK, Placed, NEW h \in Handler, Begun(h), work[h].step # "respond",
         NEW status \in Status, Conclude(h, status)
  PROVE  /\ work' \in [Handler -> Work]
         /\ work'[h].i = work[h].i + 1
         /\ work'[h].i \in 1..(Len(BodyAt(h)) + 1)
         /\ work'[h].step \in {"stone", "count", "delete", "respond"}
         /\ work'[h].step = "respond" <=> work'[h].i = Len(BodyAt(h)) + 1
         /\ Len(work'[h].results) = work'[h].i - 1
         /\ \A g \in Handler : g # h => work'[g] = work[g]
<1> DEFINE next == work[h].i + 1
           new == [Rest EXCEPT !.i = next, !.step = FirstStep(BodyAt(h), next),
                               !.results = Append(work[h].results, status)]
<1>1. /\ BodyAt(h) \in Seq(Operation)
      /\ work[h].i \in 1..Len(BodyAt(h))
      /\ work[h] \in Work
  BY Batch
<1>2. next \in 1..(Len(BodyAt(h)) + 1) /\ Len(BodyAt(h)) \in Nat
  BY <1>1
<1>3. /\ FirstStep(BodyAt(h), next) \in {"stone", "count", "delete", "respond"}
      /\ FirstStep(BodyAt(h), next) = "respond" <=> next = Len(BodyAt(h)) + 1
  BY <1>1, <1>2, FirstSteps
<1>4. /\ Append(work[h].results, status) \in Seq(Status)
      /\ Len(Append(work[h].results, status)) = Len(work[h].results) + 1
  BY <1>1 DEF Work
<1>5. Len(work[h].results) = work[h].i - 1
  BY DEF Placed, PlacedAt
<1>6. /\ new \in Work
      /\ new.i = next /\ new.step = FirstStep(BodyAt(h), next)
      /\ new.results = Append(work[h].results, status)
  <2>1. next \in Nat /\ FirstStep(BodyAt(h), next) \in OpPoint
    BY <1>2, <1>3 DEF OpPoint
  <2> HIDE DEF next
  <2>. QED BY <1>4, <2>1, RestType DEF Work, Rest
<1>7. work' = [work EXCEPT ![h] = new]
  BY DEF Conclude
<1>8. work \in [Handler -> Work]
  BY DEF PushTypeOK
<1> HIDE DEF new
<1>9. work'[h] = new /\ work' \in [Handler -> Work] /\ \A g \in Handler : g # h => work'[g] = work[g]
  BY <1>6, <1>7, <1>8
<1>10. Len(new.results) = new.i - 1
  BY <1>1, <1>4, <1>5, <1>6
<1>. QED BY <1>2, <1>3, <1>6, <1>9, <1>10

-----------------------------------------------------------------------------
(* The handler moves as in Idempotency.                                    *)

\* A step of the protocol by h leaves the other handlers alone, keeps the request of h
\* unless h ends, and starts nothing.
LEMMA HandlerMoves ==
  ASSUME handler \in [Handler -> HandlerState], NEW h \in Handler,
         KeyStep(h) \/ KeyFault(h) \/ Cut(h) \/ Fail(h)
  PROVE  /\ handler' \in [Handler -> HandlerState]
         /\ \A g \in Handler : g # h => handler'[g] = handler[g]
         /\ handler'[h].pc = "idle" \/ (handler'[h].req = handler[h].req /\ handler[h].pc # "idle")
         /\ Begun(h)' => Begun(h)
<1>1. CASE End(h)
  BY <1>1, EndFrees DEF Begun
<1>2. CASE \E pc \in {"exec", "select", "reclaim", "abort"} : Goto(h, pc) /\ Begun(h)
  <2>1. PICK pc \in {"exec", "select", "reclaim", "abort"} : Goto(h, pc)
    BY <1>2
  <2>2. pc \in KeyPoint
    BY DEF KeyPoint
  <2>. QED BY <1>2, <2>1, <2>2, GotoMoves DEF Begun
<1>. QED BY <1>1, <1>2
         DEF KeyStep, KeyFault, Cut, Fail, InsertKey, SelectKey, ReclaimKey, Finish, Abort,
             BeginFails, FinishFails, AbortFails, Begun, At

-----------------------------------------------------------------------------
(* The other handlers.                                                     *)

\* What a step of another handler may do to the tables: new versions and tombstones
\* are younger than the clock, and today's journal stays.
StoreMoves ==
  /\ clock' \in Nat /\ clock <= clock'
  /\ \A e \in Entity : rows'[e] = rows[e] \/ rows'[e].ver > clock \/ rows'[e] = NoRow
  /\ \A st \in stones' : st \in stones \/ st.at > clock
  /\ today' = today
  /\ \A l \in journal : l.day = today => l \in journal'

\* What one handler does to the tables keeps what is said of every other handler.
LEMMA OthersKept ==
  ASSUME PushInvariant, NEW g \in Handler, handler'[g] = handler[g], work'[g] = work[g], StoreMoves,
         PushTypeOK'
  PROVE  PlacedAt(g)' /\ RememberedAt(g)' /\ ComparedAt(g)'
<1>. PushTypeOK /\ Placed /\ PlacedAt(g) /\ RememberedAt(g) /\ ComparedAt(g)
  BY DEF PushInvariant, Placed
<1>1. /\ Begun(g)' <=> Begun(g)
      /\ BodyAt(g)' = BodyAt(g) /\ Op(g)' = Op(g) /\ Sender(g)' = Sender(g)
      /\ Undeleted(g)' <=> Undeleted(g)
  BY DEF Begun, BodyAt, Op, Sender, Undeleted
<1>2. PlacedAt(g)'
  BY <1>1 DEF PlacedAt
<1>3. ASSUME Begun(g), work[g].step # "respond"
      PROVE  /\ work[g].looked \in Nat /\ work[g].readAt \in Nat
             /\ Op(g).ent \in Entity /\ Sender(g) \in Home
             /\ rows[Op(g).ent].ver \in Nat /\ clock \in Nat
  <2>1. work[g] \in Work /\ Op(g) \in Operation /\ Sender(g) \in Home
    BY <1>3, Batch
  <2>2. Op(g).ent \in Entity
    BY <2>1 DEF Operation
  <2>3. rows[Op(g).ent] \in EntityRow
    BY <2>2 DEF PushTypeOK
  <2>4. rows[Op(g).ent].ver \in Nat
    BY <2>3 DEF EntityRow, StoredRow, NoRow
  <2>. QED BY <2>1, <2>2, <2>4 DEF Work, PushTypeOK
<1>4. RememberedAt(g)'
  <2>. SUFFICES ASSUME Begun(g), Undeleted(g)
                PROVE  /\ work[g].looked <= clock'
                       /\ \A st \in stones' : st.ent = Op(g).ent /\ st.home = Sender(g)
                                                => work[g].looked < st.at
    BY <1>1 DEF RememberedAt
  <2>1. /\ work[g].looked <= clock
        /\ \A st \in stones : st.ent = Op(g).ent /\ st.home = Sender(g) => work[g].looked < st.at
    BY DEF RememberedAt
  <2>2. work[g].looked \in Nat /\ clock \in Nat
    BY <1>3 DEF Undeleted
  <2>3. work[g].looked <= clock'
    BY <2>1, <2>2 DEF StoreMoves
  <2>4. ASSUME NEW st \in stones', st.ent = Op(g).ent, st.home = Sender(g)
        PROVE  work[g].looked < st.at
    <3>1. CASE st \in stones
      BY <2>1, <2>4, <3>1
    <3>2. CASE st.at > clock /\ st \notin stones
      <4>1. st.at \in Nat
        BY DEF PushTypeOK, Stone
      <4>. QED BY <2>1, <2>2, <3>2, <4>1
    <3>. QED BY <3>1, <3>2 DEF StoreMoves
  <2>. QED BY <2>3, <2>4
<1>5. ComparedAt(g)'
  <2>. SUFFICES ASSUME Begun(g), work[g].step \in {"journal", "create", "update"}
                PROVE  ComparedAt(g)'
    BY <1>1 DEF ComparedAt
  <2> DEFINE e == Op(g).ent
  <2>1. /\ work[g].readAt <= clock
        /\ rows[e] = work[g].seen \/ rows[e].ver > work[g].readAt \/ ~Owned(rows[e], Sender(g))
        /\ \/ work[g].step = "journal" \/ Op(g).base \in {0, work[g].seen.ver} \/ ~Exists(work[g].seen)
           \/ Noted(g)
    BY DEF ComparedAt
  <2>2. /\ work[g].readAt \in Nat /\ e \in Entity /\ Sender(g) \in Home
        /\ rows[e].ver \in Nat /\ clock \in Nat
    BY <1>3
  <2>3. work[g].readAt <= clock'
    BY <2>1, <2>2 DEF StoreMoves
  <2>4. rows'[e] = work[g].seen \/ rows'[e].ver > work[g].readAt \/ ~Owned(rows'[e], Sender(g))
    <3>1. CASE rows'[e] = rows[e]
      BY <2>1, <3>1
    <3>2. CASE rows'[e].ver > clock
      <4>1. rows'[e] \in EntityRow
        BY <2>2 DEF PushTypeOK
      <4>2. rows'[e].ver \in Nat
        BY <4>1 DEF EntityRow, StoredRow, NoRow
      <4>. QED BY <2>1, <2>2, <3>2, <4>2
    <3>3. CASE rows'[e] = NoRow
      BY <2>2, <3>3, PushAssumption DEF Owned, NoRow
    <3>. QED BY <2>2, <3>1, <3>2, <3>3 DEF StoreMoves
  <2>5. Noted(g) => Noted(g)'
    BY <1>1 DEF Noted, StoreMoves
  <2>. QED BY <1>1, <2>1, <2>3, <2>4, <2>5 DEF ComparedAt
<1>. QED BY <1>2, <1>4, <1>5

-----------------------------------------------------------------------------
(* A step of one handler keeps the invariant if it keeps its own part.     *)

\* So a step keeps the invariant when it keeps the part of its own handler.
LEMMA StepKeeps ==
  ASSUME PushInvariant, NEW h \in Handler, StoreMoves, PushTypeOK', DeletionWins',
         handler' \in [Handler -> HandlerState],
         \A g \in Handler : g # h => handler'[g] = handler[g] /\ work'[g] = work[g],
         handler'[h].pc # "idle" => handler'[h].req \in Request,
         PlacedAt(h)' /\ RememberedAt(h)' /\ ComparedAt(h)'
  PROVE  PushInvariant'
<1>1. \A g \in Handler : g # h => PlacedAt(g)' /\ RememberedAt(g)' /\ ComparedAt(g)'
  BY OthersKept
<1>2. \A g \in Handler : g # h /\ handler'[g].pc # "idle" => handler'[g].req \in Request
  BY DEF PushInvariant, Placed, At
<1>3. Placed'
  BY <1>1, <1>2 DEF Placed, At
<1>. QED BY <1>1, <1>3 DEF PushInvariant

\* Rows that stay and tombstones that at most go do not touch what deletions won.
LEMMA DeletionKept ==
  ASSUME DeletionWins, rows' = rows, stones' \subseteq stones
  PROVE  DeletionWins'
BY DEF DeletionWins, Owned

\* When an operation concludes nothing of it is remembered.
LEMMA ConcludeKeeps ==
  ASSUME PushInvariant, NEW h \in Handler, At(h, "exec"), work[h].step # "respond",
         NEW status \in Status, Conclude(h, status), handler' = handler, sends' = sends, StoreMoves,
         rows' \in [Entity -> EntityRow], stones' \subseteq Stone, journal' \subseteq Loss, DeletionWins'
  PROVE  PushInvariant'
<1>. PushTypeOK /\ Placed
  BY DEF PushInvariant
<1>. Begun(h)
  BY DEF Begun, At
<1>1. /\ work' \in [Handler -> Work]
      /\ work'[h].i \in 1..(Len(BodyAt(h)) + 1)
      /\ work'[h].step \in {"stone", "count", "delete", "respond"}
      /\ work'[h].step = "respond" <=> work'[h].i = Len(BodyAt(h)) + 1
      /\ Len(work'[h].results) = work'[h].i - 1
      /\ \A g \in Handler : g # h => work'[g] = work[g]
  BY ConcludeMoves
<1>2. PlacedAt(h)'
  BY <1>1 DEF PlacedAt, BodyAt
<1>3. RememberedAt(h)' /\ ComparedAt(h)'
  BY <1>1 DEF RememberedAt, ComparedAt, Undeleted
<1>4. PushTypeOK'
  BY <1>1 DEF PushTypeOK, StoreMoves
<1>5. handler' \in [Handler -> HandlerState] /\ handler'[h].req \in Request
  BY DEF Placed, At
<1>. QED BY <1>1, <1>2, <1>3, <1>4, <1>5, StepKeeps

\* The store does not move.
LEMMA StillStore ==
  ASSUME PushInvariant, UNCHANGED <<store, today>>
  PROVE  /\ StoreMoves /\ DeletionWins'
         /\ rows' \in [Entity -> EntityRow] /\ stones' \subseteq Stone /\ journal' \subseteq Loss
<1>1. DeletionWins'
  BY DeletionKept DEF PushInvariant, store
<1>. QED BY <1>1 DEF store, StoreMoves, PushInvariant, PushTypeOK

-----------------------------------------------------------------------------
(* The steps of an operation.                                              *)

\* Looking for a deletion record keeps the invariant.
LEMMA CheckStoneKeeps ==
  ASSUME PushInvariant, NEW h \in Handler, CheckStone(h)
  PROVE  PushInvariant'
<1>. PushTypeOK /\ Placed /\ PlacedAt(h) /\ Begun(h) /\ handler[h].req \in Request
  BY DEF PushInvariant, Placed, CheckStone, Working, Begun, At
<1> DEFINE found == \E st \in stones : st.ent = Op(h).ent /\ st.home = Sender(h)
           one == [work[h] EXCEPT !.step = "current"]
           two == [one EXCEPT !.looked = clock]
           new == [two EXCEPT !.deleted = found]
<1>1. work' = [work EXCEPT ![h] = new] /\ handler' = handler /\ sends' = sends /\ UNCHANGED <<store, today>>
  BY DEF CheckStone, keyVars
<1>2. /\ new \in Work /\ new.step = "current" /\ new.looked = clock /\ new.deleted = found
      /\ new.i = work[h].i /\ new.results = work[h].results
  <2>1. work[h] \in Work /\ clock \in Nat
    BY DEF PushTypeOK
  <2>2. found \in BOOLEAN
    OBVIOUS
  <2> HIDE DEF found
  <2>3. one \in Work /\ one.step = "current" /\ one.i = work[h].i /\ one.results = work[h].results
    BY <2>1 DEF Work, OpPoint
  <2> HIDE DEF one
  <2>4. /\ two \in Work /\ two.step = "current" /\ two.i = work[h].i /\ two.results = work[h].results
        /\ two.looked = clock
    BY <2>1, <2>3 DEF Work
  <2> HIDE DEF two
  <2>. QED BY <2>2, <2>4 DEF Work
<1> HIDE DEF new
<1>3. work' \in [Handler -> Work] /\ work'[h] = new /\ \A g \in Handler : g # h => work'[g] = work[g]
  BY <1>1, <1>2 DEF PushTypeOK
<1>4. PlacedAt(h)'
  <2>1. work[h].step # "respond" /\ work[h].i # Len(BodyAt(h)) + 1
    BY DEF CheckStone, Working, PlacedAt
  <2>. QED BY <1>1, <1>2, <1>3, <2>1 DEF PlacedAt, BodyAt
<1>5. RememberedAt(h)'
  <2>1. Op(h)' = Op(h) /\ Sender(h)' = Sender(h)
    BY <1>1, <1>2, <1>3 DEF Op, Sender, BodyAt
  <2>2. Undeleted(h)' => ~found
    BY <1>2, <1>3 DEF Undeleted
  <2>3. work'[h].looked <= clock'
    BY <1>1, <1>2, <1>3 DEF store, PushTypeOK
  <2>. QED BY <1>1, <2>1, <2>2, <2>3 DEF RememberedAt, store
<1>6. ComparedAt(h)'
  BY <1>2, <1>3 DEF ComparedAt
<1>7. PushTypeOK'
  BY <1>1, <1>3 DEF PushTypeOK, store
<1>. QED BY <1>1, <1>3, <1>4, <1>5, <1>6, <1>7, StepKeeps, StillStore DEF Placed

\* What arbitration may answer: it writes in silence only over the base, or where
\* there is nothing.
LEMMA Arbitration ==
  ASSUME NEW base \in Nat, NEW current \in EntityRow, NEW deleted \in BOOLEAN
  PROVE  /\ Arbitrate(base, current, deleted) \in {"reject", "journal", "create"}
         /\ Arbitrate(base, current, deleted) # "reject" => ~deleted
         /\ Arbitrate(base, current, deleted) = "create" =>
              base \in {0, current.ver} \/ ~Exists(current)
BY DEF Arbitrate

\* Reading the current version keeps the invariant.
LEMMA ReadCurrentKeeps ==
  ASSUME PushInvariant, NEW h \in Handler, ReadCurrent(h)
  PROVE  PushInvariant'
<1>. PushTypeOK /\ Placed /\ PlacedAt(h) /\ RememberedAt(h) /\ Begun(h) /\ handler[h].req \in Request
  BY DEF PushInvariant, Placed, ReadCurrent, Working, Begun, At
<1> DEFINE e == Op(h).ent
           row == IF Owned(rows[e], Sender(h)) THEN rows[e] ELSE NoRow
           verdict == Arbitrate(Op(h).base, row, work[h].deleted)
           one == [work[h] EXCEPT !.seen = row]
           two == [one EXCEPT !.readAt = clock]
           new == [two EXCEPT !.step = verdict]
<1>1. work' = [work EXCEPT ![h] = new] /\ handler' = handler /\ sends' = sends /\ UNCHANGED <<store, today>>
  BY DEF ReadCurrent, keyVars
<1>2. /\ work[h] \in Work /\ work[h].deleted \in BOOLEAN /\ work[h].looked \in Nat
      /\ work[h].step = "current" /\ work[h].i # Len(BodyAt(h)) + 1
      /\ e \in Entity /\ Op(h).base \in Nat /\ row \in EntityRow /\ clock \in Nat
      /\ Sender(h) \in Home
  <2>1. work[h].step = "current"
    BY DEF ReadCurrent, Working
  <2>2. work[h] \in Work /\ Op(h) \in Operation /\ work[h].i # Len(BodyAt(h)) + 1 /\ Sender(h) \in Home
    BY <2>1, Batch DEF PlacedAt
  <2>3. e \in Entity /\ Op(h).base \in Nat
    BY <2>2 DEF Operation
  <2>. QED BY <2>1, <2>2, <2>3, RestType DEF Work, PushTypeOK
<1>3. /\ verdict \in {"reject", "journal", "create"}
      /\ verdict # "reject" => ~work[h].deleted
      /\ verdict = "create" => Op(h).base \in {0, row.ver} \/ ~Exists(row)
  <2> HIDE DEF row
  <2>. QED BY <1>2, Arbitration
<1>4. /\ new \in Work /\ new.step = verdict /\ new.seen = row /\ new.readAt = clock
      /\ new.i = work[h].i /\ new.results = work[h].results
      /\ new.looked = work[h].looked
  <2> HIDE DEF row, verdict
  <2>1. /\ one \in Work /\ one.seen = row /\ one.i = work[h].i /\ one.results = work[h].results
        /\ one.looked = work[h].looked
    BY <1>2 DEF Work
  <2> HIDE DEF one
  <2>2. /\ two \in Work /\ two.seen = row /\ two.i = work[h].i /\ two.results = work[h].results
        /\ two.looked = work[h].looked /\ two.readAt = clock
    BY <1>2, <2>1 DEF Work
  <2> HIDE DEF two
  <2>. QED BY <1>3, <2>2 DEF Work, OpPoint
<1> HIDE DEF new
<1>5. work' \in [Handler -> Work] /\ work'[h] = new /\ \A g \in Handler : g # h => work'[g] = work[g]
  BY <1>1, <1>4 DEF PushTypeOK
<1>6. PlacedAt(h)'
  BY <1>1, <1>2, <1>3, <1>4, <1>5 DEF PlacedAt, BodyAt
<1>7. Op(h)' = Op(h) /\ Sender(h)' = Sender(h) /\ rows' = rows /\ clock' = clock /\ stones' = stones
  BY <1>1, <1>4, <1>5 DEF Op, Sender, BodyAt, store
<1>8. RememberedAt(h)'
  <2>1. Undeleted(h)' => Undeleted(h)
    BY <1>2, <1>3, <1>4, <1>5 DEF Undeleted
  <2>. QED BY <1>4, <1>5, <1>7, <2>1 DEF RememberedAt
<1>9. ComparedAt(h)'
  <2>. SUFFICES ASSUME work'[h].step \in {"journal", "create", "update"}
                PROVE  /\ clock <= clock
                       /\ rows[e] = row \/ ~Owned(rows[e], Sender(h))
                       /\ verdict = "journal" \/ Op(h).base \in {0, row.ver} \/ ~Exists(row)
    BY <1>4, <1>5, <1>7 DEF ComparedAt
  <2>1. clock <= clock
    BY <1>2
  <2>2. verdict \in {"journal", "create"}
    BY <1>3, <1>4, <1>5
  <2>. QED BY <1>3, <2>1, <2>2
<1>10. PushTypeOK'
  BY <1>1, <1>5 DEF PushTypeOK, store
<1>. QED BY <1>1, <1>5, <1>6, <1>8, <1>9, <1>10, StepKeeps, StillStore DEF Placed

\* What is journalled is an entry of the sender's household, of today.
LEMMA JournalTypes ==
  ASSUME PushInvariant, NEW h \in Handler, Begun(h), work[h].step # "respond",
         NEW reason \in {"overwritten", "deleted_remotely"}, NEW name \in Name \cup {NoName}, NEW ver \in Nat,
         Journal(h, reason, name, ver)
  PROVE  /\ journal' \subseteq Loss /\ journal \subseteq journal'
         /\ \E l \in journal' : l.ent = Op(h).ent /\ l.ver = ver /\ l.home = Sender(h) /\ l.day = today
<1> DEFINE l == [home |-> Sender(h), ent |-> Op(h).ent, reason |-> reason,
                 name |-> name, ver |-> ver, day |-> today]
<1>. PushTypeOK /\ Placed
  BY DEF PushInvariant
<1>1. Sender(h) \in Home /\ Op(h) \in Operation
  BY Batch
<1>2. Op(h).ent \in Entity /\ today \in 0..LastDay /\ journal \subseteq Loss
  BY <1>1 DEF Operation, PushTypeOK
<1>3. l \in Loss
  BY <1>1, <1>2 DEF Loss
<1>4. journal' = journal \cup {l}
  BY DEF Journal
<1>. QED BY <1>2, <1>3, <1>4

\* Refusing an upsert of what was deleted keeps the invariant.
LEMMA RejectDeletedKeeps ==
  ASSUME PushInvariant, NEW h \in Handler, RejectDeleted(h)
  PROVE  PushInvariant'
<1>. PushTypeOK /\ Placed /\ Begun(h) /\ At(h, "exec") /\ work[h].step # "respond"
  BY DEF PushInvariant, RejectDeleted, Working, Begun, At
<1>1. Op(h).name \in Name \cup {NoName}
  BY Batch DEF Operation
<1>2. journal' \subseteq Loss /\ journal \subseteq journal'
  BY <1>1, JournalTypes DEF RejectDeleted
<1>3. StoreMoves /\ DeletionWins' /\ rows' \in [Entity -> EntityRow] /\ stones' \subseteq Stone
  BY <1>2, DeletionKept DEF RejectDeleted, StoreMoves, PushInvariant, PushTypeOK
<1>. QED BY <1>2, <1>3, ConcludeKeeps DEF RejectDeleted, keyVars, Status

\* The operation goes on in another step with what it has read.
LEMMA ContinueKeeps ==
  ASSUME PushInvariant, NEW h \in Handler, At(h, "exec"), work[h].step # "respond",
         NEW step \in {"create", "update", "delete"}, Continue(h, step),
         handler' = handler, sends' = sends, rows' = rows, stones' = stones, clock' = clock, today' = today,
         journal' \subseteq Loss, journal \subseteq journal',
         step # "delete" => work[h].step \in {"journal", "create", "update"},
         step = "create" => Noted(h)',
         step = "update" => work[h].step = "create" /\ Valid(Op(h))
  PROVE  PushInvariant'
<1>. PushTypeOK /\ Placed /\ PlacedAt(h) /\ RememberedAt(h) /\ ComparedAt(h) /\ Begun(h)
  BY DEF PushInvariant, Placed, Begun, At
<1>1. step \in OpPoint /\ handler[h].req \in Request
  BY DEF OpPoint, Placed, At
<1>2. /\ work' \in [Handler -> Work] /\ work'[h] = [work[h] EXCEPT !.step = step]
      /\ \A g \in Handler : g # h => work'[g] = work[g]
  BY <1>1, ContinueMoves DEF PushTypeOK
<1>3. work[h] \in Work
  BY DEF PushTypeOK
<1>4. /\ work'[h].step = step /\ work'[h].i = work[h].i /\ work'[h].results = work[h].results
      /\ work'[h].looked = work[h].looked /\ work'[h].seen = work[h].seen /\ work'[h].readAt = work[h].readAt
  BY <1>2, <1>3 DEF Work
<1>5. Op(h)' = Op(h) /\ Sender(h)' = Sender(h) /\ BodyAt(h)' = BodyAt(h)
  BY <1>4 DEF Op, Sender, BodyAt
<1>6. PlacedAt(h)'
  BY <1>4, <1>5 DEF PlacedAt
<1>7. RememberedAt(h)'
  <2>1. Undeleted(h)' => Undeleted(h)
    BY <1>4 DEF Undeleted
  <2>. QED BY <1>4, <1>5, <2>1 DEF RememberedAt
<1>8. ComparedAt(h)'
  <2>. SUFFICES ASSUME step # "delete"
                PROVE  ComparedAt(h)'
    BY <1>4 DEF ComparedAt
  <2>1. Noted(h) => Noted(h)'
    BY <1>4, <1>5 DEF Noted
  <2>. QED BY <1>4, <1>5, <2>1 DEF ComparedAt
<1>9. PushTypeOK'
  BY <1>2 DEF PushTypeOK
<1>10. StoreMoves /\ DeletionWins'
  BY DeletionKept DEF StoreMoves, PushInvariant, PushTypeOK
<1>. QED BY <1>1, <1>2, <1>6, <1>7, <1>8, <1>9, <1>10, StepKeeps DEF Placed

\* Journalling what is about to be overwritten keeps the invariant.
LEMMA JournalOverwrittenKeeps ==
  ASSUME PushInvariant, NEW h \in Handler, JournalOverwritten(h)
  PROVE  PushInvariant'
<1>. PushTypeOK /\ Placed /\ Begun(h) /\ At(h, "exec") /\ work[h].step = "journal"
  BY DEF PushInvariant, JournalOverwritten, Working, Begun, At
<1>1. work[h].seen \in EntityRow
  BY DEF PushTypeOK, Work
<1>2. work[h].seen.name \in Name \cup {NoName} /\ work[h].seen.ver \in Nat
  BY <1>1 DEF EntityRow, StoredRow, NoRow
<1>3. /\ journal' \subseteq Loss /\ journal \subseteq journal'
      /\ \E l \in journal' : l.ent = Op(h).ent /\ l.ver = work[h].seen.ver /\ l.home = Sender(h) /\ l.day = today
  BY <1>2, JournalTypes DEF JournalOverwritten
<1>4. work'[h].seen = work[h].seen /\ work'[h].i = work[h].i
  <2>1. work[h] \in Work /\ "create" \in OpPoint
    BY DEF PushTypeOK, OpPoint
  <2>2. work'[h] = [work[h] EXCEPT !.step = "create"]
    BY <2>1, ContinueMoves DEF JournalOverwritten, PushTypeOK
  <2>. QED BY <2>1, <2>2 DEF Work
<1>5. Noted(h)'
  BY <1>3, <1>4 DEF Noted, Op, Sender, BodyAt, JournalOverwritten, keyVars
<1>. QED BY <1>3, <1>5, ContinueKeeps DEF JournalOverwritten, keyVars

\* An invalid operation keeps the invariant.
LEMMA InvalidKeeps ==
  ASSUME PushInvariant, NEW h \in Handler, Invalid(h)
  PROVE  PushInvariant'
<1>1. At(h, "exec") /\ work[h].step # "respond"
  BY DEF Invalid, Working
<1>. QED BY <1>1, StillStore, ConcludeKeeps DEF Invalid, keyVars, Status

\* Counting references keeps the invariant.
LEMMA CountReferencesKeeps ==
  ASSUME PushInvariant, NEW h \in Handler, CountReferences(h)
  PROVE  PushInvariant'
<1>1. /\ At(h, "exec") /\ work[h].step = "count"
      /\ handler' = handler /\ UNCHANGED <<store, today>> /\ sends' = sends
  BY DEF CountReferences, Working, keyVars
<1>2. CASE Conclude(h, "rejected")
  BY <1>1, <1>2, StillStore, ConcludeKeeps DEF Status
<1>3. CASE Continue(h, "delete")
  BY <1>1, <1>3, ContinueKeeps DEF store, PushInvariant, PushTypeOK
<1>. QED BY <1>2, <1>3 DEF CountReferences

\* The row an upsert writes.
LEMMA NewRowTypes ==
  ASSUME PushTypeOK, NEW op \in Operation, Valid(op), NEW home \in Home, NEW born \in Nat
  PROVE  /\ NewRow(op, home, born) \in EntityRow
         /\ NewRow(op, home, born).ver = clock + 1
         /\ NewRow(op, home, born).home = home
         /\ NewRow(op, home, born).born = born
<1>1. clock + 1 \in Nat \ {0}
  BY DEF PushTypeOK
<1>2. op.name \in Name /\ op.ref \in Entity \cup {NoEntity}
  BY DEF Operation, Valid
<1>3. NewRow(op, home, born) \in StoredRow
  BY <1>1, <1>2 DEF NewRow, StoredRow
<1>. QED BY <1>3 DEF EntityRow, NewRow

\* An insertion keeps the invariant.
LEMMA CreateKeeps ==
  ASSUME PushInvariant, NEW h \in Handler, Create(h)
  PROVE  PushInvariant'
<1> DEFINE e == Op(h).ent
           new == NewRow(Op(h), Sender(h), work[h].looked)
<1>. PushTypeOK /\ Placed /\ Begun(h) /\ At(h, "exec") /\ RememberedAt(h)
  BY DEF PushInvariant, Create, Working, Begun, At
<1>1. /\ work[h].step = "create" /\ Valid(Op(h))
      /\ handler' = handler /\ sends' = sends /\ today' = today /\ stones' = stones /\ journal' = journal
  BY DEF Create, Working, keyVars
<1>2. CASE Continue(h, "update") /\ rows' = rows /\ clock' = clock
  BY <1>1, <1>2, ContinueKeeps DEF PushTypeOK
<1>3. CASE Conclude(h, "rejected") /\ rows' = rows /\ clock' = clock
  BY <1>1, <1>3, StillStore, ConcludeKeeps DEF Status, store
<1>4. CASE /\ rows' = [rows EXCEPT ![e] = new] /\ clock' = clock + 1
           /\ Conclude(h, "applied")
  <2>1. /\ Op(h) \in Operation /\ e \in Entity /\ Sender(h) \in Home
        /\ work[h].looked \in Nat /\ clock \in Nat /\ rows \in [Entity -> EntityRow]
    BY <1>1, Batch DEF Operation, Work, PushTypeOK
  <2>2. new \in EntityRow /\ new.ver = clock + 1 /\ new.home = Sender(h) /\ new.born = work[h].looked
    BY <1>1, <2>1, NewRowTypes
  <2> HIDE DEF new
  <2>3. rows' \in [Entity -> EntityRow] /\ rows'[e] = new /\ \A f \in Entity : f # e => rows'[f] = rows[f]
    BY <1>4, <2>1, <2>2
  <2>4. StoreMoves
    BY <1>1, <1>4, <2>1, <2>2, <2>3 DEF StoreMoves
  <2>5. DeletionWins'
    <3>. SUFFICES ASSUME NEW st \in stones, Owned(rows'[st.ent], st.home)
                  PROVE  rows'[st.ent].born < st.at
      BY <1>1 DEF DeletionWins, Owned
    <3>1. st.ent \in Entity
      BY DEF PushTypeOK, Stone
    <3>2. CASE st.ent = e
      <4>1. st.home = Sender(h)
        BY <2>2, <2>3, <3>2 DEF Owned
      <4>2. work[h].looked < st.at
        BY <1>1, <3>2, <4>1 DEF RememberedAt, Undeleted
      <4>. QED BY <2>2, <2>3, <3>2, <4>2
    <3>3. CASE st.ent # e
      BY <2>3, <3>1, <3>3 DEF PushInvariant, DeletionWins, Owned
    <3>. QED BY <3>2, <3>3
  <2>. QED BY <1>1, <1>4, <2>3, <2>4, <2>5, ConcludeKeeps DEF Status, PushTypeOK
<1>. QED BY <1>2, <1>3, <1>4 DEF Create

\* An update after a conflict keeps the invariant.
LEMMA UpdateKeeps ==
  ASSUME PushInvariant, NEW h \in Handler, Update(h)
  PROVE  PushInvariant'
<1> DEFINE e == Op(h).ent
           new == NewRow(Op(h), rows[e].home, rows[e].born)
<1>. PushTypeOK /\ Placed /\ Begun(h) /\ At(h, "exec") /\ PlacedAt(h)
  BY DEF PushInvariant, Placed, Update, Working, Begun, At
<1>1. /\ work[h].step = "update" /\ Valid(Op(h))
      /\ handler' = handler /\ sends' = sends /\ today' = today /\ stones' = stones /\ journal' = journal
  BY DEF Update, Working, keyVars, PlacedAt
<1>2. CASE Conclude(h, "rejected") /\ rows' = rows /\ clock' = clock
  BY <1>1, <1>2, StillStore, ConcludeKeeps DEF Status, store
<1>3. CASE /\ Exists(rows[e]) /\ Owned(rows[e], Sender(h))
           /\ rows' = [rows EXCEPT ![e] = new] /\ clock' = clock + 1
           /\ Conclude(h, "applied")
  <2>1. /\ Op(h) \in Operation /\ e \in Entity /\ Sender(h) \in Home
        /\ clock \in Nat /\ rows \in [Entity -> EntityRow]
    BY <1>1, Batch DEF Operation, PushTypeOK
  <2>2. rows[e].home \in Home /\ rows[e].born \in Nat
    <3>1. rows[e] \in StoredRow
      BY <1>3, <2>1 DEF EntityRow, NoRow, Exists
    <3>. QED BY <3>1 DEF StoredRow
  <2>3. new \in EntityRow /\ new.ver = clock + 1 /\ new.home = rows[e].home /\ new.born = rows[e].born
    BY <1>1, <2>1, <2>2, NewRowTypes
  <2> HIDE DEF new
  <2>4. rows' \in [Entity -> EntityRow] /\ rows'[e] = new /\ \A f \in Entity : f # e => rows'[f] = rows[f]
    BY <1>3, <2>1, <2>3
  <2>5. StoreMoves
    BY <1>1, <1>3, <2>1, <2>3, <2>4 DEF StoreMoves
  <2>6. DeletionWins'
    <3>1. \A st \in stones : st.ent \in Entity
      BY DEF PushTypeOK, Stone
    <3>2. \A f \in Entity : rows'[f].home = rows[f].home /\ rows'[f].born = rows[f].born
      BY <2>3, <2>4
    <3>. QED BY <1>1, <3>1, <3>2 DEF PushInvariant, DeletionWins, Owned
  <2>. QED BY <1>1, <1>3, <2>4, <2>5, <2>6, ConcludeKeeps DEF Status, PushTypeOK
<1>. QED BY <1>2, <1>3 DEF Update

\* A removal with its record keeps the invariant.
LEMMA DeleteRowKeeps ==
  ASSUME PushInvariant, NEW h \in Handler, DeleteRow(h)
  PROVE  PushInvariant'
<1> DEFINE e == Op(h).ent
           new == [home |-> Sender(h), ent |-> e, at |-> clock + 1, day |-> today]
<1>. PushTypeOK /\ Placed /\ Begun(h) /\ At(h, "exec")
  BY DEF PushInvariant, DeleteRow, Working, Begun, At
<1>1. /\ work[h].step = "delete" /\ Conclude(h, "applied")
      /\ handler' = handler /\ sends' = sends /\ today' = today /\ journal' = journal
  BY DEF DeleteRow, Working, keyVars
<1>2. CASE rows' = rows /\ stones' = stones /\ clock' = clock
  BY <1>1, <1>2, StillStore, ConcludeKeeps DEF Status, store
<1>3. CASE /\ rows' = [rows EXCEPT ![e] = NoRow]
           /\ stones' = Bury(e, Sender(h)) /\ clock' = clock + 1
  <2>1. /\ Op(h) \in Operation /\ e \in Entity /\ Sender(h) \in Home
        /\ clock \in Nat /\ rows \in [Entity -> EntityRow] /\ today \in 0..LastDay /\ stones \subseteq Stone
    BY <1>1, Batch DEF Operation, PushTypeOK
  <2>2. rows' \in [Entity -> EntityRow] /\ rows'[e] = NoRow /\ \A f \in Entity : f # e => rows'[f] = rows[f]
    BY <1>3, <2>1, RestType
  <2>3. new \in Stone /\ new.at = clock + 1 /\ new.ent = e
    BY <2>1 DEF Stone
  <2>4. stones' \subseteq stones \cup {new}
    BY <1>3 DEF Bury
  <2> HIDE DEF new
  <2>5. stones' \subseteq Stone
    BY <2>1, <2>3, <2>4
  <2>6. StoreMoves
    BY <1>1, <1>3, <2>1, <2>2, <2>3, <2>4 DEF StoreMoves
  <2>7. DeletionWins'
    <3>. SUFFICES ASSUME NEW st \in stones', Owned(rows'[st.ent], st.home)
                  PROVE  rows'[st.ent].born < st.at
      BY DEF DeletionWins, Owned
    <3>1. st.ent \in Entity /\ st.home \in Home
      BY <2>5 DEF Stone
    <3>2. st.ent # e
      BY <2>2, <3>1, PushAssumption DEF Owned, NoRow
    <3>3. st \in stones
      BY <2>3, <2>4, <3>2
    <3>. QED BY <2>2, <3>1, <3>2, <3>3 DEF PushInvariant, DeletionWins, Owned
  <2>. QED BY <1>1, <2>2, <2>5, <2>6, <2>7, ConcludeKeeps DEF Status, PushTypeOK
<1>. QED BY <1>2, <1>3 DEF DeleteRow

-----------------------------------------------------------------------------
(* The steps around the batch.                                             *)

\* A request that arrives stands at the first operation of its batch.
LEMMA ArriveKeeps ==
  ASSUME PushInvariant, NEW h \in Handler, NEW r \in Request, Arrive(h, r)
  PROVE  PushInvariant'
<1> DEFINE step == FirstStep(BodyOf[r], 1)
           new == [Rest EXCEPT !.i = 1, !.step = step]
           pc == IF SlotOf[r] = NoSlot THEN "exec" ELSE "insert"
           free == [Free EXCEPT !.pc = pc, !.req = r]
<1>. PushTypeOK /\ Placed
  BY DEF PushInvariant
<1>1. /\ work' = [work EXCEPT ![h] = new] /\ handler' = [handler EXCEPT ![h] = free]
      /\ sends' = [sends EXCEPT ![r] = @ + 1] /\ UNCHANGED <<store, today>>
  BY DEF Arrive, Receive
<1>2. BodyOf[r] \in Seq(Operation) /\ 1 \in 1..(Len(BodyOf[r]) + 1)
  BY PushAssumption
<1>3. /\ step \in {"stone", "count", "delete", "respond"}
      /\ step = "respond" <=> 1 = Len(BodyOf[r]) + 1
  BY <1>2, FirstSteps
<1>4. new \in Work /\ new.i = 1 /\ new.step = step /\ new.results = <<>>
  <2> HIDE DEF step
  <2>1. step \in OpPoint
    BY <1>3 DEF OpPoint
  <2>. QED BY <2>1, RestType DEF Work, Rest
<1>5. free \in HandlerState /\ free.req = r
  <2>1. pc \in KeyPoint
    BY DEF KeyPoint
  <2> HIDE DEF pc
  <2>. QED BY <2>1 DEF Free, HandlerState
<1> HIDE DEF new, free
<1>6. work' \in [Handler -> Work] /\ work'[h] = new /\ \A g \in Handler : g # h => work'[g] = work[g]
  BY <1>1, <1>4 DEF PushTypeOK
<1>7. /\ handler' \in [Handler -> HandlerState] /\ handler'[h] = free
      /\ \A g \in Handler : g # h => handler'[g] = handler[g]
  BY <1>1, <1>5 DEF Placed
<1>8. PlacedAt(h)'
  <2>1. BodyAt(h)' = BodyOf[r]
    BY <1>5, <1>7 DEF BodyAt
  <2>2. Len(new.results) = new.i - 1
    BY <1>4
  <2>. QED BY <1>2, <1>3, <1>4, <1>6, <2>1, <2>2 DEF PlacedAt
<1>9. RememberedAt(h)' /\ ComparedAt(h)'
  BY <1>3, <1>4, <1>6 DEF RememberedAt, ComparedAt, Undeleted
<1>10. sends' \in [Request -> Nat]
  BY <1>1 DEF PushTypeOK
<1>11. PushTypeOK'
  BY <1>1, <1>6, <1>10 DEF PushTypeOK, store
<1>. QED BY <1>1, <1>5, <1>6, <1>7, <1>8, <1>9, <1>11, StepKeeps, StillStore

\* A step of the protocol keeps the place in the batch while the execution lasts.
LEMMA TidyKeeps ==
  ASSUME PushInvariant, NEW h \in Handler, Tidy(h), UNCHANGED <<store, today, sends>>,
         handler' \in [Handler -> HandlerState],
         \A g \in Handler : g # h => handler'[g] = handler[g],
         handler'[h].pc = "idle" \/ (handler'[h].req = handler[h].req /\ handler[h].pc # "idle"),
         Begun(h)' => Begun(h)
  PROVE  PushInvariant'
<1>. PushTypeOK /\ Placed /\ PlacedAt(h) /\ RememberedAt(h) /\ ComparedAt(h)
  BY DEF PushInvariant, Placed
<1>1. work' \in [Handler -> Work] /\ \A g \in Handler : g # h => work'[g] = work[g]
  BY RestType DEF Tidy, PushTypeOK
<1>2. ASSUME Begun(h)'
      PROVE  work' = work /\ handler'[h].req = handler[h].req /\ Begun(h)
  BY <1>2 DEF Begun, Tidy
<1>3. ASSUME Begun(h)'
      PROVE  PlacedAt(h)' /\ RememberedAt(h)' /\ ComparedAt(h)'
  <2>1. Op(h)' = Op(h) /\ Sender(h)' = Sender(h) /\ BodyAt(h)' = BodyAt(h)
    BY <1>2, <1>3 DEF Op, Sender, BodyAt
  <2>2. work' = work /\ Begun(h) /\ rows' = rows /\ stones' = stones /\ journal' = journal
        /\ clock' = clock /\ today' = today
    BY <1>2, <1>3 DEF store
  <2>3. Undeleted(h)' <=> Undeleted(h)
    BY <2>2 DEF Undeleted
  <2>4. Noted(h)' <=> Noted(h)
    BY <2>1, <2>2 DEF Noted
  <2>. QED BY <2>1, <2>2, <2>3, <2>4 DEF PlacedAt, RememberedAt, ComparedAt
<1>4. PlacedAt(h)' /\ RememberedAt(h)' /\ ComparedAt(h)'
  BY <1>3 DEF PlacedAt, RememberedAt, ComparedAt
<1>5. PushTypeOK'
  BY <1>1 DEF PushTypeOK, store
<1>6. handler'[h].pc # "idle" => handler'[h].req \in Request
  BY DEF Placed, At
<1>. QED BY <1>1, <1>4, <1>5, <1>6, StepKeeps, StillStore

\* The results of a batch are one status for each operation.
LEMMA RespondMoves ==
  ASSUME PushInvariant, NEW h \in Handler, Respond(h)
  PROVE  work[h].results \in Result
<1>. PushTypeOK /\ Placed /\ PlacedAt(h) /\ Begun(h) /\ work[h].step = "respond"
  BY DEF PushInvariant, Placed, Respond, Working, Begun, At
<1>1. handler[h].req \in Request /\ BodyAt(h) \in Seq(Operation) /\ work[h] \in Work
  BY Batch
<1>2. work[h].results \in Seq(Status) /\ Len(work[h].results) = Len(BodyAt(h))
  BY <1>1 DEF PlacedAt, Work
<1>3. work[h].results \in [1..Len(BodyAt(h)) -> Status]
  BY <1>2
<1>. QED BY <1>1, <1>3, PushAssumption DEF BodyAt

\* The answer to a batch keeps the invariant.
LEMMA RespondKeeps ==
  ASSUME PushInvariant, NEW h \in Handler, Respond(h)
  PROVE  PushInvariant'
<1> DEFINE res == work[h].results
           one == [handler[h] EXCEPT !.pc = "finish"]
           new == [one EXCEPT !.res = res]
<1>. Placed /\ At(h, "exec") /\ Tidy(h) /\ UNCHANGED <<store, today, sends>>
  BY DEF PushInvariant, Respond, Working
<1>1. CASE End(h)
  BY <1>1, EndFrees, TidyKeeps DEF Placed, Begun
<1>2. CASE handler' = [handler EXCEPT ![h].pc = "finish", ![h].res = res]
  <2>1. handler' = [handler EXCEPT ![h] = new]
    BY <1>2
  <2>2. new \in HandlerState /\ new.pc = "finish" /\ new.req = handler[h].req
    <3>1. handler[h] \in HandlerState /\ res \in Result
      BY RespondMoves DEF Placed
    <3> HIDE DEF res
    <3>2. one \in HandlerState /\ one.pc = "finish" /\ one.req = handler[h].req
      BY <3>1 DEF HandlerState, KeyPoint
    <3> HIDE DEF one
    <3>. QED BY <3>1, <3>2 DEF HandlerState
  <2> HIDE DEF new
  <2>3. /\ handler' \in [Handler -> HandlerState] /\ handler'[h] = new
        /\ \A g \in Handler : g # h => handler'[g] = handler[g]
    BY <2>1, <2>2 DEF Placed
  <2>. QED BY <2>2, <2>3, TidyKeeps DEF Begun, At
<1>. QED BY <1>1, <1>2 DEF Respond, Succeed

\* So do the statements around the execution, and those that fail.
LEMMA ProtocolKeeps ==
  ASSUME PushInvariant, NEW h \in Handler, PushFails(h) \/ Bracket(h)
  PROVE  PushInvariant'
<1>. Placed
  BY DEF PushInvariant
<1>1. KeyStep(h) \/ KeyFault(h) \/ Cut(h) \/ Fail(h)
  BY DEF PushFails, Bracket
<1>2. Tidy(h) /\ UNCHANGED <<store, today, sends>>
  BY DEF PushFails, Bracket
<1>3. /\ handler' \in [Handler -> HandlerState]
      /\ \A g \in Handler : g # h => handler'[g] = handler[g]
      /\ handler'[h].pc = "idle" \/ (handler'[h].req = handler[h].req /\ handler[h].pc # "idle")
      /\ Begun(h)' => Begun(h)
  BY <1>1, HandlerMoves DEF Placed
<1>. QED BY <1>2, <1>3, TidyKeeps

-----------------------------------------------------------------------------
(* Time and maintenance.                                                   *)

\* Purges take nothing that a handler in its batch relies on.
LEMMA PurgeKeeps ==
  ASSUME PushInvariant, UNCHANGED <<handler, rows, clock, today, work, sends>>,
         stones' \subseteq stones, journal' \subseteq journal,
         \A l \in journal : l.day = today => l \in journal'
  PROVE  PushInvariant'
<1>1. PushTypeOK'
  BY DEF PushInvariant, PushTypeOK
<1>2. DeletionWins'
  BY DeletionKept DEF PushInvariant
<1>3. StoreMoves
  BY DEF StoreMoves, PushInvariant, PushTypeOK
<1>4. \A h \in Handler : PlacedAt(h)' /\ RememberedAt(h)' /\ ComparedAt(h)'
  BY <1>1, <1>3, OthersKept
<1>5. Placed'
  BY <1>4 DEF PushInvariant, Placed, At
<1>. QED BY <1>1, <1>2, <1>4, <1>5 DEF PushInvariant

\* The purges and the age of reservations keep it.
LEMMA RetentionKeeps ==
  ASSUME PushInvariant, PurgeStones \/ PurgeJournal \/ \E s \in Slot : Grow(s)
  PROVE  PushInvariant'
<1>1. CASE PurgeStones
  BY <1>1, PurgeKeeps DEF PurgeStones, keyVars
<1>2. CASE PurgeJournal
  <2>1. ~Outdated(today)
    BY PushAssumption DEF Outdated, PushInvariant, PushTypeOK
  <2>. QED BY <1>2, <2>1, PurgeKeeps DEF PurgeJournal, keyVars
<1>3. CASE \E s \in Slot : Grow(s)
  BY <1>3, PurgeKeeps DEF Grow, Age, pushVars
<1>. QED BY <1>1, <1>2, <1>3

\* So does the next day.
LEMMA NextDayKeeps ==
  ASSUME PushInvariant, NextDay
  PROVE  PushInvariant'
<1>. PushTypeOK /\ Placed /\ DeletionWins
  BY DEF PushInvariant
<1>1. \A h \in Handler : ~Begun(h)'
  BY DEF NextDay, At, Begun, keyVars
<1>2. today' \in 0..LastDay
  BY PushAssumption DEF NextDay, PushTypeOK
<1>3. PushTypeOK' /\ DeletionWins'
  BY <1>2, DeletionKept DEF PushTypeOK, NextDay, store
<1>4. Placed'
  BY <1>1 DEF Placed, PlacedAt, NextDay, keyVars, At
<1>. QED BY <1>1, <1>3, <1>4 DEF PushInvariant, RememberedAt, ComparedAt

-----------------------------------------------------------------------------
(* The inductive invariant.                                                *)

\* The invariant holds at first.
LEMMA PushInitial == PushInit => PushInvariant
<1>. SUFFICES ASSUME PushInit PROVE PushInvariant
  OBVIOUS
<1>1. Free \in HandlerState /\ Free.pc = "idle"
  BY DEF Free, HandlerState, KeyPoint
<1>2. \A h \in Handler : handler[h] = Free
  BY DEF PushInit, KeysInit
<1>3. \A h \in Handler : At(h, "idle") /\ ~Begun(h)
  BY <1>1, <1>2 DEF At, Begun
<1>4. handler \in [Handler -> HandlerState]
  BY <1>1 DEF PushInit, KeysInit
<1>5. PushTypeOK
  BY RestType, PushAssumption DEF PushTypeOK, PushInit
<1>6. Placed
  BY <1>3, <1>4 DEF Placed, PlacedAt
<1>7. DeletionWins
  BY DEF PushInit, DeletionWins
<1>. QED BY <1>3, <1>5, <1>6, <1>7 DEF PushInvariant, RememberedAt, ComparedAt

\* Every step keeps the invariant.
LEMMA PushInductive == PushInvariant /\ [PushNext]_allVars => PushInvariant'
<1>. SUFFICES ASSUME PushInvariant, [PushNext]_allVars PROVE PushInvariant'
  OBVIOUS
<1>1. CASE UNCHANGED allVars
  BY <1>1, PurgeKeeps DEF allVars, keyVars, pushVars
<1>2. ASSUME NEW h \in Handler, NEW r \in Request, Arrive(h, r)
      PROVE  PushInvariant'
  BY <1>2, ArriveKeeps
<1>3. ASSUME NEW h \in Handler, Bracket(h) \/ PushFails(h)
      PROVE  PushInvariant'
  BY <1>3, ProtocolKeeps
<1>4. ASSUME NEW h \in Handler, Respond(h)
      PROVE  PushInvariant'
  BY <1>4, RespondKeeps
<1>5. ASSUME NEW h \in Handler, OpStep(h)
      PROVE  PushInvariant'
  BY <1>5, CheckStoneKeeps, ReadCurrentKeeps, RejectDeletedKeeps, JournalOverwrittenKeeps, InvalidKeeps,
     CreateKeeps, UpdateKeeps, CountReferencesKeeps, DeleteRowKeeps DEF OpStep
<1>6. CASE PurgeStones \/ PurgeJournal \/ \E s \in Slot : Grow(s)
  BY <1>6, RetentionKeeps
<1>7. CASE NextDay
  BY <1>7, NextDayKeeps
<1>. QED BY <1>1, <1>2, <1>3, <1>4, <1>5, <1>6, <1>7 DEF PushNext

-----------------------------------------------------------------------------
(* The theorems.                                                           *)

\* At every point of every push the handler's place in its batch, and what it has
\* read of the tombstones and of the current row, fit the tables, whatever the other
\* handlers and the purges have done since.
THEOREM PushInvariantHolds == PushSpec => []PushInvariant
<1>. QED BY PushInitial, PushInductive, PTL DEF PushSpec

\* While its tombstone is kept, no upsert that looked for it brings a deleted entity
\* back (apply_upsert rejects it), for any interleaving of pushes.
THEOREM RememberedDeletionsWin == PushSpec => []DeletionWins
<1>1. PushInvariant => DeletionWins
  BY DEF PushInvariant
<1>. QED BY <1>1, PushInvariantHolds, PTL

\* Every step of a push is a step of the idempotency protocol, or none.
LEMMA PushStep == PushInvariant /\ [PushNext]_allVars => [KeysNext]_keyVars
<1>. SUFFICES ASSUME PushInvariant, [PushNext]_allVars PROVE [KeysNext]_keyVars
  OBVIOUS
<1>1. ASSUME NEW h \in Handler, NEW r \in Request, Arrive(h, r)
      PROVE  KeysNext
  BY <1>1 DEF Arrive, KeysNext
<1>2. ASSUME NEW h \in Handler, Bracket(h) \/ PushFails(h)
      PROVE  KeysNext
  BY <1>2 DEF Bracket, PushFails, KeysNext, Execute
<1>3. ASSUME NEW h \in Handler, Respond(h)
      PROVE  KeysNext
  BY <1>3, RespondMoves DEF Respond, KeysNext, Execute
<1>4. ASSUME NEW h \in Handler, OpStep(h)
      PROVE  UNCHANGED keyVars
  BY <1>4 DEF OpStep, CheckStone, ReadCurrent, RejectDeleted, JournalOverwritten, Invalid, Create, Update,
              CountReferences, DeleteRow
<1>5. CASE \E s \in Slot : Grow(s)
  BY <1>5 DEF Grow, KeysNext
<1>6. CASE NextDay \/ PurgeStones \/ PurgeJournal
  BY <1>6 DEF NextDay, PurgeStones, PurgeJournal
<1>7. CASE UNCHANGED allVars
  BY <1>7 DEF allVars
<1>. QED BY <1>1, <1>2, <1>3, <1>4, <1>5, <1>6, <1>7 DEF PushNext

\* POST /sync/push implements the idempotency protocol: it executes between begin
\* and finish, and answers with one status for each operation of its batch.
THEOREM PushImplementsKeys == PushSpec => KeysSpec
<1>1. PushInit => KeysInit
  BY DEF PushInit
<1>. QED BY <1>1, PushStep, PushInvariantHolds, PTL DEF PushSpec, KeysSpec

\* So, if no push outlasts its reservation, no two handlers apply a batch under the
\* same key at a time.
THEOREM OnePushAtATime ==
  ASSUME ~Slow
  PROVE  PushSpec => []OneHolder
<1>. QED BY OneExecutionAtATime, PushImplementsKeys, PTL

-----------------------------------------------------------------------------
(* What a push writes.                                                     *)

\* A step that moves a handler in its batch is a step of that handler; it changes rows,
\* and adds to the journal or the tombstones, only in the operations below.
LEMMA Writers ==
  ASSUME PushInvariant, PushNext, NEW h \in Handler, work'[h] # work[h]
  PROVE  \/ UNCHANGED store
         \/ RejectDeleted(h) \/ JournalOverwritten(h)
         \/ Create(h) \/ Update(h) \/ DeleteRow(h)
<1>. work \in [Handler -> Work]
  BY DEF PushInvariant, PushTypeOK
<1>1. ASSUME NEW g \in Handler, OpStep(g)
      PROVE  g = h
  BY <1>1 DEF OpStep, CheckStone, ReadCurrent, RejectDeleted, JournalOverwritten, Invalid, Create, Update,
              CountReferences, DeleteRow, Continue, Conclude
<1>2. ASSUME OpStep(h)
      PROVE  \/ UNCHANGED store
             \/ RejectDeleted(h) \/ JournalOverwritten(h)
             \/ Create(h) \/ Update(h) \/ DeleteRow(h)
  BY <1>2 DEF OpStep, CheckStone, ReadCurrent, Invalid, CountReferences
<1>3. ASSUME NEW g \in Handler, Bracket(g) \/ Respond(g) \/ PushFails(g)
      PROVE  UNCHANGED store
  BY <1>3 DEF Bracket, Respond, PushFails
<1>4. ASSUME NEW g \in Handler, NEW r \in Request, Arrive(g, r)
      PROVE  UNCHANGED store
  BY <1>4 DEF Arrive
<1>5. work' = work \/ ~(NextDay \/ PurgeStones \/ PurgeJournal \/ \E s \in Slot : Grow(s))
  BY DEF NextDay, PurgeStones, PurgeJournal, Grow, pushVars
<1>. QED BY <1>1, <1>2, <1>3, <1>4, <1>5 DEF PushNext

\* Only Update writes a row at the step "update".
LEMMA UpdateWrites ==
  ASSUME PushInvariant, PushNext, NEW h \in Handler, NEW e \in Entity,
         Working(h, "update"), rows'[e] # rows[e], work'[h] # work[h]
  PROVE  Update(h)
<1>1. work[h].step = "update"
  BY DEF Working
<1>. QED BY <1>1, Writers DEF RejectDeleted, JournalOverwritten, Create, DeleteRow, Working, store

\* A version that an update replaces was the base, is in the journal, or is newer
\* than what was read.
LEMMA OverwriteStep ==
  ASSUME PushInvariant, PushNext, NEW h \in Handler, Working(h, "update"),
         rows'[Op(h).ent] # rows[Op(h).ent], work'[h] # work[h]
  PROVE  \/ Op(h).base \in {0, rows[Op(h).ent].ver}
         \/ \E l \in journal : l.ent = Op(h).ent /\ l.ver = rows[Op(h).ent].ver
                               /\ l.home = rows[Op(h).ent].home
         \/ rows[Op(h).ent].ver > work[h].readAt
<1> DEFINE e == Op(h).ent
<1>. PushTypeOK /\ Placed /\ ComparedAt(h) /\ Begun(h) /\ work[h].step = "update"
  BY DEF PushInvariant, Working, Begun, At
<1>1. e \in Entity
  BY Batch DEF Operation
<1>2. Update(h)
  BY <1>1, UpdateWrites
<1>3. Exists(rows[e]) /\ Owned(rows[e], Sender(h))
  BY <1>2 DEF Update
<1>4. CASE rows[e] = work[h].seen
  <2>1. Op(h).base \in {0, rows[e].ver} \/ Noted(h)
    BY <1>3, <1>4 DEF ComparedAt
  <2>2. Noted(h) => \E l \in journal : l.ent = e /\ l.ver = rows[e].ver /\ l.home = rows[e].home
    BY <1>3, <1>4 DEF Noted, Owned
  <2>. QED BY <2>1, <2>2
<1>. QED BY <1>3, <1>4 DEF ComparedAt

\* A version that is overwritten unseen by its author is in the journal first
\* (journal_overwrite), but for what another push writes after the current version
\* was read.
THEOREM OverwritesJournalled == PushSpec => OverwriteJournalled
<1> DEFINE A == \A h \in Handler :
       LET e == Op(h).ent IN
       Working(h, "update") /\ rows'[e] # rows[e] /\ work'[h] # work[h] =>
         \/ Op(h).base \in {0, rows[e].ver}
         \/ \E l \in journal : l.ent = e /\ l.ver = rows[e].ver /\ l.home = rows[e].home
         \/ rows[e].ver > work[h].readAt
<1>1. PushInvariant /\ [PushNext]_allVars => [A]_allVars
  BY OverwriteStep
<1> HIDE DEF A
<1>2. PushSpec => [][A]_allVars
  BY <1>1, PushInvariantHolds, PTL DEF PushSpec
<1>. QED BY <1>2 DEF OverwriteJournalled, A

\* What one step of h does outside the household of its sender: nothing.
LEMMA HomesStep ==
  ASSUME PushInvariant, PushNext, NEW h \in Handler, work'[h] # work[h]
  PROVE  /\ \A e \in Entity : rows'[e] # rows[e] =>
              rows[e].home \in {Sender(h), NoEntity} /\ rows'[e].home \in {Sender(h), NoEntity}
         /\ \A x \in (stones' \ stones) \cup (journal' \ journal) : x.home = Sender(h)
<1>. rows \in [Entity -> EntityRow]
  BY DEF PushInvariant, PushTypeOK
<1>1. CASE UNCHANGED store
  BY <1>1 DEF store
<1>2. CASE RejectDeleted(h) \/ JournalOverwritten(h)
  BY <1>2 DEF RejectDeleted, JournalOverwritten, Journal
<1>3. CASE Create(h)
  <2>1. ASSUME NEW e \in Entity, ~Exists(rows[e])
        PROVE  rows[e].home = NoEntity
    <3>1. rows[e] = NoRow
      BY <2>1 DEF Exists, EntityRow, StoredRow
    <3>. QED BY <3>1 DEF NoRow
  <2>2. UNCHANGED <<stones, journal>>
    BY <1>3 DEF Create
  <2>3. ASSUME NEW e \in Entity, rows'[e] # rows[e]
        PROVE  ~Exists(rows[e]) /\ rows'[e].home = Sender(h)
    BY <1>3, <2>3 DEF Create, NewRow
  <2>. QED BY <2>1, <2>2, <2>3
<1>4. CASE Update(h)
  <2>1. UNCHANGED <<stones, journal>>
    BY <1>4 DEF Update
  <2>2. ASSUME NEW e \in Entity, rows'[e] # rows[e]
        PROVE  rows[e].home = Sender(h) /\ rows'[e].home = Sender(h)
    BY <1>4, <2>2 DEF Update, NewRow, Owned
  <2>. QED BY <2>1, <2>2
<1>5. CASE DeleteRow(h)
  <2>1. UNCHANGED journal /\ \A st \in stones' \ stones : st.home = Sender(h)
    BY <1>5 DEF DeleteRow, Bury
  <2>2. ASSUME NEW e \in Entity, rows'[e] # rows[e]
        PROVE  rows[e].home = Sender(h) /\ rows'[e].home = NoEntity
    BY <1>5, <2>2 DEF DeleteRow, Owned, NoRow
  <2>. QED BY <2>1, <2>2
<1>. QED BY <1>1, <1>2, <1>3, <1>4, <1>5, Writers

\* Whatever identifiers a push carries, it touches nothing of another household.
THEOREM HouseholdsApart == PushSpec => HomesIsolated
<1> DEFINE A == \A h \in Handler : work'[h] # work[h] =>
       /\ \A e \in Entity : rows'[e] # rows[e] =>
            rows[e].home \in {Sender(h), NoEntity} /\ rows'[e].home \in {Sender(h), NoEntity}
       /\ \A x \in (stones' \ stones) \cup (journal' \ journal) : x.home = Sender(h)
<1>1. PushInvariant /\ [PushNext]_allVars => [A]_allVars
  BY HomesStep
<1> HIDE DEF A
<1>2. PushSpec => [][A]_allVars
  BY <1>1, PushInvariantHolds, PTL DEF PushSpec
<1>. QED BY <1>2 DEF HomesIsolated, A
=============================================================================
