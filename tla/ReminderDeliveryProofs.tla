----------------------- MODULE ReminderDeliveryProofs -----------------------
(* Theorems about ReminderDelivery, for every value of its constants.      *)
EXTENDS ReminderDelivery, TLAPS

-----------------------------------------------------------------------------
(* The rows and the executions keep their types. *)

\* An execution at rest is an execution.
LEMMA IdleType == Idle \in Execution
  BY ConstantsAssumption DEF Idle, Execution, Point, Day

\* An absent row is a row of the outbox.
LEMMA NoRowType == NoRow \in Row
  BY DEF NoRow, Row

\* The delays of the policy are natural numbers.
LEMMA DelayType ==
  /\ MaxDelay \in Nat
  /\ RetryDelay(1) \in Nat
  /\ \A n \in Nat : ~Abandons(n) => RetryDelay(n) \in Nat
  BY PolicyAssumption DEF MaxDelay, RetryDelay, Abandons

\* A row that is opened is a row.
LEMMA NewRowType ==
  ASSUME NEW id \in Nat, NEW b \in SUBSET Occ
  PROVE  NewRow(id, b) \in Row
  BY DelayType DEF NewRow, Row

\* A row that is opened again is a row.
LEMMA RefreshedRowType ==
  ASSUME NEW r \in Row, NEW b \in SUBSET Occ
  PROVE  RefreshedRow(r, b) \in Row
  BY DEF RefreshedRow, Row

\* A claimed row is a row.
LEMMA ClaimedRowType ==
  ASSUME NEW r \in Row
  PROVE  ClaimedRow(r) \in Row
<1>1. r.attempts \in Nat /\ r.attempts + 1 \in Nat
  BY DEF Row
<1>2. (IF Abandons(r.attempts + 1) THEN MaxDelay ELSE RetryDelay(r.attempts + 1)) \in Nat
  BY <1>1, DelayType
<1>3. QED
  BY <1>1, <1>2, DelayType DEF ClaimedRow, Row

\* An abandoned row is a row.
LEMMA AbandonedRowType ==
  ASSUME NEW r \in Row
  PROVE  AbandonedRow(r) \in Row
  BY DEF AbandonedRow, Row

\* A row stays one as time passes.
LEMMA TickedRowType ==
  ASSUME NEW r \in Row
  PROVE  TickedRow(r) \in Row
<1>1. \A n \in Nat : Less(n) \in Nat
  BY DEF Less
<1>2. (IF r.status = "abandoned" /\ r.age < Retention THEN r.age + 1 ELSE r.age) \in Nat
  BY DEF Row
<1>3. QED
  BY <1>1, <1>2 DEF TickedRow, Row

\* The conclusion of an attempt leaves a row or none.
LEMMA ConcludedRowType ==
  ASSUME NEW r \in Row, NEW ok \in BOOLEAN, NEW n \in Nat
  PROVE  ConcludedRow(r, ok, n) \in Row
<1>1. FailedRow(r, n) \in Row
  <2>1. CASE Abandons(n)
    BY <2>1, AbandonedRowType DEF FailedRow
  <2>2. CASE ~Abandons(n)
    BY <2>2, DelayType DEF FailedRow, Row
  <2>3. QED
    BY <2>1, <2>2
<1>2. QED
  BY <1>1, NoRowType DEF ConcludedRow

\* The end of a send, or of a lost channel, leaves an outbox of rows.
LEMMA ConcludeType ==
  ASSUME outbox \in [Chan \X Day -> Row], NEW id \in Nat, NEW ok \in BOOLEAN, NEW n \in Nat
  PROVE  /\ Conclude(id, ok, n) \in [Chan \X Day -> Row]
         /\ Abandon(id) \in [Chan \X Day -> Row]
<1>1. \A k \in Chan \X Day : ConcludedRow(outbox[k], ok, n) \in Row
  BY ConcludedRowType
<1>2. \A k \in Chan \X Day : AbandonedRow(outbox[k]) \in Row
  BY AbandonedRowType
<1>3. QED
  BY <1>1, <1>2 DEF Conclude, Abandon

\* What is received, and what is still owed, keep their types.
LEMMA ReceiveType ==
  ASSUME TypeOK, NEW b, NEW c, Receive(b, c)
  PROVE  owed' \subseteq Occ \X Chan /\ skipped' = skipped /\ received' \in [Occ \X Chan -> 0..2]
  BY DEF Receive, TypeOK

-----------------------------------------------------------------------------
(* Type correctness. *)

\* The types hold at first.
LEMMA InitType == Init => TypeOK
<1> SUFFICES ASSUME Init PROVE TypeOK
  OBVIOUS
<1>1. plan \subseteq Occ /\ lead \in [Household -> Lead] /\ today \in Day
  BY ConstantsAssumption DEF Init, Day
<1>2. outbox \in [Chan \X Day -> Row] /\ run \in [Inst -> Execution]
  BY NoRowType, IdleType DEF Init
<1>3. QED
  BY <1>1, <1>2 DEF Init, TypeOK

\* What the environment does to the types.
LEMMA EnvironmentType ==
  ASSUME TypeOK, Environment
  PROVE  TypeOK'
<1>1. CASE Tick
  <2>1. \A r \in Row : TickedRow(r) \in Row
    BY TickedRowType
  <2>2. outbox' \in [Chan \X Day -> Row]
    BY <1>1, <2>1 DEF Tick, TypeOK
  <2>3. QED
    BY <1>1, <2>2 DEF Tick, TypeOK, data, history
<1>2. CASE NextDay
  BY <1>2, ConstantsAssumption DEF NextDay, TypeOK, Day, history
<1>3. ASSUME NEW s \in Sub, CreateSub(s) \/ UpdateSub(s) \/ DeleteSub(s)
      PROVE  TypeOK'
  <2>1. CASE CreateSub(s)
    BY <2>1 DEF CreateSub, OccsOf, TypeOK, history
  <2>2. CASE UpdateSub(s)
    BY <2>2 DEF UpdateSub, OccsOf, TypeOK, history
  <2>3. CASE DeleteSub(s)
    BY <2>3 DEF DeleteSub, OccsOf, TypeOK
  <2>4. QED
    BY <1>3, <2>1, <2>2, <2>3
<1>4. ASSUME NEW h \in Household, SetLeadDays(h)
      PROVE  TypeOK'
  BY <1>4 DEF SetLeadDays, TypeOK, history
<1>5. ASSUME NEW c \in Chan, CreateChannel(c) \/ DeleteChannel(c) \/ ChangeKey(c)
      PROVE  TypeOK'
  <2>1. CASE CreateChannel(c)
    BY <2>1 DEF CreateChannel, TypeOK, history
  <2>2. CASE DeleteChannel(c)
    <3>1. outbox' \in [Chan \X Day -> Row]
      BY <2>2, NoRowType DEF DeleteChannel, TypeOK
    <3>2. QED
      BY <2>2, <3>1 DEF DeleteChannel, TypeOK
  <2>3. CASE ChangeKey(c)
    BY <2>3 DEF ChangeKey, TypeOK, history
  <2>4. QED
    BY <1>5, <2>1, <2>2, <2>3
<1>6. QED
  BY <1>1, <1>2, <1>3, <1>4, <1>5 DEF Environment

\* A run that moves leaves the others as they are.
LEMMA MoveType ==
  ASSUME TypeOK, NEW i \in Inst, NEW r \in Execution, run' = [run EXCEPT ![i] = r]
  PROVE  run' \in [Inst -> Execution]
  BY DEF TypeOK

\* Every step of a run keeps the types.
LEMMA StepType ==
  ASSUME TypeOK, NEW i \in Inst, Start(i) \/ Step(i) \/ Crash(i)
  PROVE  TypeOK'
<1> USE DEF data, history
<1>0. run[i] \in Execution
  BY DEF TypeOK
<1>1. CASE Start(i)
  <2>1. PICK d \in {today} \cup AsOf :
          run' = [run EXCEPT ![i] = [Idle EXCEPT !.pc = "chans", !.day = d, !.due = Due(d)]]
    BY <1>1 DEF Start
  <2>2. d \in Day /\ Due(d) \in SUBSET Occ
    BY ConstantsAssumption DEF TypeOK, Due
  <2>3. [Idle EXCEPT !.pc = "chans", !.day = d, !.due = Due(d)] \in Execution
    BY <2>2, IdleType DEF Execution, Point
  <2>4. QED
    BY <1>1, <2>1, <2>3, MoveType DEF Start, TypeOK
<1>2. CASE LoadChannels(i)
  <2>1. [run[i] EXCEPT !.pc = "next", !.chans = {c \in Chan : chanState[c] = "live"}]
          \in Execution
    BY <1>0 DEF Execution, Point
  <2>2. QED
    BY <1>2, <2>1, MoveType DEF LoadChannels, TypeOK
<1>3. CASE NextHousehold(i)
  <2>1. PICK o \in run[i].due :
          run' = [run EXCEPT ![i] =
                    [run[i] EXCEPT !.pc = "log", !.home = {SubHome[o.sub]}, !.fresh = {}]]
    BY <1>3 DEF NextHousehold
  <2>2. SubHome[o.sub] \in Household
    BY <1>0, ConstantsAssumption DEF Execution
  <2>3. [run[i] EXCEPT !.pc = "log", !.home = {SubHome[o.sub]}, !.fresh = {}] \in Execution
    BY <1>0, <2>2 DEF Execution, Point
  <2>4. QED
    BY <1>3, <2>1, <2>3, MoveType DEF NextHousehold, TypeOK
<1>4. ASSUME NEW o \in Occ, Record(i, o)
      PROVE  TypeOK'
  <2>1. /\ [run[i] EXCEPT !.due = @ \ {o}, !.fresh = @ \cup {o}] \in Execution
        /\ [run[i] EXCEPT !.due = @ \ {o}] \in Execution
    BY <1>0 DEF Execution
  <2>2. run' \in [Inst -> Execution]
    BY <1>4, <2>1, MoveType DEF Record
  <2>3. owed' \subseteq Occ \X Chan /\ log' \subseteq Occ
    BY <1>4 DEF Record, HomeChans, Journal, TypeOK, Execution
  <2>4. QED
    BY <1>4, <2>2, <2>3 DEF Record, TypeOK
<1>5. ASSUME NEW o \in Occ, RecordFails(i, o)
      PROVE  TypeOK'
  BY <1>5, IdleType, MoveType DEF RecordFails, TypeOK
<1>6. CASE CloseBatch(i)
  <2> DEFINE q == IF run[i].fresh = {} THEN {} ELSE HomeChans(i)
  <2>1. q \in SUBSET Chan
    BY <1>0 DEF HomeChans, Execution
  <2>2. [run[i] EXCEPT !.pc = "open", !.queue = q] \in Execution
    BY <1>0, <2>1 DEF Execution, Point
  <2>3. QED
    BY <1>6, <2>2, MoveType DEF CloseBatch, TypeOK
<1>7. CASE NextBatch(i)
  <2>1. [run[i] EXCEPT !.pc = "next", !.home = {}, !.fresh = {}] \in Execution
    BY <1>0 DEF Execution, Point
  <2>2. QED
    BY <1>7, <2>1, MoveType DEF NextBatch, TypeOK
<1>8. ASSUME NEW c \in Chan, SkipChannel(i, c)
      PROVE  TypeOK'
  <2>1. [run[i] EXCEPT !.queue = @ \ {c}] \in Execution
    BY <1>0 DEF Execution
  <2>2. run[i].fresh \X {c} \subseteq Occ \X Chan
    BY <1>0 DEF Execution
  <2>3. run' \in [Inst -> Execution] /\ skipped' \subseteq Occ \X Chan
    BY <1>8, <2>1, <2>2, MoveType DEF SkipChannel, TypeOK
  <2>4. QED
    BY <1>8, <2>3 DEF SkipChannel, TypeOK
<1>9. ASSUME NEW c \in Chan, Open(i, c)
      PROVE  TypeOK'
  <2> DEFINE k == <<c, run[i].day>>
             n == IF outbox[k].id = 0 THEN nextId ELSE outbox[k].id
  <2>1. k \in Chan \X Day /\ run[i].fresh \in SUBSET Occ
    BY <1>0 DEF Execution
  <2>2. outbox[k] \in Row /\ n \in Nat /\ nextId \in Nat
    BY <2>1 DEF TypeOK, Row
  <2>3. outbox' \in [Chan \X Day -> Row]
    BY <1>9, <2>1, <2>2, NewRowType, RefreshedRowType DEF Open, TypeOK
  <2>4. nextId' \in Nat \ {0}
    BY <1>9 DEF Open, TypeOK
  <2>5. [run[i] EXCEPT !.pc = "send", !.queue = @ \ {c}, !.cur = {c}, !.id = n] \in Execution
    BY <1>0, <2>2 DEF Execution, Point
  <2>6. run' \in [Inst -> Execution]
    BY <1>9, <2>5, MoveType DEF Open
  <2>7. QED
    BY <1>9, <2>3, <2>4, <2>6 DEF Open, TypeOK
<1>10. ASSUME NEW c \in Chan, OpenFails(i, c)
       PROVE  TypeOK'
  <2>1. [run[i] EXCEPT !.pc = "send", !.queue = @ \ {c}, !.cur = {c}, !.id = 0] \in Execution
    BY <1>0 DEF Execution, Point
  <2>2. QED
    BY <1>10, <2>1, MoveType DEF OpenFails, TypeOK
<1>11. CASE Send(i)
  <2>1. PICK c \in run[i].cur, got \in BOOLEAN, ok \in BOOLEAN :
          /\ run' = [run EXCEPT ![i] = [run[i] EXCEPT !.pc = "note", !.ok = ok]]
          /\ IF got THEN Receive(run[i].fresh, c) ELSE UNCHANGED history
    BY <1>11 DEF Send
  <2>2. [run[i] EXCEPT !.pc = "note", !.ok = ok] \in Execution
    BY <1>0 DEF Execution, Point
  <2>3. owed' \subseteq Occ \X Chan /\ skipped' = skipped /\ received' \in [Occ \X Chan -> 0..2]
    BY <2>1, ReceiveType DEF TypeOK
  <2>4. run' \in [Inst -> Execution]
    BY <2>1, <2>2, MoveType
  <2>5. QED
    BY <1>11, <2>3, <2>4 DEF Send, TypeOK
<1>12. CASE Note(i)
  <2>1. outbox' \in [Chan \X Day -> Row]
    BY <1>0, <1>12, ConcludeType DEF Note, TypeOK, Execution
  <2>2. AfterNote(run[i]) \in Execution
    BY <1>0 DEF AfterNote, Execution, Point
  <2>3. run' \in [Inst -> Execution]
    BY <1>12, <2>2, MoveType DEF Note
  <2>4. QED
    BY <1>12, <2>1, <2>3 DEF Note, TypeOK
<1>13. CASE NoteFails(i)
  <2>1. AfterNote(run[i]) \in Execution
    BY <1>0 DEF AfterNote, Execution, Point
  <2>2. QED
    BY <1>13, <2>1, MoveType DEF NoteFails, TypeOK
<1>14. CASE ClaimRetries(i)
  <2> DEFINE taken == {k \in DOMAIN outbox : Claimable(outbox[k])}
             claims == {[chan |-> k[1], id |-> outbox[k].id,
                         attempts |-> ClaimedRow(outbox[k]).attempts,
                         batch |-> outbox[k].batch] : k \in taken}
  <2>1. \A k \in Chan \X Day : ClaimedRow(outbox[k]) \in Row
    BY ClaimedRowType DEF TypeOK
  <2>2. outbox' \in [Chan \X Day -> Row]
    BY <1>14, <2>1 DEF ClaimRetries, TypeOK
  <2>3. claims \in SUBSET Claim
    BY <2>1 DEF TypeOK, Claim, Row
  <2> HIDE DEF claims
  <2>4. [Idle EXCEPT !.pc = "retry", !.claimed = claims] \in Execution
    BY <2>3, IdleType DEF Execution, Point
  <2>5. run' = [run EXCEPT ![i] = [Idle EXCEPT !.pc = "retry", !.claimed = claims]]
    BY <1>14 DEF ClaimRetries, claims
  <2>6. run' \in [Inst -> Execution]
    BY <2>4, <2>5, MoveType
  <2>7. QED
    BY <1>14, <2>2, <2>6 DEF ClaimRetries, TypeOK
<1>15. CASE ClaimFails(i)
  <2>1. [Idle EXCEPT !.pc = "retry"] \in Execution
    BY IdleType DEF Execution, Point
  <2>2. QED
    BY <1>15, <2>1, MoveType DEF ClaimFails, TypeOK
<1>16. ASSUME NEW d \in run[i].claimed, Resend(i, d)
       PROVE  TypeOK'
  <2>1. PICK got \in BOOLEAN, ok \in BOOLEAN :
          /\ run' = [run EXCEPT ![i] = [run[i] EXCEPT !.pc = "renote", !.id = d.id, !.ok = ok]]
          /\ IF got THEN Receive(d.batch, d.chan) ELSE UNCHANGED history
    BY <1>16 DEF Resend
  <2>2. d.id \in Nat
    BY <1>0 DEF Execution, Claim
  <2>3. [run[i] EXCEPT !.pc = "renote", !.id = d.id, !.ok = ok] \in Execution
    BY <1>0, <2>2 DEF Execution, Point
  <2>4. owed' \subseteq Occ \X Chan /\ skipped' = skipped /\ received' \in [Occ \X Chan -> 0..2]
    BY <2>1, ReceiveType DEF TypeOK
  <2>5. run' \in [Inst -> Execution]
    BY <2>1, <2>3, MoveType
  <2>6. QED
    BY <1>16, <2>4, <2>5 DEF Resend, TypeOK
<1>17. ASSUME NEW d \in run[i].claimed
       PROVE  AfterRetry(run[i], d) \in Execution
  BY <1>0 DEF AfterRetry, Execution, Point
<1>18. ASSUME NEW d \in run[i].claimed, NoteRetry(i, d)
       PROVE  TypeOK'
  <2>1. outbox' \in [Chan \X Day -> Row]
    BY <1>0, <1>18, ConcludeType DEF NoteRetry, TypeOK, Execution, Claim
  <2>2. run' \in [Inst -> Execution]
    BY <1>17, <1>18, MoveType DEF NoteRetry
  <2>3. QED
    BY <1>18, <2>1, <2>2 DEF NoteRetry, TypeOK
<1>19. ASSUME NEW d \in run[i].claimed, NoteRetryFails(i, d)
       PROVE  TypeOK'
  BY <1>17, <1>19, MoveType DEF NoteRetryFails, TypeOK
<1>20. ASSUME NEW d \in run[i].claimed, DropUnreadable(i, d)
       PROVE  TypeOK'
  <2>1. Abandon(d.id) \in [Chan \X Day -> Row]
    BY <1>0, ConcludeType DEF TypeOK, Execution, Claim
  <2>2. run' \in [Inst -> Execution]
    BY <1>17, <1>20, MoveType DEF DropUnreadable
  <2>3. QED
    BY <1>20, <2>1, <2>2 DEF DropUnreadable, TypeOK
<1>21. CASE Purge(i)
  <2>1. outbox' \in [Chan \X Day -> Row]
    BY <1>21, NoRowType DEF Purge, TypeOK
  <2>2. QED
    BY <1>21, <2>1, IdleType, MoveType DEF Purge, TypeOK
<1>22. CASE Crash(i) \/ LoadFails(i)
  BY <1>22, IdleType, MoveType DEF Crash, LoadFails, TypeOK
<1>23. QED
  BY <1>1, <1>2, <1>3, <1>4, <1>5, <1>6, <1>7, <1>8, <1>9, <1>10, <1>11, <1>12, <1>13,
     <1>14, <1>15, <1>16, <1>18, <1>19, <1>20, <1>21, <1>22 DEF Step

\* Every step keeps the types.
LEMMA TypeStep == TypeOK /\ [Next]_vars => TypeOK'
<1> SUFFICES ASSUME TypeOK, [Next]_vars PROVE TypeOK'
  OBVIOUS
<1>1. CASE Environment
  BY <1>1, EnvironmentType
<1>2. ASSUME NEW i \in Inst, Start(i) \/ Step(i) \/ Crash(i)
      PROVE  TypeOK'
  BY <1>2, StepType
<1>3. CASE UNCHANGED vars
  BY <1>3 DEF vars, TypeOK
<1>4. QED
  BY <1>1, <1>2, <1>3 DEF Next

\* Every variable keeps its type; in particular the outbox holds at most one
\* row per channel and reference date.
THEOREM TypeCorrect == Spec => []TypeOK
  BY InitType, TypeStep, PTL DEF Spec

-----------------------------------------------------------------------------
(* What the steps do to rows and executions, as far as the invariant goes. *)

\* The row s that follows r is gone, or still the same delivery: its number of
\* attempts is unchanged and an abandonment stays one.
Kept(r, s) ==
  \/ s = NoRow
  \/ /\ s.id = r.id /\ s.attempts = r.attempts /\ s.batch = r.batch
     /\ s.status = "none" <=> r.status = "none"
     /\ r.status = "abandoned" => s.status = "abandoned"

OutboxKept == \A k \in Chan \X Day : Kept(outbox[k], outbox'[k])

\* An outbox that does not change is kept.
LEMMA KeptRefl == ASSUME UNCHANGED outbox PROVE OutboxKept
  BY DEF OutboxKept, Kept

\* A concluded or abandoned row keeps its identifier and its attempts.
LEMMA ConcludedKept ==
  ASSUME NEW r \in Row, r.status # "none", NEW ok \in BOOLEAN, NEW n \in Nat
  PROVE  Kept(r, ConcludedRow(r, ok, n)) /\ Kept(r, AbandonedRow(r))
<1>1. Kept(r, AbandonedRow(r))
  BY DEF Kept, AbandonedRow, Row
<1>2. ~Abandons(n) => Kept(r, FailedRow(r, n))
  BY DEF Kept, FailedRow, Row
<1>3. Kept(r, FailedRow(r, n))
  BY <1>1, <1>2 DEF FailedRow
<1>4. QED
  BY <1>1, <1>3 DEF ConcludedRow, Kept

\* The conclusion of an attempt touches no other row.
LEMMA ConcludeKept ==
  ASSUME TypeOK, RowsIdentified, NEW id \in Nat, NEW ok \in BOOLEAN, NEW n \in Nat,
         outbox' = Conclude(id, ok, n) \/ outbox' = Abandon(id)
  PROVE  OutboxKept
<1> SUFFICES ASSUME NEW k \in Chan \X Day PROVE Kept(outbox[k], outbox'[k])
  BY DEF OutboxKept
<1>1. outbox[k] \in Row /\ DOMAIN outbox = Chan \X Day
  BY DEF TypeOK
<1>2. CASE k \in RowsOf(id)
  <2>1. outbox[k].status # "none"
    BY <1>2 DEF RowsOf, RowsIdentified
  <2>2. outbox'[k] = ConcludedRow(outbox[k], ok, n) \/ outbox'[k] = AbandonedRow(outbox[k])
    BY <1>1, <1>2 DEF Conclude, Abandon
  <2>3. QED
    BY <1>1, <2>1, <2>2, ConcludedKept
<1>3. CASE k \notin RowsOf(id)
  <2>1. outbox'[k] = outbox[k]
    BY <1>1, <1>3 DEF Conclude, Abandon
  <2>2. QED
    BY <2>1 DEF Kept
<1>4. QED
  BY <1>2, <1>3

\* The environment keeps the rows, gives out no identifier and moves no run.
LEMMA EnvironmentEffects ==
  ASSUME TypeOK, Environment
  PROVE  OutboxKept /\ UNCHANGED <<nextId, run>>
<1>1. CASE Tick
  <2>1. \A r \in Row : Kept(r, TickedRow(r))
    BY DEF Kept, TickedRow, Row
  <2>2. OutboxKept
    BY <1>1, <2>1 DEF Tick, TypeOK, OutboxKept
  <2>3. QED
    BY <1>1, <2>2 DEF Tick
<1>2. CASE NextDay
  BY <1>2, KeptRefl DEF NextDay
<1>3. ASSUME NEW s \in Sub, CreateSub(s) \/ UpdateSub(s) \/ DeleteSub(s)
      PROVE  UNCHANGED <<outbox, nextId, run>>
  BY <1>3 DEF CreateSub, UpdateSub, DeleteSub
<1>4. ASSUME NEW h \in Household, SetLeadDays(h)
      PROVE  UNCHANGED <<outbox, nextId, run>>
  BY <1>4 DEF SetLeadDays
<1>5. ASSUME NEW c \in Chan, CreateChannel(c) \/ ChangeKey(c)
      PROVE  UNCHANGED <<outbox, nextId, run>>
  BY <1>5 DEF CreateChannel, ChangeKey
<1>6. ASSUME NEW c \in Chan, DeleteChannel(c)
      PROVE  OutboxKept /\ UNCHANGED <<nextId, run>>
  BY <1>6 DEF DeleteChannel, TypeOK, OutboxKept, Kept
<1>7. QED
  BY <1>1, <1>2, <1>3, <1>4, <1>5, <1>6, KeptRefl DEF Environment

\* A step of run i that moves no other run, adds to no batch and no claims, and
\* keeps the rows.
Quiet(i) ==
  /\ \A j \in Inst \ {i} : run'[j] = run[j]
  /\ run'[i].fresh \subseteq run[i].fresh
  /\ run'[i].claimed \subseteq run[i].claimed
  /\ OutboxKept /\ UNCHANGED nextId

\* A run that takes nothing more is quiet for everyone else.
LEMMA QuietMove ==
  ASSUME TypeOK, NEW i \in Inst, NEW r, run' = [run EXCEPT ![i] = r],
         r.fresh \subseteq run[i].fresh, r.claimed \subseteq run[i].claimed,
         OutboxKept, UNCHANGED nextId
  PROVE  Quiet(i)
  BY DEF TypeOK, Quiet

\* The steps that open no row, claim nothing and journal nothing.
LEMMA QuietSteps ==
  ASSUME TypeOK, RowsIdentified, NEW i \in Inst, Start(i) \/ Step(i) \/ Crash(i),
         \A o \in Occ : ~Record(i, o), \A c \in Chan : ~Open(i, c), ~ClaimRetries(i)
  PROVE  Quiet(i)
<1>0. run[i] \in Execution
  BY DEF TypeOK
<1>1. ASSUME NEW r, run' = [run EXCEPT ![i] = r],
             r.fresh \subseteq run[i].fresh, r.claimed \subseteq run[i].claimed,
             UNCHANGED <<outbox, nextId>>
      PROVE  Quiet(i)
  BY <1>1, QuietMove, KeptRefl
<1>2. /\ Idle.fresh = {} /\ Idle.claimed = {}
      /\ [Idle EXCEPT !.pc = "retry"].fresh = {} /\ [Idle EXCEPT !.pc = "retry"].claimed = {}
  BY DEF Idle
<1>3. CASE Start(i)
  <2>1. PICK d \in {today} \cup AsOf :
          run' = [run EXCEPT ![i] = [Idle EXCEPT !.pc = "chans", !.day = d, !.due = Due(d)]]
    BY <1>3 DEF Start
  <2> DEFINE r == [Idle EXCEPT !.pc = "chans", !.day = d, !.due = Due(d)]
  <2>2. r.fresh = {} /\ r.claimed = {}
    BY DEF Idle
  <2> HIDE DEF r
  <2>3. run' = [run EXCEPT ![i] = r] /\ UNCHANGED <<outbox, nextId>>
    BY <1>3, <2>1 DEF Start, r
  <2>4. QED
    BY <1>1, <2>2, <2>3
<1>4. CASE LoadChannels(i)
  BY <1>0, <1>1, <1>4 DEF LoadChannels, Execution
<1>5. CASE NextHousehold(i)
  <2>1. PICK o \in run[i].due :
          run' = [run EXCEPT ![i] =
                    [run[i] EXCEPT !.pc = "log", !.home = {SubHome[o.sub]}, !.fresh = {}]]
    BY <1>5 DEF NextHousehold
  <2> DEFINE r == [run[i] EXCEPT !.pc = "log", !.home = {SubHome[o.sub]}, !.fresh = {}]
  <2>2. r.fresh = {} /\ r.claimed = run[i].claimed
    BY <1>0 DEF Execution
  <2> HIDE DEF r
  <2>3. run' = [run EXCEPT ![i] = r] /\ UNCHANGED <<outbox, nextId>>
    BY <1>5, <2>1 DEF NextHousehold, r
  <2>4. QED
    BY <1>1, <2>2, <2>3
<1>6. ASSUME NEW o \in Occ, RecordFails(i, o)
      PROVE  Quiet(i)
  BY <1>1, <1>2, <1>6 DEF RecordFails
<1>7. CASE CloseBatch(i)
  BY <1>0, <1>1, <1>7 DEF CloseBatch, Execution
<1>8. CASE NextBatch(i)
  BY <1>0, <1>1, <1>8 DEF NextBatch, Execution
<1>9. ASSUME NEW c \in Chan, SkipChannel(i, c)
      PROVE  Quiet(i)
  BY <1>0, <1>1, <1>9 DEF SkipChannel, Execution
<1>10. ASSUME NEW c \in Chan, OpenFails(i, c)
       PROVE  Quiet(i)
  BY <1>0, <1>1, <1>10 DEF OpenFails, Execution
<1>11. CASE Send(i)
  <2>1. PICK ok \in BOOLEAN : run' = [run EXCEPT ![i] = [run[i] EXCEPT !.pc = "note", !.ok = ok]]
    BY <1>11 DEF Send
  <2>2. QED
    BY <1>0, <1>1, <1>11, <2>1 DEF Send, Execution
<1>12. AfterNote(run[i]).fresh = run[i].fresh /\ AfterNote(run[i]).claimed = run[i].claimed
  BY <1>0 DEF AfterNote, Execution
<1>13. CASE Note(i)
  <2>1. OutboxKept
    BY <1>0, <1>13, ConcludeKept DEF Note, Execution
  <2>2. QED
    BY <1>12, <1>13, <2>1, QuietMove DEF Note
<1>14. CASE NoteFails(i)
  BY <1>1, <1>12, <1>14 DEF NoteFails
<1>15. CASE ClaimFails(i)
  BY <1>1, <1>2, <1>15 DEF ClaimFails
<1>16. ASSUME NEW d \in run[i].claimed, Resend(i, d)
       PROVE  Quiet(i)
  <2>1. PICK ok \in BOOLEAN :
          run' = [run EXCEPT ![i] = [run[i] EXCEPT !.pc = "renote", !.id = d.id, !.ok = ok]]
    BY <1>16 DEF Resend
  <2>2. QED
    BY <1>0, <1>1, <1>16, <2>1 DEF Resend, Execution
<1>17. ASSUME NEW d \in run[i].claimed
       PROVE  /\ AfterRetry(run[i], d).fresh = run[i].fresh
              /\ AfterRetry(run[i], d).claimed \subseteq run[i].claimed
  BY <1>0 DEF AfterRetry, Execution
<1>18. ASSUME NEW d \in run[i].claimed, NoteRetryFails(i, d)
       PROVE  Quiet(i)
  BY <1>1, <1>17, <1>18 DEF NoteRetryFails
<1>19. ASSUME NEW d \in run[i].claimed, NoteRetry(i, d) \/ DropUnreadable(i, d)
       PROVE  Quiet(i)
  <2>1. d.id \in Nat /\ d.attempts \in Nat /\ run[i].ok \in BOOLEAN
    BY <1>0 DEF Execution, Claim
  <2>2. OutboxKept
    BY <1>19, <2>1, ConcludeKept, KeptRefl DEF NoteRetry, DropUnreadable
  <2>3. run' = [run EXCEPT ![i] = AfterRetry(run[i], d)] /\ UNCHANGED nextId
    BY <1>19 DEF NoteRetry, DropUnreadable
  <2>4. QED
    BY <1>17, <2>2, <2>3, QuietMove
<1>20. CASE Purge(i)
  <2>1. OutboxKept
    BY <1>20, KeptRefl DEF Purge, TypeOK, OutboxKept, Kept
  <2>2. QED
    BY <1>2, <1>20, <2>1, QuietMove DEF Purge
<1>21. CASE Crash(i) \/ LoadFails(i)
  BY <1>1, <1>2, <1>21 DEF Crash, LoadFails
<1>22. QED
  BY <1>3, <1>4, <1>5, <1>6, <1>7, <1>8, <1>9, <1>10, <1>11, <1>13, <1>14, <1>15, <1>16, <1>18,
     <1>19, <1>20, <1>21 DEF Step

\* The journal insert adds an occurrence to the batch only when it was not
\* journalled.
LEMMA RecordEffects ==
  ASSUME TypeOK, NEW i \in Inst, NEW o \in Occ, Record(i, o)
  PROVE  /\ \A j \in Inst \ {i} : run'[j] = run[j]
         /\ run'[i].claimed = run[i].claimed
         /\ \/ run'[i].fresh = run[i].fresh
            \/ /\ run'[i].fresh = run[i].fresh \cup {o}
               /\ o \notin log /\ o \in log' /\ subState[o.sub] = "live"
         /\ UNCHANGED <<outbox, nextId, received, subState>>
<1>1. run[i] \in Execution /\ i \in DOMAIN run
  BY DEF TypeOK
<1>2. CASE IsFreshOccurrence(o)
  <2>1. run' = [run EXCEPT ![i] = [run[i] EXCEPT !.due = @ \ {o}, !.fresh = @ \cup {o}]]
    BY <1>2 DEF Record
  <2>2. run'[i].fresh = run[i].fresh \cup {o} /\ run'[i].claimed = run[i].claimed
    BY <1>1, <2>1 DEF Execution
  <2>3. \A j \in Inst \ {i} : run'[j] = run[j]
    BY <2>1 DEF TypeOK
  <2>4. QED
    BY <1>2, <2>2, <2>3 DEF Record, IsFreshOccurrence, Journal, data
<1>3. CASE ~IsFreshOccurrence(o)
  <2>1. run' = [run EXCEPT ![i] = [run[i] EXCEPT !.due = @ \ {o}]]
    BY <1>3 DEF Record
  <2>2. run'[i].fresh = run[i].fresh /\ run'[i].claimed = run[i].claimed
    BY <1>1, <2>1 DEF Execution
  <2>3. \A j \in Inst \ {i} : run'[j] = run[j]
    BY <2>1 DEF TypeOK
  <2>4. QED
    BY <1>3, <2>2, <2>3 DEF Record, data
<1>4. QED
  BY <1>2, <1>3

\* The opening of a row writes the row of one channel and day, with the batch of its
\* run.
LEMMA OpenEffects ==
  ASSUME TypeOK, NEW i \in Inst, NEW c \in Chan, Open(i, c)
  PROVE  LET k == <<c, run[i].day>> IN
         /\ k \in Chan \X Day
         /\ \A j \in Inst : run'[j].fresh = run[j].fresh /\ run'[j].claimed = run[j].claimed
         /\ \A l \in (Chan \X Day) \ {k} : outbox'[l] = outbox[l]
         /\ outbox'[k].batch = run[i].fresh
         /\ \/ /\ outbox[k].id = 0 /\ outbox'[k].id = nextId /\ nextId' = nextId + 1
               /\ outbox'[k].status # "none"
            \/ /\ outbox[k].id # 0 /\ outbox'[k].id = outbox[k].id /\ nextId' = nextId
               /\ outbox'[k].attempts = outbox[k].attempts
               /\ outbox'[k].status = outbox[k].status
         /\ UNCHANGED <<subState, log, received>>
<1> DEFINE k == <<c, run[i].day>>
           n == IF outbox[k].id = 0 THEN nextId ELSE outbox[k].id
           r == [run[i] EXCEPT !.pc = "send", !.queue = @ \ {c}, !.cur = {c}, !.id = n]
<1>1. run[i] \in Execution /\ i \in DOMAIN run
  BY DEF TypeOK
<1>2. k \in Chan \X Day /\ outbox[k] \in Row
  BY <1>1 DEF TypeOK, Execution
<1>3. r.fresh = run[i].fresh /\ r.claimed = run[i].claimed
  BY <1>1 DEF Execution
<1>4. run' = [run EXCEPT ![i] = r]
  BY DEF Open
<1> HIDE DEF r
<1>5. \A j \in Inst : run'[j].fresh = run[j].fresh /\ run'[j].claimed = run[j].claimed
  BY <1>1, <1>3, <1>4 DEF TypeOK
<1>6. CASE outbox[k].id = 0
  <2>1. outbox' = [outbox EXCEPT ![k] = NewRow(nextId, run[i].fresh)] /\ nextId' = nextId + 1
    BY <1>6 DEF Open
  <2>2. outbox'[k] = NewRow(nextId, run[i].fresh)
    BY <1>2, <2>1 DEF TypeOK
  <2>3. \A l \in (Chan \X Day) \ {k} : outbox'[l] = outbox[l]
    BY <2>1 DEF TypeOK
  <2>4. QED
    BY <1>2, <1>5, <1>6, <2>1, <2>2, <2>3 DEF Open, NewRow, data, history
<1>7. CASE outbox[k].id # 0
  <2>1. outbox' = [outbox EXCEPT ![k] = RefreshedRow(outbox[k], run[i].fresh)] /\ nextId' = nextId
    BY <1>7 DEF Open
  <2>2. outbox'[k] = RefreshedRow(outbox[k], run[i].fresh)
    BY <1>2, <2>1 DEF TypeOK
  <2>3. \A l \in (Chan \X Day) \ {k} : outbox'[l] = outbox[l]
    BY <2>1 DEF TypeOK
  <2>4. /\ outbox'[k].id = outbox[k].id /\ outbox'[k].attempts = outbox[k].attempts
        /\ outbox'[k].status = outbox[k].status /\ outbox'[k].batch = run[i].fresh
    BY <1>2, <2>2 DEF RefreshedRow, Row
  <2>5. QED
    BY <1>2, <1>5, <1>7, <2>1, <2>3, <2>4 DEF Open, data, history
<1>8. QED
  BY <1>6, <1>7

\* A claim takes every claimable row once, and counts the attempt in it.
LEMMA ClaimEffects ==
  ASSUME TypeOK, NEW i \in Inst, ClaimRetries(i)
  PROVE  /\ \A j \in Inst \ {i} : run'[j] = run[j]
         /\ run'[i].fresh = {}
         /\ \A d \in run'[i].claimed : \E k \in Chan \X Day :
              /\ Claimable(outbox[k]) /\ d.id = outbox[k].id /\ d.batch = outbox[k].batch
              /\ d.attempts = outbox[k].attempts + 1
         /\ \A k \in Chan \X Day :
              \/ ~Claimable(outbox[k]) /\ outbox'[k] = outbox[k]
              \/ /\ Claimable(outbox[k]) /\ outbox'[k].id = outbox[k].id
                 /\ outbox'[k].batch = outbox[k].batch /\ outbox'[k].status = outbox[k].status
                 /\ outbox'[k].attempts = outbox[k].attempts + 1
         /\ UNCHANGED <<subState, log, nextId, received>>
<1> DEFINE taken == {k \in DOMAIN outbox : Claimable(outbox[k])}
           claims == {[chan |-> k[1], id |-> outbox[k].id,
                       attempts |-> ClaimedRow(outbox[k]).attempts,
                       batch |-> outbox[k].batch] : k \in taken}
<1>1. \A r \in Row : /\ ClaimedRow(r).id = r.id /\ ClaimedRow(r).batch = r.batch
                     /\ ClaimedRow(r).status = r.status
                     /\ ClaimedRow(r).attempts = r.attempts + 1
  BY DEF ClaimedRow, Row
<1>2. \A d \in claims : \E k \in Chan \X Day :
         /\ Claimable(outbox[k]) /\ d.id = outbox[k].id /\ d.batch = outbox[k].batch
         /\ d.attempts = outbox[k].attempts + 1
  BY <1>1 DEF TypeOK
<1> HIDE DEF claims
<1>3. run' = [run EXCEPT ![i] = [Idle EXCEPT !.pc = "retry", !.claimed = claims]]
  BY DEF ClaimRetries, claims
<1>4. run'[i].fresh = {} /\ run'[i].claimed = claims /\ \A j \in Inst \ {i} : run'[j] = run[j]
  BY <1>3 DEF Idle, TypeOK
<1>5. \A k \in Chan \X Day :
        outbox'[k] = IF Claimable(outbox[k]) THEN ClaimedRow(outbox[k]) ELSE outbox[k]
  BY DEF ClaimRetries, TypeOK
<1>6. \A k \in Chan \X Day :
        \/ ~Claimable(outbox[k]) /\ outbox'[k] = outbox[k]
        \/ /\ Claimable(outbox[k]) /\ outbox'[k].id = outbox[k].id
           /\ outbox'[k].batch = outbox[k].batch /\ outbox'[k].status = outbox[k].status
           /\ outbox'[k].attempts = outbox[k].attempts + 1
  BY <1>1, <1>5 DEF TypeOK
<1>7. UNCHANGED <<subState, log, nextId, received>>
  BY DEF ClaimRetries, data, history
<1>8. QED
  BY <1>2, <1>4, <1>6, <1>7

-----------------------------------------------------------------------------
(* An accounted-for occurrence stays so, and only those are transmitted. *)

\* What is journalled, or of a deleted subscription, stays so.
LEMMA AccountedStays ==
  ASSUME TypeOK, [Next]_vars, NEW o \in Occ, Accounted(o)
  PROVE  Accounted(o)'
<1>1. CASE UNCHANGED vars
  BY <1>1 DEF vars, Accounted
<1>2. CASE Tick \/ NextDay
  BY <1>2 DEF Tick, NextDay, data, Accounted
<1>3. ASSUME NEW s \in Sub, CreateSub(s) \/ UpdateSub(s)
      PROVE  Accounted(o)'
  <2>1. subState' \in {subState, [subState EXCEPT ![s] = "live"]} /\ log' = log
    BY <1>3 DEF CreateSub, UpdateSub
  <2>2. /\ subState[s] # "gone"
        /\ o.sub \in Sub /\ subState \in [Sub -> {"new", "live", "gone"}]
    BY <1>3, ConstantsAssumption DEF CreateSub, UpdateSub, TypeOK
  <2>3. subState[o.sub] = "gone" => subState'[o.sub] = "gone"
    BY <2>1, <2>2
  <2>4. QED
    BY <2>1, <2>3 DEF Accounted
<1>4. ASSUME NEW s \in Sub, DeleteSub(s)
      PROVE  Accounted(o)'
  <2>1. CASE o.sub = s
    BY <1>4, <2>1 DEF DeleteSub, TypeOK, Accounted
  <2>2. CASE o.sub # s
    BY <1>4, <2>2 DEF DeleteSub, OccsOf, TypeOK, Accounted
  <2>3. QED
    BY <2>1, <2>2
<1>5. ASSUME NEW h \in Household, SetLeadDays(h)
      PROVE  Accounted(o)'
  BY <1>5 DEF SetLeadDays, Accounted
<1>6. ASSUME NEW c \in Chan, CreateChannel(c) \/ DeleteChannel(c) \/ ChangeKey(c)
      PROVE  Accounted(o)'
  BY <1>6 DEF CreateChannel, DeleteChannel, ChangeKey, Accounted
<1>7. ASSUME NEW i \in Inst, Start(i) \/ Step(i) \/ Crash(i)
      PROVE  Accounted(o)'
  <2>1. ASSUME NEW q \in Occ, Record(i, q) \/ RecordFails(i, q)
        PROVE  log \subseteq log' /\ subState' = subState
    BY <2>1 DEF Record, RecordFails, Journal, data
  <2>2. ASSUME NEW c \in Chan, SkipChannel(i, c) \/ Open(i, c) \/ OpenFails(i, c)
        PROVE  log \subseteq log' /\ subState' = subState
    BY <2>2 DEF SkipChannel, Open, OpenFails, data
  <2>3. ASSUME NEW d \in run[i].claimed,
               Resend(i, d) \/ NoteRetry(i, d) \/ NoteRetryFails(i, d) \/ DropUnreadable(i, d)
        PROVE  log \subseteq log' /\ subState' = subState
    BY <2>3 DEF Resend, NoteRetry, NoteRetryFails, DropUnreadable, data
  <2>4. log \subseteq log' /\ subState' = subState
    BY <1>7, <2>1, <2>2, <2>3
       DEF Step, Start, Crash, LoadChannels, LoadFails, NextHousehold, CloseBatch, NextBatch,
           Send, Note, NoteFails, ClaimRetries, ClaimFails, Purge, data
  <2>5. QED
    BY <2>4 DEF Accounted
<1>8. QED
  BY <1>1, <1>2, <1>3, <1>4, <1>5, <1>6, <1>7 DEF Next, Environment

\* What a target receives was journalled before.
LEMMA ReceivedAccounted ==
  ASSUME TypeOK, JournalFirst, [Next]_vars,
         NEW p \in Occ \X Chan, received'[p] > 0
  PROVE  Accounted(p[1])
<1>1. CASE received'[p] = received[p]
  BY <1>1 DEF JournalFirst
<1>2. CASE received'[p] # received[p]
  <2>1. ASSUME NEW b \in SUBSET Occ, NEW c, Receive(b, c), \A o \in b : Accounted(o)
        PROVE  Accounted(p[1])
    BY <1>2, <2>1 DEF Receive, TypeOK
  <2>2. ASSUME NEW i \in Inst, Send(i)
        PROVE  Accounted(p[1])
    <3>1. PICK c \in run[i].cur : Receive(run[i].fresh, c)
      BY <1>2, <2>2 DEF Send, history
    <3>2. run[i].fresh \in SUBSET Occ /\ \A o \in run[i].fresh : Accounted(o)
      BY DEF TypeOK, Execution, JournalFirst
    <3>3. QED
      BY <2>1, <3>1, <3>2
  <2>3. ASSUME NEW i \in Inst, NEW d \in run[i].claimed, Resend(i, d)
        PROVE  Accounted(p[1])
    <3>1. Receive(d.batch, d.chan)
      BY <1>2, <2>3 DEF Resend, history
    <3>2. d.batch \in SUBSET Occ /\ \A o \in d.batch : Accounted(o)
      BY DEF TypeOK, Execution, Claim, JournalFirst
    <3>3. QED
      BY <2>1, <3>1, <3>2
  <2>4. ASSUME NEW i \in Inst, Start(i) \/ Step(i) \/ Crash(i), ~Send(i),
               \A d \in run[i].claimed : ~Resend(i, d)
        PROVE  UNCHANGED received
    <3>1. ASSUME NEW q \in Occ, Record(i, q) \/ RecordFails(i, q)
          PROVE  UNCHANGED received
      BY <3>1 DEF Record, RecordFails, history
    <3>2. ASSUME NEW c \in Chan, SkipChannel(i, c) \/ Open(i, c) \/ OpenFails(i, c)
          PROVE  UNCHANGED received
      BY <3>2 DEF SkipChannel, Open, OpenFails, history
    <3>3. ASSUME NEW d \in run[i].claimed,
                 NoteRetry(i, d) \/ NoteRetryFails(i, d) \/ DropUnreadable(i, d)
          PROVE  UNCHANGED received
      BY <3>3 DEF NoteRetry, NoteRetryFails, DropUnreadable, history
    <3>4. QED
      BY <2>4, <3>1, <3>2, <3>3
         DEF Step, Start, Crash, LoadChannels, LoadFails, NextHousehold, CloseBatch, NextBatch, Note,
             NoteFails, ClaimRetries, ClaimFails, Purge, history
  <2>5. Environment \/ UNCHANGED vars => UNCHANGED received
    BY DEF vars, Environment, Tick, NextDay, CreateSub, UpdateSub, DeleteSub, SetLeadDays,
           CreateChannel, DeleteChannel, ChangeKey, history
  <2>6. QED
    BY <1>2, <2>2, <2>3, <2>4, <2>5 DEF Next
<1>3. QED
  BY <1>1, <1>2

-----------------------------------------------------------------------------
(* The three parts of the invariant, step by step. *)

\* How any step moves the part of the state the invariant reads.
LEMMA NextCases ==
  ASSUME TypeOK, RowsIdentified, [Next]_vars
  PROVE  \/ OutboxKept /\ UNCHANGED <<nextId, run>>
         \/ \E i \in Inst : Quiet(i)
         \/ \E i \in Inst, o \in Occ : Record(i, o)
         \/ \E i \in Inst, c \in Chan : Open(i, c)
         \/ \E i \in Inst : ClaimRetries(i)
<1>1. CASE UNCHANGED vars
  BY <1>1, KeptRefl DEF vars
<1>2. CASE Environment
  BY <1>2, EnvironmentEffects
<1>3. ASSUME NEW i \in Inst, Start(i) \/ Step(i) \/ Crash(i)
      PROVE  \/ Quiet(i)
             \/ \E o \in Occ : Record(i, o)
             \/ \E c \in Chan : Open(i, c)
             \/ ClaimRetries(i)
  BY <1>3, QuietSteps
<1>4. QED
  BY <1>1, <1>2, <1>3 DEF Next

\* A step keeps the journal ahead of the sends.
LEMMA JournalStep ==
  ASSUME TypeOK, RowsIdentified, JournalFirst, [Next]_vars, TypeOK'
  PROVE  JournalFirst'
<1>1. \A p \in Occ \X Chan : received'[p] > 0 => Accounted(p[1])'
  BY ReceivedAccounted, AccountedStays
<1>2. /\ \A j \in Inst : run[j].fresh \subseteq Occ
      /\ \A j \in Inst : \A d \in run[j].claimed : d.batch \subseteq Occ
      /\ \A k \in Chan \X Day : outbox[k].batch \subseteq Occ
  BY DEF TypeOK, Execution, Claim, Row
<1>3. /\ \A j \in Inst : \A o \in run[j].fresh : Accounted(o)'
      /\ \A j \in Inst : \A d \in run[j].claimed : \A o \in d.batch : Accounted(o)'
      /\ \A k \in Chan \X Day : \A o \in outbox[k].batch : Accounted(o)'
  BY <1>2, AccountedStays DEF JournalFirst
<1>4. OutboxKept => \A k \in Chan \X Day : \A o \in outbox'[k].batch : Accounted(o)'
  BY <1>3 DEF OutboxKept, Kept, NoRow
<1>5. CASE OutboxKept /\ UNCHANGED <<nextId, run>>
  BY <1>1, <1>3, <1>4, <1>5 DEF JournalFirst
<1>6. ASSUME NEW i \in Inst, Quiet(i)
      PROVE  JournalFirst'
  BY <1>1, <1>3, <1>4, <1>6 DEF JournalFirst, Quiet
<1>7. ASSUME NEW i \in Inst, NEW o \in Occ, Record(i, o)
      PROVE  JournalFirst'
  <2>1. o \in log' => Accounted(o)'
    BY DEF Accounted
  <2>2. \A j \in Inst : \A q \in run'[j].fresh : Accounted(q)'
    BY <1>3, <1>7, <2>1, RecordEffects
  <2>3. \A j \in Inst : \A d \in run'[j].claimed : \A q \in d.batch : Accounted(q)'
    BY <1>3, <1>7, RecordEffects
  <2>4. \A k \in Chan \X Day : \A q \in outbox'[k].batch : Accounted(q)'
    BY <1>3, <1>7, RecordEffects
  <2>5. QED
    BY <1>1, <2>2, <2>3, <2>4 DEF JournalFirst
<1>8. ASSUME NEW i \in Inst, NEW c \in Chan, Open(i, c)
      PROVE  JournalFirst'
  <2> DEFINE l == <<c, run[i].day>>
  <2>1. \A k \in Chan \X Day : \A q \in outbox'[k].batch : Accounted(q)'
    <3>1. /\ outbox'[l].batch = run[i].fresh
          /\ \A k \in (Chan \X Day) \ {l} : outbox'[k] = outbox[k]
      BY <1>8, OpenEffects
    <3>2. QED
      BY <1>3, <3>1
  <2>2. /\ \A j \in Inst : \A q \in run'[j].fresh : Accounted(q)'
        /\ \A j \in Inst : \A d \in run'[j].claimed : \A q \in d.batch : Accounted(q)'
    BY <1>3, <1>8, OpenEffects
  <2>3. QED
    BY <1>1, <2>1, <2>2 DEF JournalFirst
<1>9. ASSUME NEW i \in Inst, ClaimRetries(i)
      PROVE  JournalFirst'
  <2>1. \A j \in Inst : \A q \in run'[j].fresh : Accounted(q)'
    BY <1>3, <1>9, ClaimEffects
  <2>2. \A j \in Inst : \A d \in run'[j].claimed : \A q \in d.batch : Accounted(q)'
    BY <1>3, <1>9, ClaimEffects
  <2>3. \A k \in Chan \X Day : \A q \in outbox'[k].batch : Accounted(q)'
    BY <1>3, <1>9, ClaimEffects
  <2>4. QED
    BY <1>1, <2>1, <2>2, <2>3 DEF JournalFirst
<1>10. QED
  BY <1>5, <1>6, <1>7, <1>8, <1>9, NextCases

\* A step keeps each occurrence in one batch.
LEMMA OneBatchStep ==
  ASSUME TypeOK, RowsIdentified, JournalFirst, OneBatchPerOccurrence, [Next]_vars
  PROVE  OneBatchPerOccurrence'
<1>1. CASE UNCHANGED run
  BY <1>1 DEF OneBatchPerOccurrence
<1>2. ASSUME NEW i \in Inst, \A j \in Inst \ {i} : run'[j] = run[j],
             run'[i].fresh \subseteq run[i].fresh
      PROVE  OneBatchPerOccurrence'
  BY <1>2 DEF OneBatchPerOccurrence
<1>3. ASSUME NEW i \in Inst, NEW o \in Occ, Record(i, o)
      PROVE  OneBatchPerOccurrence'
  <2>1. CASE run'[i].fresh = run[i].fresh
    BY <1>2, <1>3, <2>1, RecordEffects
  <2>2. CASE run'[i].fresh = run[i].fresh \cup {o} /\ o \notin log /\ subState[o.sub] = "live"
    <3>1. \A j \in Inst : o \notin run[j].fresh
      BY <2>2 DEF JournalFirst, Accounted
    <3>2. \A j \in Inst \ {i} : run'[j] = run[j]
      BY <1>3, RecordEffects
    <3>3. QED
      BY <2>2, <3>1, <3>2 DEF OneBatchPerOccurrence
  <2>3. QED
    BY <1>3, <2>1, <2>2, RecordEffects
<1>4. ASSUME NEW i \in Inst, NEW c \in Chan, Open(i, c)
      PROVE  OneBatchPerOccurrence'
  BY <1>4, OpenEffects DEF OneBatchPerOccurrence
<1>5. QED
  BY <1>1, <1>2, <1>3, <1>4, NextCases, ClaimEffects DEF Quiet

\* A step keeps the identifiers of rows apart.
LEMMA RowsStep ==
  ASSUME TypeOK, RowsIdentified, [Next]_vars, TypeOK'
  PROVE  RowsIdentified'
<1>0. /\ nextId \in Nat \ {0} /\ nextId' \in Nat
      /\ \A k \in Chan \X Day : outbox[k].id \in Nat /\ outbox'[k].id \in Nat
      /\ \A i \in Inst : \A d \in run[i].claimed : d.id \in Nat
  BY DEF TypeOK, Row, Execution, Claim
<1>1. OutboxKept /\ UNCHANGED nextId =>
        /\ \A k \in Chan \X Day : outbox'[k].status = "none" <=> outbox'[k].id = 0
        /\ \A k \in Chan \X Day : outbox'[k].id < nextId'
        /\ \A k, l \in Chan \X Day :
             outbox'[k].id = outbox'[l].id /\ outbox'[k].id # 0 => k = l
  <2> SUFFICES ASSUME OutboxKept, UNCHANGED nextId
      PROVE  /\ \A k \in Chan \X Day : outbox'[k].status = "none" <=> outbox'[k].id = 0
             /\ \A k \in Chan \X Day : outbox'[k].id < nextId'
             /\ \A k, l \in Chan \X Day :
                  outbox'[k].id = outbox'[l].id /\ outbox'[k].id # 0 => k = l
    OBVIOUS
  <2>1. \A k \in Chan \X Day :
          \/ outbox'[k].id = 0 /\ outbox'[k].status = "none"
          \/ /\ outbox'[k].id = outbox[k].id
             /\ outbox'[k].status = "none" <=> outbox[k].status = "none"
    BY DEF OutboxKept, Kept, NoRow
  <2>2. QED
    BY <1>0, <2>1 DEF RowsIdentified
<1>2. CASE OutboxKept /\ UNCHANGED <<nextId, run>>
  BY <1>1, <1>2 DEF RowsIdentified
<1>3. ASSUME NEW i \in Inst, Quiet(i)
      PROVE  RowsIdentified'
  <2>1. \A j \in Inst : run'[j].claimed \subseteq run[j].claimed
    BY <1>3 DEF Quiet
  <2>2. QED
    BY <1>1, <1>3, <2>1 DEF Quiet, RowsIdentified
<1>4. ASSUME NEW i \in Inst, NEW o \in Occ, Record(i, o)
      PROVE  RowsIdentified'
  <2>1. UNCHANGED <<outbox, nextId>> /\ \A j \in Inst : run'[j].claimed = run[j].claimed
    BY <1>4, RecordEffects
  <2>2. QED
    BY <2>1 DEF RowsIdentified
<1>5. ASSUME NEW i \in Inst, NEW c \in Chan, Open(i, c)
      PROVE  RowsIdentified'
  <2> DEFINE k == <<c, run[i].day>>
  <2>1. /\ \A j \in Inst : run'[j].claimed = run[j].claimed
        /\ k \in Chan \X Day
        /\ \A l \in (Chan \X Day) \ {k} : outbox'[l] = outbox[l]
        /\ \/ /\ outbox[k].id = 0 /\ outbox'[k].id = nextId /\ nextId' = nextId + 1
              /\ outbox'[k].status # "none"
           \/ /\ outbox[k].id # 0 /\ outbox'[k].id = outbox[k].id /\ nextId' = nextId
              /\ outbox'[k].status = outbox[k].status
    BY <1>5, OpenEffects
  <2>2. QED
    BY <1>0, <2>1 DEF RowsIdentified
<1>6. ASSUME NEW i \in Inst, ClaimRetries(i)
      PROVE  RowsIdentified'
  <2>1. \A l \in Chan \X Day : outbox'[l].id = outbox[l].id /\ outbox'[l].status = outbox[l].status
    BY <1>6, ClaimEffects
  <2>2. nextId' = nextId
    BY <1>6, ClaimEffects
  <2>3. \A l \in Chan \X Day : Claimable(outbox[l]) => outbox[l].id # 0 /\ outbox[l].id < nextId
    BY DEF Claimable, RowsIdentified
  <2>4. \A j \in Inst : \A d \in run'[j].claimed : d.id # 0 /\ d.id < nextId
    BY <1>6, <2>3, ClaimEffects DEF RowsIdentified
  <2>5. QED
    BY <2>1, <2>2, <2>4 DEF RowsIdentified
<1>7. QED
  BY <1>2, <1>3, <1>4, <1>5, <1>6, NextCases

\* A step keeps the attempts of a delivery with one owner.
LEMMA AttemptStep ==
  ASSUME TypeOK, RowsIdentified, AttemptOwned, [Next]_vars, TypeOK'
  PROVE  AttemptOwned'
<1>0. /\ nextId \in Nat
      /\ \A k \in Chan \X Day : outbox[k].attempts \in Nat
      /\ \A j \in Inst : \A d \in run[j].claimed : d.attempts \in Nat /\ d.id \in Nat
      /\ DOMAIN outbox = Chan \X Day /\ DOMAIN outbox' = Chan \X Day
  BY DEF TypeOK, Row, Execution, Claim
<1>1. ASSUME \A j \in Inst : run'[j].claimed \subseteq run[j].claimed,
             \A k \in Chan \X Day : \A j \in Inst : \A d \in run[j].claimed :
               outbox'[k].id = d.id =>
                 outbox[k].id = d.id /\ outbox'[k].attempts = outbox[k].attempts
      PROVE  AttemptOwned'
  BY <1>0, <1>1 DEF AttemptOwned, RowsOf
<1>2. ASSUME OutboxKept
      PROVE  \A k \in Chan \X Day : \A j \in Inst : \A d \in run[j].claimed :
               outbox'[k].id = d.id =>
                 outbox[k].id = d.id /\ outbox'[k].attempts = outbox[k].attempts
  BY <1>2 DEF OutboxKept, Kept, NoRow, RowsIdentified
<1>3. CASE OutboxKept /\ UNCHANGED run
  BY <1>1, <1>2, <1>3
<1>4. ASSUME NEW i \in Inst, Quiet(i)
      PROVE  AttemptOwned'
  BY <1>1, <1>2, <1>4 DEF Quiet
<1>5. ASSUME NEW i \in Inst, NEW o \in Occ, Record(i, o)
      PROVE  AttemptOwned'
  <2>1. UNCHANGED outbox /\ \A j \in Inst : run'[j].claimed = run[j].claimed
    BY <1>5, RecordEffects
  <2>2. QED
    BY <1>1, <2>1
<1>6. ASSUME NEW i \in Inst, NEW c \in Chan, Open(i, c)
      PROVE  AttemptOwned'
  <2> DEFINE k == <<c, run[i].day>>
  <2>1. /\ \A j \in Inst : run'[j].claimed = run[j].claimed
        /\ k \in Chan \X Day
        /\ \A l \in (Chan \X Day) \ {k} : outbox'[l] = outbox[l]
        /\ \/ outbox'[k].id = nextId
           \/ outbox'[k].id = outbox[k].id /\ outbox'[k].attempts = outbox[k].attempts
    BY <1>6, OpenEffects
  <2>2. \A j \in Inst : \A d \in run[j].claimed : d.id # nextId
    BY <1>0 DEF RowsIdentified
  <2>3. QED
    BY <1>1, <2>1, <2>2
<1>7. ASSUME NEW i \in Inst, ClaimRetries(i)
      PROVE  AttemptOwned'
  <2>1. \A d \in run'[i].claimed : \E k \in Chan \X Day :
          /\ Claimable(outbox[k]) /\ d.id = outbox[k].id
          /\ d.attempts = outbox[k].attempts + 1 /\ d.attempts = outbox'[k].attempts
    BY <1>7, ClaimEffects
  <2>2. \A k \in Chan \X Day : /\ outbox'[k].id = outbox[k].id
                               /\ outbox[k].attempts <= outbox'[k].attempts
    BY <1>0, <1>7, ClaimEffects
  <2>3. \A j \in Inst \ {i} : run'[j] = run[j]
    BY <1>7, ClaimEffects
  <2>4. \A k \in Chan \X Day : Claimable(outbox[k]) => outbox[k].id # 0
    BY DEF Claimable, RowsIdentified
  \* A fresh claim counts one attempt more than its row, hence than any other claim.
  <2>5. \A j \in Inst \ {i} : \A d \in run'[i].claimed, e \in run'[j].claimed :
          d.id = e.id => e.attempts < d.attempts
    <3> SUFFICES ASSUME NEW j \in Inst \ {i}, NEW d \in run'[i].claimed, NEW e \in run[j].claimed,
                        d.id = e.id
                 PROVE  e.attempts < d.attempts
      BY <2>3
    <3>1. PICK k \in Chan \X Day : Claimable(outbox[k]) /\ d.id = outbox[k].id
                                   /\ d.attempts = outbox[k].attempts + 1
      BY <2>1
    <3>2. k \in RowsOf(e.id)
      BY <1>0, <2>4, <3>1 DEF RowsOf
    <3>3. e.attempts <= outbox[k].attempts
      BY <3>2 DEF AttemptOwned
    <3>4. QED
      BY <1>0, <3>1, <3>3
  <2>6. \A d \in run'[i].claimed : \A k \in Chan \X Day :
          outbox'[k].id = d.id => d.attempts <= outbox'[k].attempts
    <3> SUFFICES ASSUME NEW d \in run'[i].claimed, NEW k \in Chan \X Day, outbox[k].id = d.id
                 PROVE  d.attempts <= outbox'[k].attempts
      BY <2>2
    <3>1. PICK l \in Chan \X Day : Claimable(outbox[l]) /\ d.id = outbox[l].id
                                   /\ d.attempts = outbox'[l].attempts
      BY <2>1
    <3>2. k = l
      BY <2>4, <3>1 DEF RowsIdentified
    <3>3. outbox'[k].attempts \in Nat
      BY DEF TypeOK, Row
    <3>4. QED
      BY <3>1, <3>2, <3>3
  <2>7. \A j \in Inst \ {i} : \A d \in run'[j].claimed : \A k \in Chan \X Day :
          d.id # 0 /\ outbox'[k].id = d.id => d.attempts <= outbox'[k].attempts
    <3> SUFFICES ASSUME NEW j \in Inst \ {i}, NEW d \in run[j].claimed, NEW k \in Chan \X Day,
                        d.id # 0, outbox[k].id = d.id
                 PROVE  d.attempts <= outbox'[k].attempts
      BY <2>2, <2>3
    <3>1. d.attempts <= outbox[k].attempts
      BY <1>0 DEF AttemptOwned, RowsOf
    <3>2. d.attempts \in Nat /\ outbox[k].attempts \in Nat /\ outbox'[k].attempts \in Nat
      BY <1>0 DEF TypeOK, Row
    <3>3. QED
      BY <2>2, <3>1, <3>2
  <2>8. \A j \in Inst : \A d \in run'[j].claimed : d.attempts \in Nat
    BY DEF TypeOK, Execution, Claim
  <2>9. \A j, l \in Inst : j # l => \A d \in run'[j].claimed, e \in run'[l].claimed :
          d.id = e.id => d.attempts # e.attempts
    <3> SUFFICES ASSUME NEW j \in Inst, NEW l \in Inst, j # l,
                        NEW d \in run'[j].claimed, NEW e \in run'[l].claimed, d.id = e.id
                 PROVE  d.attempts # e.attempts
      OBVIOUS
    <3>1. CASE j = i
      BY <2>5, <2>8, <3>1
    <3>2. CASE l = i
      BY <2>5, <2>8, <3>2
    <3>3. CASE j # i /\ l # i
      BY <2>3, <3>3 DEF AttemptOwned
    <3>4. QED
      BY <3>1, <3>2, <3>3
  <2>10. \A j \in Inst : \A d \in run'[j].claimed : \A k \in RowsOf(d.id)' :
           d.attempts <= outbox'[k].attempts
    BY <1>0, <2>6, <2>7 DEF RowsOf
  <2>11. QED
    BY <2>9, <2>10 DEF AttemptOwned
<1>8. QED
  BY <1>3, <1>4, <1>5, <1>6, <1>7, NextCases

-----------------------------------------------------------------------------
(* The theorems. *)

\* The invariant holds at first.
LEMMA InitInvariant == Init => DeliveryInvariant
<1> SUFFICES ASSUME Init PROVE DeliveryInvariant
  OBVIOUS
<1>1. TypeOK
  BY InitType
<1>2. \A i \in Inst : run[i].fresh = {} /\ run[i].claimed = {}
  BY DEF Init, Idle
<1>3. \A k \in Chan \X Day : outbox[k] = NoRow
  BY DEF Init
<1>4. JournalFirst
  BY <1>2, <1>3 DEF JournalFirst, Init, NoRow
<1>5. OneBatchPerOccurrence /\ AttemptOwned
  BY <1>2 DEF OneBatchPerOccurrence, AttemptOwned
<1>6. RowsIdentified
  BY <1>2, <1>3 DEF RowsIdentified, Init, NoRow
<1>7. QED
  BY <1>1, <1>4, <1>5, <1>6 DEF DeliveryInvariant

\* Every step keeps the invariant.
LEMMA NextInvariant == DeliveryInvariant /\ [Next]_vars => DeliveryInvariant'
<1> SUFFICES ASSUME DeliveryInvariant, [Next]_vars PROVE DeliveryInvariant'
  OBVIOUS
<1>1. TypeOK'
  BY TypeStep DEF DeliveryInvariant
<1>2. QED
  BY <1>1, JournalStep, OneBatchStep, RowsStep, AttemptStep DEF DeliveryInvariant

\* The invariant is inductive: it holds of every reachable state, for every set
\* of instances, with every fault and every edit of the users allowed.
THEOREM DeliveryInvariantHolds == Spec => []DeliveryInvariant
  BY InitInvariant, NextInvariant, PTL DEF Spec

\* The insert into reminder_log alone keeps any number of instances from putting
\* an occurrence in two batches.
THEOREM OneBatch == Spec => []OneBatchPerOccurrence
<1>1. DeliveryInvariant => OneBatchPerOccurrence
  BY DEF DeliveryInvariant
<1>2. QED
  BY <1>1, DeliveryInvariantHolds, PTL

\* No two runs make the same attempt of a delivery, whatever dies and whenever.
THEOREM AttemptsOwned == Spec => []AttemptOwned
<1>1. DeliveryInvariant => AttemptOwned
  BY DEF DeliveryInvariant
<1>2. QED
  BY <1>1, DeliveryInvariantHolds, PTL

\* No step attempts an abandoned delivery again or makes it pending.
THEOREM AbandonmentIsFinal == Spec => AbandonmentFinal
<1>1. DeliveryInvariant /\ [Next]_vars =>
        [\A k \in Chan \X Day :
           outbox[k].status = "abandoned" /\ outbox'[k].id = outbox[k].id =>
             /\ outbox'[k].status = "abandoned"
             /\ outbox'[k].attempts = outbox[k].attempts]_vars
  <2> SUFFICES ASSUME DeliveryInvariant, [Next]_vars, NEW k \in Chan \X Day,
                      outbox[k].status = "abandoned", outbox'[k].id = outbox[k].id
               PROVE  /\ outbox'[k].status = "abandoned"
                      /\ outbox'[k].attempts = outbox[k].attempts
    OBVIOUS
  <2>1. TypeOK /\ RowsIdentified /\ outbox[k].id # 0 /\ ~Claimable(outbox[k])
    BY DEF DeliveryInvariant, RowsIdentified, Claimable
  <2>2. CASE OutboxKept
    BY <2>1, <2>2 DEF OutboxKept, Kept, NoRow
  <2>3. ASSUME NEW i \in Inst, NEW o \in Occ, Record(i, o)
        PROVE  outbox' = outbox
    BY <2>1, <2>3, RecordEffects
  <2>4. ASSUME NEW i \in Inst, NEW c \in Chan, Open(i, c)
        PROVE  /\ outbox'[k].status = "abandoned"
               /\ outbox'[k].attempts = outbox[k].attempts
    <3> DEFINE l == <<c, run[i].day>>
    <3>1. CASE k # l
      BY <2>1, <2>4, <3>1, OpenEffects
    <3>2. CASE k = l
      BY <2>1, <2>4, <3>2, OpenEffects
    <3>3. QED
      BY <3>1, <3>2
  <2>5. ASSUME NEW i \in Inst, ClaimRetries(i)
        PROVE  outbox'[k] = outbox[k]
    BY <2>1, <2>5, ClaimEffects
  <2>6. QED
    BY <2>1, <2>2, <2>3, <2>4, <2>5, NextCases DEF Quiet
<1>2. QED
  BY <1>1, DeliveryInvariantHolds, PTL DEF Spec, AbandonmentFinal

-----------------------------------------------------------------------------
(* What runs and rows hold between two statements. *)

\* What a run holds at each point of the handler.
Placed(r) ==
  /\ r.pc \in {"idle", "retry", "renote"} => r.due = {}
  /\ r.pc \in {"idle", "chans", "next", "retry", "renote"} => r.fresh = {}
  /\ r.pc \notin {"open", "send", "note"} => r.queue = {}
  /\ r.pc \notin {"send", "note"} => r.cur = {}
  /\ r.pc \notin {"retry", "renote"} => r.claimed = {}
  /\ r.pc \notin {"send", "note", "renote"} => r.id = 0
  /\ r.pc \notin {"note", "renote"} => ~r.ok
  /\ r.pc = "renote" => \E d \in r.claimed : d.id = r.id
  /\ r.queue \cap r.cur = {} /\ \A c, e \in r.cur : c = e
  /\ r.queue \cup r.cur # {} => r.fresh # {}
  /\ r.fresh \cap r.due = {}
  /\ \A d, e \in r.claimed : d.id = e.id => d = e
  /\ r.queue \subseteq r.chans

RunsPlaced == \A i \in Inst : Placed(run[i])

\* A run works for one household at a time, and keeps to it.
AtHome(r) ==
  /\ \A g, h \in r.home : g = h
  /\ \A o \in r.fresh : SubHome[o.sub] \in r.home
  /\ \A c \in r.queue \cup r.cur : ChanHome[c] \in r.home
  /\ \A d \in r.claimed : \A o \in d.batch : SubHome[o.sub] = ChanHome[d.chan]

RowsAtHome ==
  \A k \in Chan \X Day : \A o \in outbox[k].batch : SubHome[o.sub] = ChanHome[k[1]]

HomesApart ==
  /\ \A i \in Inst : AtHome(run[i])
  /\ RowsAtHome
  /\ \A p \in Occ \X Chan : received[p] > 0 => SubHome[p[1].sub] = ChanHome[p[2]]

RowsFilled ==
  \A k \in Chan \X Day :
    outbox[k].id # 0 => outbox[k].batch # {} /\ outbox[k].attempts > 0

-----------------------------------------------------------------------------
(* What each action does, field by field. *)

Fields(r, pc, day, due, chans, home, fresh, queue, cur, id, ok, claimed) ==
  /\ r.pc = pc /\ r.day = day /\ r.due = due /\ r.chans = chans /\ r.home = home
  /\ r.fresh = fresh /\ r.queue = queue /\ r.cur = cur /\ r.id = id /\ r.ok = ok
  /\ r.claimed = claimed

\* The runs other than i stand still.
Others(i) == \A j \in Inst \ {i} : run'[j] = run[j]

\* Only runs move.
RunsOnly == UNCHANGED <<data, log, outbox, nextId, history>>

\* A run that is assigned is the one that moved.
LEMMA Turned ==
  ASSUME TypeOK, NEW i \in Inst, NEW r, run' = [run EXCEPT ![i] = r]
  PROVE  run'[i] = r /\ Others(i)
  BY DEF TypeOK, Others

\* The scan takes what is due on a day.
LEMMA StartEffects ==
  ASSUME TypeOK, NEW i \in Inst, Start(i)
  PROVE  /\ run[i].pc = "idle" /\ RunsOnly /\ Others(i)
         /\ \E d \in Day :
              Fields(run'[i], "chans", d, Due(d), {}, {}, {}, {}, {}, 0, FALSE, {})
<1>1. PICK d \in {today} \cup AsOf :
        run' = [run EXCEPT ![i] = [Idle EXCEPT !.pc = "chans", !.day = d, !.due = Due(d)]]
  BY DEF Start
<1>2. d \in Day
  BY ConstantsAssumption DEF TypeOK
<1> DEFINE r == [Idle EXCEPT !.pc = "chans", !.day = d, !.due = Due(d)]
<1>3. Fields(r, "chans", d, Due(d), {}, {}, {}, {}, {}, 0, FALSE, {})
  BY DEF Idle, Fields
<1> HIDE DEF r
<1>4. run'[i] = r /\ Others(i)
  BY <1>1, Turned DEF r
<1>5. QED
  BY <1>2, <1>3, <1>4 DEF Start, RunsOnly

\* The channels are those that are live when they are read.
LEMMA LoadChannelsEffects ==
  ASSUME TypeOK, NEW i \in Inst, LoadChannels(i)
  PROVE  /\ run[i].pc = "chans" /\ RunsOnly /\ Others(i)
         /\ Fields(run'[i], "next", run[i].day, run[i].due, {c \in Chan : chanState[c] = "live"},
                   run[i].home, run[i].fresh, run[i].queue, run[i].cur, run[i].id, run[i].ok,
                   run[i].claimed)
<1> DEFINE live == {c \in Chan : chanState[c] = "live"}
           r == [run[i] EXCEPT !.pc = "next", !.chans = live]
<1>1. run[i] \in Execution
  BY DEF TypeOK
<1> HIDE DEF live
<1>2. Fields(r, "next", run[i].day, run[i].due, live,
             run[i].home, run[i].fresh, run[i].queue, run[i].cur, run[i].id, run[i].ok,
             run[i].claimed)
  BY <1>1 DEF Execution, Fields
<1> HIDE DEF r
<1>3. run'[i] = r /\ Others(i)
  BY Turned DEF LoadChannels, r, live
<1>4. QED
  BY <1>2, <1>3 DEF LoadChannels, RunsOnly, live

\* A household with something due is next.
LEMMA NextHouseholdEffects ==
  ASSUME TypeOK, NEW i \in Inst, NextHousehold(i)
  PROVE  /\ run[i].pc = "next" /\ RunsOnly /\ Others(i)
         /\ \E o \in run[i].due :
              Fields(run'[i], "log", run[i].day, run[i].due, run[i].chans, {SubHome[o.sub]}, {},
                     run[i].queue, run[i].cur, run[i].id, run[i].ok, run[i].claimed)
<1>1. PICK o \in run[i].due :
        run' = [run EXCEPT ![i] = [run[i] EXCEPT !.pc = "log", !.home = {SubHome[o.sub]}, !.fresh = {}]]
  BY DEF NextHousehold
<1> DEFINE h == {SubHome[o.sub]}
           r == [run[i] EXCEPT !.pc = "log", !.home = h, !.fresh = {}]
<1>2. run[i] \in Execution
  BY DEF TypeOK
<1> HIDE DEF h
<1>3. Fields(r, "log", run[i].day, run[i].due, run[i].chans, h, {},
             run[i].queue, run[i].cur, run[i].id, run[i].ok, run[i].claimed)
  BY <1>2 DEF Execution, Fields
<1> HIDE DEF r
<1>4. run'[i] = r /\ Others(i)
  BY <1>1, Turned DEF r, h
<1>5. QED
  BY <1>3, <1>4 DEF NextHousehold, RunsOnly, h

\* An insert owes the occurrence to the channels of its household, or skips it.
LEMMA JournalEffects ==
  ASSUME TypeOK, NEW i \in Inst, NEW o \in Occ, Record(i, o)
  PROVE  /\ run[i].pc = "log" /\ o \in HomeDue(i) /\ subState[o.sub] = "live" /\ Others(i)
         /\ \/ /\ o \notin log /\ log' = log \cup {o} /\ owed' = owed \cup ({o} \X HomeChans(i))
               /\ Fields(run'[i], "log", run[i].day, run[i].due \ {o}, run[i].chans, run[i].home,
                         run[i].fresh \cup {o}, run[i].queue, run[i].cur, run[i].id, run[i].ok,
                         run[i].claimed)
            \/ /\ o \in log /\ log' = log /\ owed' = owed
               /\ Fields(run'[i], "log", run[i].day, run[i].due \ {o}, run[i].chans, run[i].home,
                         run[i].fresh, run[i].queue, run[i].cur, run[i].id, run[i].ok,
                         run[i].claimed)
         /\ UNCHANGED <<data, outbox, nextId, received>>
<1>1. run[i] \in Execution /\ run[i].pc = "log"
  BY DEF TypeOK, Record
<1>2. CASE o \notin log
  <2> DEFINE r == [run[i] EXCEPT !.due = @ \ {o}, !.fresh = @ \cup {o}]
  <2>1. Fields(r, "log", run[i].day, run[i].due \ {o}, run[i].chans, run[i].home,
               run[i].fresh \cup {o}, run[i].queue, run[i].cur, run[i].id, run[i].ok,
               run[i].claimed)
    BY <1>1 DEF Execution, Fields
  <2> HIDE DEF r
  <2>2. run' = [run EXCEPT ![i] = r]
    BY <1>2 DEF Record, IsFreshOccurrence, r
  <2>3. run'[i] = r /\ Others(i)
    BY <2>2, Turned
  <2>4. QED
    BY <1>1, <1>2, <2>1, <2>3 DEF Record, IsFreshOccurrence, Journal
<1>3. CASE o \in log
  <2> DEFINE r == [run[i] EXCEPT !.due = @ \ {o}]
  <2>1. Fields(r, "log", run[i].day, run[i].due \ {o}, run[i].chans, run[i].home,
               run[i].fresh, run[i].queue, run[i].cur, run[i].id, run[i].ok,
               run[i].claimed)
    BY <1>1 DEF Execution, Fields
  <2> HIDE DEF r
  <2>2. run' = [run EXCEPT ![i] = r]
    BY <1>3 DEF Record, IsFreshOccurrence, r
  <2>3. run'[i] = r /\ Others(i)
    BY <2>2, Turned
  <2>4. QED
    BY <1>1, <1>3, <2>1, <2>3 DEF Record, IsFreshOccurrence
<1>4. QED
  BY <1>2, <1>3

\* A batch is closed when nothing of the household is left to journal.
LEMMA CloseBatchEffects ==
  ASSUME TypeOK, NEW i \in Inst, CloseBatch(i)
  PROVE  /\ run[i].pc = "log" /\ HomeDue(i) = {} /\ RunsOnly /\ Others(i)
         /\ Fields(run'[i], "open", run[i].day, run[i].due, run[i].chans, run[i].home,
                   run[i].fresh, IF run[i].fresh = {} THEN {} ELSE HomeChans(i), run[i].cur,
                   run[i].id, run[i].ok, run[i].claimed)
<1> DEFINE q == IF run[i].fresh = {} THEN {} ELSE HomeChans(i)
           r == [run[i] EXCEPT !.pc = "open", !.queue = q]
<1>1. run[i] \in Execution
  BY DEF TypeOK
<1> HIDE DEF q
<1>2. Fields(r, "open", run[i].day, run[i].due, run[i].chans, run[i].home,
             run[i].fresh, q, run[i].cur, run[i].id, run[i].ok, run[i].claimed)
  BY <1>1 DEF Execution, Fields
<1> HIDE DEF r
<1>3. run'[i] = r /\ Others(i)
  BY Turned DEF CloseBatch, r, q
<1>4. QED
  BY <1>2, <1>3 DEF CloseBatch, RunsOnly, q

\* A household is done when its channels are.
LEMMA NextBatchEffects ==
  ASSUME TypeOK, NEW i \in Inst, NextBatch(i)
  PROVE  /\ run[i].pc = "open" /\ run[i].queue = {} /\ RunsOnly /\ Others(i)
         /\ Fields(run'[i], "next", run[i].day, run[i].due, run[i].chans, {}, {}, run[i].queue,
                   run[i].cur, run[i].id, run[i].ok, run[i].claimed)
<1> DEFINE r == [run[i] EXCEPT !.pc = "next", !.home = {}, !.fresh = {}]
<1>1. run[i] \in Execution
  BY DEF TypeOK
<1>2. Fields(r, "next", run[i].day, run[i].due, run[i].chans, {}, {}, run[i].queue,
             run[i].cur, run[i].id, run[i].ok, run[i].claimed)
  BY <1>1 DEF Execution, Fields
<1> HIDE DEF r
<1>3. run'[i] = r /\ Others(i)
  BY Turned DEF NextBatch, r
<1>4. QED
  BY <1>2, <1>3 DEF NextBatch, RunsOnly

\* A channel that cannot be read is passed over, and is still owed the batch.
LEMMA SkipChannelEffects ==
  ASSUME TypeOK, NEW i \in Inst, NEW c \in Chan, SkipChannel(i, c)
  PROVE  /\ run[i].pc = "open" /\ c \in run[i].queue /\ Others(i)
         /\ owed' = owed /\ skipped' = skipped \cup (run[i].fresh \X {c})
         /\ Fields(run'[i], "open", run[i].day, run[i].due, run[i].chans, run[i].home,
                   run[i].fresh, run[i].queue \ {c}, run[i].cur, run[i].id, run[i].ok,
                   run[i].claimed)
         /\ UNCHANGED <<data, log, outbox, nextId, received>>
<1> DEFINE r == [run[i] EXCEPT !.queue = @ \ {c}]
<1>1. run[i] \in Execution /\ run[i].pc = "open"
  BY DEF TypeOK, SkipChannel
<1>2. Fields(r, "open", run[i].day, run[i].due, run[i].chans, run[i].home,
             run[i].fresh, run[i].queue \ {c}, run[i].cur, run[i].id, run[i].ok, run[i].claimed)
  BY <1>1 DEF Execution, Fields
<1> HIDE DEF r
<1>3. run'[i] = r /\ Others(i)
  BY Turned DEF SkipChannel, r
<1>4. QED
  BY <1>1, <1>2, <1>3 DEF SkipChannel

\* The row a first send of run i to channel c goes with, and its identifier.
KeyFor(i, c) == <<c, run[i].day>>
IdFor(i, c) == IF outbox[KeyFor(i, c)].id = 0 THEN nextId ELSE outbox[KeyFor(i, c)].id

\* The opening of a row is followed by the send to its channel.
LEMMA OpenedEffects ==
  ASSUME TypeOK, NEW i \in Inst, NEW c \in Chan, Open(i, c)
  PROVE  /\ run[i].pc = "open" /\ c \in run[i].queue /\ chanState[c] = "live" /\ Others(i)
         /\ Fields(run'[i], "send", run[i].day, run[i].due, run[i].chans, run[i].home,
                   run[i].fresh, run[i].queue \ {c}, {c}, IdFor(i, c), run[i].ok,
                   run[i].claimed)
         /\ UNCHANGED <<data, log, history>>
<1> DEFINE id == IdFor(i, c)
           r == [run[i] EXCEPT !.pc = "send", !.queue = @ \ {c}, !.cur = {c}, !.id = id]
<1>1. run[i] \in Execution
  BY DEF TypeOK
<1>2. run' = [run EXCEPT ![i] = r]
  BY DEF Open, IdFor, KeyFor
<1> HIDE DEF id
<1>3. Fields(r, "send", run[i].day, run[i].due, run[i].chans, run[i].home,
             run[i].fresh, run[i].queue \ {c}, {c}, id, run[i].ok, run[i].claimed)
  BY <1>1 DEF Execution, Fields
<1> HIDE DEF r
<1>4. run'[i] = r /\ Others(i)
  BY <1>2, Turned
<1>5. QED
  BY <1>3, <1>4 DEF Open, id

\* A row is new, or is that of the same channel and day with its delays as they were.
LEMMA OpenedRow ==
  ASSUME TypeOK, NEW i \in Inst, NEW c \in Chan, Open(i, c)
  PROVE  LET k == KeyFor(i, c) IN
         /\ k \in Chan \X Day /\ outbox[k] \in Row
         /\ \A l \in (Chan \X Day) \ {k} : outbox'[l] = outbox[l]
         /\ \/ /\ outbox[k].id = 0 /\ IdFor(i, c) = nextId /\ nextId' = nextId + 1
               /\ outbox'[k].id = nextId /\ outbox'[k].attempts = 1
               /\ outbox'[k].wait = RetryDelay(1) /\ outbox'[k].quiet = RetryDelay(1)
               /\ outbox'[k].status = "pending" /\ outbox'[k].batch = run[i].fresh
            \/ /\ outbox[k].id # 0 /\ IdFor(i, c) = outbox[k].id /\ nextId' = nextId
               /\ outbox'[k].id = outbox[k].id /\ outbox'[k].attempts = outbox[k].attempts
               /\ outbox'[k].wait = outbox[k].wait /\ outbox'[k].quiet = outbox[k].quiet
               /\ outbox'[k].status = outbox[k].status /\ outbox'[k].batch = run[i].fresh
<1> DEFINE k == KeyFor(i, c)
<1>1. k \in Chan \X Day
  BY DEF TypeOK, Execution, KeyFor
<1>2. outbox[k] \in Row /\ \A l \in (Chan \X Day) \ {k} : outbox'[l] = outbox[l]
  BY <1>1 DEF Open, TypeOK, KeyFor
<1>3. CASE outbox[k].id = 0
  <2>1. outbox'[k] = NewRow(nextId, run[i].fresh) /\ nextId' = nextId + 1
    BY <1>1, <1>3 DEF Open, TypeOK, KeyFor
  <2>2. QED
    BY <1>1, <1>2, <1>3, <2>1 DEF NewRow, IdFor
<1>4. CASE outbox[k].id # 0
  <2>1. outbox'[k] = RefreshedRow(outbox[k], run[i].fresh) /\ nextId' = nextId
    BY <1>1, <1>4 DEF Open, TypeOK, KeyFor
  <2>2. QED
    BY <1>1, <1>2, <1>4, <2>1 DEF RefreshedRow, Row, IdFor
<1>5. QED
  BY <1>3, <1>4

\* A row that cannot be opened does not keep the batch from being sent.
LEMMA OpenFailsEffects ==
  ASSUME TypeOK, NEW i \in Inst, NEW c \in Chan, OpenFails(i, c)
  PROVE  /\ run[i].pc = "open" /\ c \in run[i].queue /\ RunsOnly /\ Others(i)
         /\ chanState[c] # "live" \/ DbFails
         /\ Fields(run'[i], "send", run[i].day, run[i].due, run[i].chans, run[i].home,
                   run[i].fresh, run[i].queue \ {c}, {c}, 0, run[i].ok, run[i].claimed)
<1> DEFINE r == [run[i] EXCEPT !.pc = "send", !.queue = @ \ {c}, !.cur = {c}, !.id = 0]
<1>1. run[i] \in Execution
  BY DEF TypeOK
<1>2. Fields(r, "send", run[i].day, run[i].due, run[i].chans, run[i].home,
             run[i].fresh, run[i].queue \ {c}, {c}, 0, run[i].ok, run[i].claimed)
  BY <1>1 DEF Execution, Fields
<1> HIDE DEF r
<1>3. run'[i] = r /\ Others(i)
  BY Turned DEF OpenFails, r
<1>4. QED
  BY <1>2, <1>3 DEF OpenFails, RunsOnly

\* A send may arrive without being acknowledged, but is not acknowledged without
\* arriving.
LEMMA SendEffects ==
  ASSUME TypeOK, NEW i \in Inst, Send(i)
  PROVE  /\ run[i].pc = "send" /\ Others(i) /\ UNCHANGED <<data, log, outbox, nextId>>
         /\ \E c \in run[i].cur, got \in BOOLEAN, ok \in BOOLEAN :
              /\ ok => got
              /\ got /\ ~ok => AckLost
              /\ IF got THEN Receive(run[i].fresh, c) ELSE UNCHANGED history
              /\ Fields(run'[i], "note", run[i].day, run[i].due, run[i].chans, run[i].home,
                        run[i].fresh, run[i].queue, run[i].cur, run[i].id, ok, run[i].claimed)
<1>1. PICK c \in run[i].cur, got \in BOOLEAN, ok \in BOOLEAN :
        /\ ok => got
        /\ got /\ ~ok => AckLost
        /\ run' = [run EXCEPT ![i] = [run[i] EXCEPT !.pc = "note", !.ok = ok]]
        /\ IF got THEN Receive(run[i].fresh, c) ELSE UNCHANGED history
  BY DEF Send
<1> DEFINE r == [run[i] EXCEPT !.pc = "note", !.ok = ok]
<1>2. run[i] \in Execution
  BY DEF TypeOK
<1>3. Fields(r, "note", run[i].day, run[i].due, run[i].chans, run[i].home,
             run[i].fresh, run[i].queue, run[i].cur, run[i].id, ok, run[i].claimed)
  BY <1>2 DEF Execution, Fields
<1> HIDE DEF r
<1>4. run'[i] = r /\ Others(i)
  BY <1>1, Turned DEF r
<1>5. QED
  BY <1>1, <1>3, <1>4 DEF Send

\* The end of a first send is recorded, or the statement fails.
LEMMA NotedEffects ==
  ASSUME TypeOK, NEW i \in Inst, Note(i) \/ NoteFails(i)
  PROVE  /\ run[i].pc = "note" /\ Others(i) /\ UNCHANGED <<data, log, nextId, received>>
         /\ Fields(run'[i], "open", run[i].day, run[i].due, run[i].chans, run[i].home,
                   run[i].fresh, run[i].queue, {}, 0, FALSE, run[i].claimed)
         /\ \/ /\ outbox' = Conclude(run[i].id, run[i].ok, 1)
               /\ owed' = owed \ GivenUp(outbox', run[i].id)
            \/ DbFails /\ UNCHANGED <<outbox, owed>>
<1> DEFINE r == AfterNote(run[i])
<1>1. run[i] \in Execution
  BY DEF TypeOK
<1>2. Fields(r, "open", run[i].day, run[i].due, run[i].chans, run[i].home,
             run[i].fresh, run[i].queue, {}, 0, FALSE, run[i].claimed)
  BY <1>1 DEF Execution, Fields, AfterNote
<1> HIDE DEF r
<1>3. run'[i] = r /\ Others(i)
  BY Turned DEF Note, NoteFails, r
<1>4. QED
  BY <1>2, <1>3 DEF Note, NoteFails, history

ClaimOf(k) == [chan |-> k[1], id |-> outbox[k].id, attempts |-> outbox[k].attempts + 1,
               batch |-> outbox[k].batch]

\* A run that claims goes on with the retries, each for a row as it was.
LEMMA ClaimedEffects ==
  ASSUME TypeOK, NEW i \in Inst, ClaimRetries(i)
  PROVE  LET taken == {k \in Chan \X Day : Claimable(outbox[k])} IN
         /\ run[i].pc = "next" /\ run[i].due = {} /\ Others(i)
         /\ \A k \in taken : outbox'[k] = ClaimedRow(outbox[k])
         /\ \A k \in (Chan \X Day) \ taken : outbox'[k] = outbox[k]
         /\ Fields(run'[i], "retry", 0, {}, {}, {}, {}, {}, {}, 0, FALSE,
                   {ClaimOf(k) : k \in taken})
         /\ UNCHANGED <<data, log, nextId, history>>
<1> DEFINE taken == {k \in Chan \X Day : Claimable(outbox[k])}
           claims == {[chan |-> k[1], id |-> outbox[k].id,
                       attempts |-> ClaimedRow(outbox[k]).attempts,
                       batch |-> outbox[k].batch] : k \in taken}
           r == [Idle EXCEPT !.pc = "retry", !.claimed = claims]
<1>1. DOMAIN outbox = Chan \X Day
  BY DEF TypeOK
<1>2. \A k \in taken : ClaimedRow(outbox[k]).attempts = outbox[k].attempts + 1
  BY DEF ClaimedRow, TypeOK, Row
<1>3. claims = {ClaimOf(k) : k \in taken}
  BY <1>2 DEF ClaimOf
<1> HIDE DEF claims
<1>4. Fields(r, "retry", 0, {}, {}, {}, {}, {}, {}, 0, FALSE, claims)
  BY DEF Idle, Fields
<1> HIDE DEF r
<1>5. run'[i] = r /\ Others(i)
  BY <1>1, Turned DEF ClaimRetries, r, claims
<1>6. /\ \A k \in taken : outbox'[k] = ClaimedRow(outbox[k])
      /\ \A k \in (Chan \X Day) \ taken : outbox'[k] = outbox[k]
  BY <1>1 DEF ClaimRetries
<1>7. QED
  BY <1>3, <1>4, <1>5, <1>6 DEF ClaimRetries

\* A claim that fails leaves nothing to retry.
LEMMA ClaimFailsEffects ==
  ASSUME TypeOK, NEW i \in Inst, ClaimFails(i)
  PROVE  /\ run[i].pc = "next" /\ run[i].due = {} /\ RunsOnly /\ Others(i)
         /\ Fields(run'[i], "retry", 0, {}, {}, {}, {}, {}, {}, 0, FALSE, {})
<1> DEFINE r == [Idle EXCEPT !.pc = "retry"]
<1>1. Fields(r, "retry", 0, {}, {}, {}, {}, {}, {}, 0, FALSE, {})
  BY DEF Idle, Fields
<1> HIDE DEF r
<1>2. run'[i] = r /\ Others(i)
  BY Turned DEF ClaimFails, r
<1>3. QED
  BY <1>1, <1>2 DEF ClaimFails, RunsOnly

\* A retry sends the batch that was claimed.
LEMMA ResendEffects ==
  ASSUME TypeOK, NEW i \in Inst, NEW d \in run[i].claimed, Resend(i, d)
  PROVE  /\ run[i].pc = "retry" /\ Others(i) /\ UNCHANGED <<data, log, outbox, nextId>>
         /\ \E got \in BOOLEAN, ok \in BOOLEAN :
              /\ ok => got
              /\ got /\ ~ok => AckLost
              /\ IF got THEN Receive(d.batch, d.chan) ELSE UNCHANGED history
              /\ Fields(run'[i], "renote", run[i].day, run[i].due, run[i].chans, run[i].home,
                        run[i].fresh, run[i].queue, run[i].cur, d.id, ok, run[i].claimed)
<1>1. PICK got \in BOOLEAN, ok \in BOOLEAN :
        /\ ok => got
        /\ got /\ ~ok => AckLost
        /\ run' = [run EXCEPT ![i] = [run[i] EXCEPT !.pc = "renote", !.id = d.id, !.ok = ok]]
        /\ IF got THEN Receive(d.batch, d.chan) ELSE UNCHANGED history
  BY DEF Resend
<1> DEFINE r == [run[i] EXCEPT !.pc = "renote", !.id = d.id, !.ok = ok]
<1>2. run[i] \in Execution
  BY DEF TypeOK
<1>3. Fields(r, "renote", run[i].day, run[i].due, run[i].chans, run[i].home,
             run[i].fresh, run[i].queue, run[i].cur, d.id, ok, run[i].claimed)
  BY <1>2 DEF Execution, Fields
<1> HIDE DEF r
<1>4. run'[i] = r /\ Others(i)
  BY <1>1, Turned DEF r
<1>5. QED
  BY <1>1, <1>3, <1>4 DEF Resend

\* A claim ends with its conclusion, with its abandonment, or with a statement that
\* fails.
LEMMA RetriedEffects ==
  ASSUME TypeOK, NEW i \in Inst, NEW d \in run[i].claimed,
         NoteRetry(i, d) \/ NoteRetryFails(i, d) \/ DropUnreadable(i, d)
  PROVE  /\ run[i].pc \in {"retry", "renote"} /\ Others(i)
         /\ run[i].pc = "renote" => d.id = run[i].id
         /\ UNCHANGED <<data, log, nextId, received>>
         /\ Fields(run'[i], "retry", run[i].day, run[i].due, run[i].chans, run[i].home,
                   run[i].fresh, run[i].queue, run[i].cur, 0, FALSE, run[i].claimed \ {d})
         /\ \/ /\ run[i].pc = "renote" /\ outbox' = Conclude(d.id, run[i].ok, d.attempts)
               /\ owed' = owed \ GivenUp(outbox', d.id)
            \/ /\ run[i].pc = "retry" /\ outbox' = Abandon(d.id)
               /\ owed' = owed \ GivenUp(outbox', d.id)
            \/ DbFails /\ UNCHANGED <<outbox, owed>>
<1> DEFINE r == AfterRetry(run[i], d)
<1>1. run[i] \in Execution
  BY DEF TypeOK
<1>2. Fields(r, "retry", run[i].day, run[i].due, run[i].chans, run[i].home,
             run[i].fresh, run[i].queue, run[i].cur, 0, FALSE, run[i].claimed \ {d})
  BY <1>1 DEF Execution, Fields, AfterRetry
<1> HIDE DEF r
<1>3. run'[i] = r /\ Others(i)
  BY Turned DEF NoteRetry, NoteRetryFails, DropUnreadable, r
<1>4. QED
  BY <1>2, <1>3 DEF NoteRetry, NoteRetryFails, DropUnreadable, history

\* The purge takes expired rows only, and ends the run.
LEMMA PurgeEffects ==
  ASSUME TypeOK, NEW i \in Inst, Purge(i)
  PROVE  /\ run[i].pc = "retry" /\ run[i].claimed = {} /\ run'[i] = Idle /\ Others(i)
         /\ \A k \in Chan \X Day :
              outbox'[k] = outbox[k] \/ (Expired(outbox[k]) /\ outbox'[k] = NoRow)
         /\ UNCHANGED <<data, log, nextId, history>>
<1>1. run'[i] = Idle /\ Others(i)
  BY Turned DEF Purge
<1>2. \A k \in Chan \X Day :
         outbox'[k] = outbox[k] \/ (Expired(outbox[k]) /\ outbox'[k] = NoRow)
  BY DEF Purge, TypeOK
<1>3. QED
  BY <1>1, <1>2 DEF Purge

\* A failed read, a failed insert or a crash: the run is over.
LEMMA CutEffects ==
  ASSUME TypeOK, NEW i \in Inst,
         LoadFails(i) \/ Crash(i) \/ \E o \in Occ : RecordFails(i, o)
  PROVE  /\ run'[i] = Idle /\ Others(i) /\ RunsOnly
         /\ \/ run[i].pc = "chans" /\ DbFails
            \/ run[i].pc \in CrashAt
            \/ run[i].pc = "log" /\ \E o \in HomeDue(i) : subState[o.sub] # "live" \/ DbFails
<1>1. run'[i] = Idle /\ Others(i)
  BY Turned DEF LoadFails, Crash, RecordFails
<1>2. QED
  BY <1>1 DEF LoadFails, Crash, RecordFails, RunsOnly

-----------------------------------------------------------------------------
(* How any step moves a run, a row and what was received. *)

\* The statements of a run, in groups of the same effect.
LEMMA FewSteps ==
  ASSUME NEW i \in Inst, Start(i) \/ Step(i) \/ Crash(i)
  PROVE  \/ Start(i) \/ LoadChannels(i) \/ NextHousehold(i) \/ \E o \in Occ : Record(i, o)
         \/ CloseBatch(i) \/ NextBatch(i)
         \/ \E c \in Chan : SkipChannel(i, c) \/ Open(i, c) \/ OpenFails(i, c)
         \/ Send(i) \/ (Note(i) \/ NoteFails(i))
         \/ ClaimRetries(i) \/ ClaimFails(i)
         \/ \E d \in run[i].claimed :
              Resend(i, d) \/ (NoteRetry(i, d) \/ NoteRetryFails(i, d) \/ DropUnreadable(i, d))
         \/ Purge(i)
         \/ (LoadFails(i) \/ Crash(i) \/ \E o \in Occ : RecordFails(i, o))
  BY DEF Step

\* A step of one run leaves the other runs as they are.
LEMMA OthersStand ==
  ASSUME TypeOK, NEW j \in Inst, Start(j) \/ Step(j) \/ Crash(j)
  PROVE  Others(j)
  BY FewSteps, StartEffects, LoadChannelsEffects, NextHouseholdEffects, JournalEffects,
     CloseBatchEffects, NextBatchEffects, SkipChannelEffects, OpenedEffects, OpenFailsEffects,
     SendEffects, NotedEffects, ClaimedEffects, ClaimFailsEffects, ResendEffects,
     RetriedEffects, PurgeEffects, CutEffects

\* How any step moves run i: it stands still, is cut or ends, or takes a step.
LEMMA RunMoves ==
  ASSUME TypeOK, [Next]_vars, NEW i \in Inst
  PROVE  \/ run'[i] = run[i] \/ run'[i] = Idle
         \/ Start(i) \/ LoadChannels(i) \/ NextHousehold(i) \/ \E o \in Occ : Record(i, o)
         \/ CloseBatch(i) \/ NextBatch(i)
         \/ \E c \in Chan : SkipChannel(i, c) \/ Open(i, c) \/ OpenFails(i, c)
         \/ Send(i) \/ (Note(i) \/ NoteFails(i))
         \/ ClaimRetries(i) \/ ClaimFails(i)
         \/ \E d \in run[i].claimed :
              Resend(i, d) \/ (NoteRetry(i, d) \/ NoteRetryFails(i, d) \/ DropUnreadable(i, d))
<1>1. CASE Start(i) \/ Step(i) \/ Crash(i)
  BY <1>1, FewSteps, PurgeEffects, CutEffects
<1>2. ASSUME NEW j \in Inst \ {i}, Start(j) \/ Step(j) \/ Crash(j)
      PROVE  run'[i] = run[i]
  BY <1>2, OthersStand DEF Others
<1>3. Environment \/ UNCHANGED vars => run'[i] = run[i]
  BY EnvironmentEffects DEF vars
<1>4. QED
  BY <1>1, <1>2, <1>3 DEF Next

\* A run at rest is in its place.
LEMMA IdlePlaced == Placed(Idle)
  BY DEF Placed, Idle

\* A step leaves every run in its place.
LEMMA PlacedStep ==
  ASSUME TypeOK, TypeOK', RunsPlaced, RowsIdentified, [Next]_vars
  PROVE  RunsPlaced'
<1>0. \A i \in Inst : /\ run[i] \in Execution /\ Placed(run[i])
                      /\ run'[i] \in Execution
  BY DEF TypeOK, RunsPlaced
<1> SUFFICES ASSUME NEW i \in Inst PROVE Placed(run'[i])
  BY DEF RunsPlaced
<1>1. CASE run'[i] = run[i]
  BY <1>0, <1>1
<1>2. CASE Start(i)
  <2>1. PICK d \in Day :
          Fields(run'[i], "chans", d, Due(d), {}, {}, {}, {}, {}, 0, FALSE, {})
    BY <1>2, StartEffects
  <2>2. QED
    BY <1>0, <2>1 DEF Fields, Placed
<1>3. CASE LoadChannels(i)
  BY <1>0, <1>3, LoadChannelsEffects DEF Fields, Placed
<1>4. CASE NextHousehold(i)
  BY <1>0, <1>4, NextHouseholdEffects DEF Fields, Placed
<1>5. ASSUME NEW o \in Occ, Record(i, o) PROVE Placed(run'[i])
  BY <1>0, <1>5, JournalEffects DEF Fields, Placed
<1>6. CASE CloseBatch(i)
  <2> DEFINE q == IF run[i].fresh = {} THEN {} ELSE HomeChans(i)
  <2>1. q \subseteq run[i].chans /\ (q # {} => run[i].fresh # {})
    BY DEF HomeChans
  <2> HIDE DEF q
  <2>2. /\ run[i].pc = "log"
        /\ Fields(run'[i], "open", run[i].day, run[i].due, run[i].chans, run[i].home,
                  run[i].fresh, q, run[i].cur, run[i].id, run[i].ok, run[i].claimed)
    BY <1>6, CloseBatchEffects DEF q
  <2>3. QED
    BY <1>0, <2>1, <2>2 DEF Fields, Placed
<1>7. CASE NextBatch(i)
  BY <1>0, <1>7, NextBatchEffects DEF Fields, Placed
<1>8. ASSUME NEW c \in Chan, SkipChannel(i, c) PROVE Placed(run'[i])
  BY <1>0, <1>8, SkipChannelEffects DEF Fields, Placed
<1>9. ASSUME NEW c \in Chan, Open(i, c) PROVE Placed(run'[i])
  BY <1>0, <1>9, OpenedEffects DEF Fields, Placed
<1>10. ASSUME NEW c \in Chan, OpenFails(i, c) PROVE Placed(run'[i])
  BY <1>0, <1>10, OpenFailsEffects DEF Fields, Placed
<1>11. CASE Send(i)
  BY <1>0, <1>11, SendEffects DEF Fields, Placed
<1>12. CASE Note(i) \/ NoteFails(i)
  BY <1>0, <1>12, NotedEffects DEF Fields, Placed
<1>13. CASE ClaimRetries(i)
  <2> DEFINE taken == {k \in Chan \X Day : Claimable(outbox[k])}
             claims == {ClaimOf(k) : k \in taken}
  <2>1. \A d, e \in claims : d.id = e.id => d = e
    <3> SUFFICES ASSUME NEW k \in taken, NEW l \in taken, ClaimOf(k).id = ClaimOf(l).id
                 PROVE  ClaimOf(k) = ClaimOf(l)
      OBVIOUS
    <3>1. outbox[k].id = outbox[l].id /\ outbox[k].id # 0
      BY DEF ClaimOf, Claimable, RowsIdentified
    <3>2. k = l
      BY <3>1 DEF RowsIdentified
    <3>3. QED
      BY <3>2
  <2> HIDE DEF claims
  <2>2. Fields(run'[i], "retry", 0, {}, {}, {}, {}, {}, {}, 0, FALSE, claims)
    BY <1>13, ClaimedEffects DEF claims
  <2>3. QED
    BY <1>0, <2>1, <2>2 DEF Fields, Placed
<1>14. CASE ClaimFails(i)
  BY <1>0, <1>14, ClaimFailsEffects DEF Fields, Placed
<1>15. ASSUME NEW d \in run[i].claimed, Resend(i, d) PROVE Placed(run'[i])
  BY <1>0, <1>15, ResendEffects DEF Fields, Placed
<1>16. ASSUME NEW d \in run[i].claimed,
              NoteRetry(i, d) \/ NoteRetryFails(i, d) \/ DropUnreadable(i, d)
       PROVE  Placed(run'[i])
  <2>1. /\ run[i].pc \in {"retry", "renote"}
        /\ Fields(run'[i], "retry", run[i].day, run[i].due, run[i].chans, run[i].home,
                  run[i].fresh, run[i].queue, run[i].cur, 0, FALSE, run[i].claimed \ {d})
    BY <1>16, RetriedEffects
  <2>2. QED
    BY <1>0, <2>1 DEF Fields, Placed
<1>17. CASE run'[i] = Idle
  BY <1>17, IdlePlaced
<1>18. QED
  BY <1>1, <1>2, <1>3, <1>4, <1>5, <1>6, <1>7, <1>8, <1>9, <1>10, <1>11, <1>12, <1>13, <1>14,
     <1>15, <1>16, <1>17, RunMoves

\* A run at rest holds nothing of any household.
LEMMA IdleAtHome == AtHome(Idle)
  BY DEF AtHome, Idle

\* A run holds occurrences and channels of its own household only.
LEMMA AtHomeStep ==
  ASSUME TypeOK, TypeOK', RunsPlaced, HomesApart, [Next]_vars
  PROVE  \A i \in Inst : AtHome(run'[i])
<1> SUFFICES ASSUME NEW i \in Inst PROVE AtHome(run'[i])
  OBVIOUS
<1>0. run[i] \in Execution /\ Placed(run[i]) /\ AtHome(run[i])
  BY DEF TypeOK, RunsPlaced, HomesApart
<1>1. CASE run'[i] = run[i] \/ run'[i] = Idle
  BY <1>0, <1>1, IdleAtHome
<1>2. CASE Start(i)
  <2>1. PICK d \in Day :
          Fields(run'[i], "chans", d, Due(d), {}, {}, {}, {}, {}, 0, FALSE, {})
    BY <1>2, StartEffects
  <2>2. QED
    BY <2>1 DEF Fields, AtHome
<1>3. CASE LoadChannels(i)
  BY <1>0, <1>3, LoadChannelsEffects DEF Fields, AtHome
<1>4. CASE NextHousehold(i)
  BY <1>0, <1>4, NextHouseholdEffects DEF Fields, Placed, AtHome
<1>5. ASSUME NEW o \in Occ, Record(i, o) PROVE AtHome(run'[i])
  BY <1>0, <1>5, JournalEffects DEF Fields, AtHome, HomeDue
<1>6. CASE CloseBatch(i)
  <2> DEFINE q == IF run[i].fresh = {} THEN {} ELSE HomeChans(i)
  <2>1. \A c \in q : ChanHome[c] \in run[i].home
    BY DEF HomeChans
  <2> HIDE DEF q
  <2>2. Fields(run'[i], "open", run[i].day, run[i].due, run[i].chans, run[i].home,
               run[i].fresh, q, run[i].cur, run[i].id, run[i].ok, run[i].claimed)
    BY <1>6, CloseBatchEffects DEF q
  <2>3. QED
    BY <1>0, <2>1, <2>2 DEF Fields, AtHome
<1>7. CASE NextBatch(i)
  BY <1>0, <1>7, NextBatchEffects DEF Fields, Placed, AtHome
<1>8. ASSUME NEW c \in Chan, SkipChannel(i, c) PROVE AtHome(run'[i])
  BY <1>0, <1>8, SkipChannelEffects DEF Fields, AtHome
<1>9. ASSUME NEW c \in Chan, Open(i, c) PROVE AtHome(run'[i])
  BY <1>0, <1>9, OpenedEffects DEF Fields, AtHome
<1>10. ASSUME NEW c \in Chan, OpenFails(i, c) PROVE AtHome(run'[i])
  BY <1>0, <1>10, OpenFailsEffects DEF Fields, AtHome
<1>11. CASE Send(i)
  BY <1>0, <1>11, SendEffects DEF Fields, AtHome
<1>12. CASE Note(i) \/ NoteFails(i)
  BY <1>0, <1>12, NotedEffects, ZenonT(60) DEF Fields, AtHome
<1>13. CASE ClaimRetries(i)
  <2> DEFINE taken == {k \in Chan \X Day : Claimable(outbox[k])}
             claims == {ClaimOf(k) : k \in taken}
  <2>1. \A d \in claims : \A o \in d.batch : SubHome[o.sub] = ChanHome[d.chan]
    BY DEF HomesApart, RowsAtHome, ClaimOf
  <2> HIDE DEF claims
  <2>2. Fields(run'[i], "retry", 0, {}, {}, {}, {}, {}, {}, 0, FALSE, claims)
    BY <1>13, ClaimedEffects DEF claims
  <2>3. QED
    BY <2>1, <2>2 DEF Fields, AtHome
<1>14. CASE ClaimFails(i)
  BY <1>14, ClaimFailsEffects DEF Fields, AtHome
<1>15. ASSUME NEW d \in run[i].claimed, Resend(i, d) PROVE AtHome(run'[i])
  BY <1>0, <1>15, ResendEffects DEF Fields, AtHome
<1>16. ASSUME NEW d \in run[i].claimed,
              NoteRetry(i, d) \/ NoteRetryFails(i, d) \/ DropUnreadable(i, d)
       PROVE  AtHome(run'[i])
  <2>1. Fields(run'[i], "retry", run[i].day, run[i].due, run[i].chans, run[i].home,
               run[i].fresh, run[i].queue, run[i].cur, 0, FALSE, run[i].claimed \ {d})
    BY <1>16, RetriedEffects
  <2>2. QED
    BY <1>0, <2>1 DEF Fields, AtHome
<1>17. QED
  BY <1>1, <1>2, <1>3, <1>4, <1>5, <1>6, <1>7, <1>8, <1>9, <1>10, <1>11, <1>12, <1>13, <1>14,
     <1>15, <1>16, RunMoves

\* The payload of a row changes when a run opens the row for its batch, only.
LEMMA BatchMoves ==
  ASSUME TypeOK, RowsIdentified, [Next]_vars, NEW k \in Chan \X Day
  PROVE  \/ outbox'[k].batch = {} /\ outbox'[k].id = 0
         \/ outbox'[k].batch = outbox[k].batch /\ outbox'[k].id = outbox[k].id
            /\ outbox'[k].attempts \in {outbox[k].attempts, outbox[k].attempts + 1}
         \/ \E i \in Inst : /\ Open(i, k[1]) /\ run[i].day = k[2]
                            /\ outbox'[k].batch = run[i].fresh
                            /\ \/ outbox'[k].attempts = 1
                               \/ outbox[k].id # 0 /\ outbox'[k].attempts = outbox[k].attempts
<1>1. CASE OutboxKept
  BY <1>1 DEF OutboxKept, Kept, NoRow
<1>2. ASSUME NEW i \in Inst, NEW o \in Occ, Record(i, o)
      PROVE  outbox'[k] = outbox[k]
  BY <1>2, RecordEffects
<1>3. ASSUME NEW i \in Inst, NEW c \in Chan, Open(i, c)
      PROVE  \/ outbox'[k] = outbox[k]
             \/ /\ Open(i, k[1]) /\ run[i].day = k[2] /\ outbox'[k].batch = run[i].fresh
                /\ \/ outbox'[k].attempts = 1
                   \/ outbox[k].id # 0 /\ outbox'[k].attempts = outbox[k].attempts
  <2> DEFINE l == KeyFor(i, c)
  <2>1. CASE k # l
    BY <1>3, <2>1, OpenedRow
  <2>2. CASE k = l
    <3>1. /\ outbox'[l].batch = run[i].fresh
          /\ \/ outbox'[l].attempts = 1
             \/ outbox[l].id # 0 /\ outbox'[l].attempts = outbox[l].attempts
      BY <1>3, OpenedRow
    <3>2. QED
      BY <1>3, <2>2, <3>1 DEF KeyFor
  <2>3. QED
    BY <2>1, <2>2
<1>4. ASSUME NEW i \in Inst, ClaimRetries(i)
      PROVE  outbox'[k].batch = outbox[k].batch /\ outbox'[k].id = outbox[k].id
             /\ outbox'[k].attempts \in {outbox[k].attempts, outbox[k].attempts + 1}
  BY <1>4, ClaimEffects
<1>5. QED
  BY <1>1, <1>2, <1>3, <1>4, NextCases DEF Quiet

\* A row holds occurrences of its channel's household only.
LEMMA RowsAtHomeStep ==
  ASSUME TypeOK, RowsIdentified, RunsPlaced, HomesApart, [Next]_vars
  PROVE  RowsAtHome'
<1> SUFFICES ASSUME NEW k \in Chan \X Day, NEW o \in outbox'[k].batch
             PROVE  SubHome[o.sub] = ChanHome[k[1]]
  BY DEF RowsAtHome
<1>1. CASE o \in outbox[k].batch
  BY <1>1 DEF HomesApart, RowsAtHome
<1>2. ASSUME NEW i \in Inst, Open(i, k[1]), outbox'[k].batch = run[i].fresh
      PROVE  SubHome[o.sub] = ChanHome[k[1]]
  <2>1. AtHome(run[i]) /\ k[1] \in run[i].queue /\ o \in run[i].fresh
    BY <1>2, OpenedEffects DEF HomesApart
  <2>2. QED
    BY <2>1 DEF AtHome
<1>3. QED
  BY <1>1, <1>2, BatchMoves

\* What a target gets comes from a first send or from a retry.
LEMMA ReceivedMoves ==
  ASSUME TypeOK, [Next]_vars, received' # received
  PROVE  \E i \in Inst :
           \/ Send(i) /\ \E c \in run[i].cur : Receive(run[i].fresh, c)
           \/ \E d \in run[i].claimed : Resend(i, d) /\ Receive(d.batch, d.chan)
<1>1. ASSUME NEW i \in Inst, Start(i) \/ Step(i) \/ Crash(i)
      PROVE  \/ UNCHANGED received
             \/ Send(i) \/ \E d \in run[i].claimed : Resend(i, d)
  BY <1>1, FewSteps, StartEffects, LoadChannelsEffects, NextHouseholdEffects, JournalEffects,
     CloseBatchEffects, NextBatchEffects, SkipChannelEffects, OpenedEffects, OpenFailsEffects,
     NotedEffects, ClaimedEffects, ClaimFailsEffects,
     RetriedEffects, PurgeEffects, CutEffects DEF RunsOnly, history
<1>2. ASSUME NEW i \in Inst, Send(i)
      PROVE  \E c \in run[i].cur : Receive(run[i].fresh, c)
  BY <1>2, SendEffects DEF history
<1>3. ASSUME NEW i \in Inst, NEW d \in run[i].claimed, Resend(i, d)
      PROVE  Receive(d.batch, d.chan)
  BY <1>3, ResendEffects DEF history
<1>4. Environment \/ UNCHANGED vars => UNCHANGED received
  BY DEF vars, Environment, Tick, NextDay, CreateSub, UpdateSub, DeleteSub, SetLeadDays,
         CreateChannel, DeleteChannel, ChangeKey, history
<1>5. QED
  BY <1>1, <1>2, <1>3, <1>4 DEF Next

\* A target receives occurrences of its own household only.
LEMMA ReceivedAtHomeStep ==
  ASSUME TypeOK, HomesApart, [Next]_vars,
         NEW p \in Occ \X Chan, received'[p] > 0
  PROVE  SubHome[p[1].sub] = ChanHome[p[2]]
<1>1. CASE received'[p] = received[p]
  BY <1>1 DEF HomesApart
<1>2. ASSUME NEW b, NEW c, Receive(b, c), received'[p] # received[p]
      PROVE  p[1] \in b /\ p[2] = c
  BY <1>2 DEF Receive, TypeOK
<1>3. ASSUME NEW i \in Inst, NEW c \in run[i].cur, Receive(run[i].fresh, c),
             received'[p] # received[p]
      PROVE  SubHome[p[1].sub] = ChanHome[p[2]]
  BY <1>2, <1>3 DEF HomesApart, AtHome
<1>4. ASSUME NEW i \in Inst, NEW d \in run[i].claimed, Receive(d.batch, d.chan),
             received'[p] # received[p]
      PROVE  SubHome[p[1].sub] = ChanHome[p[2]]
  BY <1>2, <1>4 DEF HomesApart, AtHome
<1>5. QED
  BY <1>1, <1>3, <1>4, ReceivedMoves

\* A step keeps the households apart.
LEMMA HomesStep ==
  ASSUME TypeOK, TypeOK', RowsIdentified, RunsPlaced, HomesApart, [Next]_vars
  PROVE  HomesApart'
  BY AtHomeStep, RowsAtHomeStep, ReceivedAtHomeStep DEF HomesApart

\* A row that was opened has a batch and an attempt.
LEMMA FilledStep ==
  ASSUME TypeOK, RowsIdentified, RunsPlaced, RowsFilled, [Next]_vars
  PROVE  RowsFilled'
<1> SUFFICES ASSUME NEW k \in Chan \X Day, outbox'[k].id # 0
             PROVE  outbox'[k].batch # {} /\ outbox'[k].attempts > 0
  BY DEF RowsFilled
<1>1. outbox[k].attempts \in Nat
  BY DEF TypeOK, Row
<1>2. ASSUME NEW i \in Inst, Open(i, k[1])
      PROVE  run[i].fresh # {}
  BY <1>2, OpenedEffects DEF RunsPlaced, Placed
<1>3. QED
  BY <1>1, <1>2, BatchMoves DEF RowsFilled

-----------------------------------------------------------------------------
(* What a run has still to send is nowhere else. *)

\* Row identifiers a run holds have been given out.
IdsIssued == \A i \in Inst : run[i].id < nextId

\* A run has still to send its batch to channel c.
NotYet(i, c) == (run[i].pc = "log" /\ c \in HomeChans(i)) \/ c \in run[i].queue
Untouched(o, c) ==
  /\ received[<<o, c>>] = 0
  /\ \A d \in Day : o \notin outbox[<<c, d>>].batch
  /\ \A j \in Inst : \A e \in run[j].claimed : e.chan = c => o \notin e.batch
BatchesUntouched ==
  \A i \in Inst : \A o \in run[i].fresh, c \in Chan : NotYet(i, c) => Untouched(o, c)
\* The row that holds what a run sends is the run's.
OwnRows ==
  \A i \in Inst : run[i].pc \in {"send", "note"} =>
    \A o \in run[i].fresh, c \in run[i].cur : \A d \in Day :
      o \in outbox[<<c, d>>].batch => outbox[<<c, d>>].id = run[i].id

\* What an abandonment changes of a row.
LEMMA AbandonedFields ==
  ASSUME NEW r \in Row
  PROVE  /\ AbandonedRow(r).id = r.id /\ AbandonedRow(r).batch = r.batch
         /\ AbandonedRow(r).attempts = r.attempts /\ AbandonedRow(r).status = "abandoned"
         /\ AbandonedRow(r).wait = 0 /\ AbandonedRow(r).quiet = 0
  BY DEF AbandonedRow, Row

\* What a failed attempt changes of a row.
LEMMA FailedFields ==
  ASSUME NEW r \in Row, NEW n \in Nat, ~Abandons(n)
  PROVE  /\ FailedRow(r, n).id = r.id /\ FailedRow(r, n).batch = r.batch
         /\ FailedRow(r, n).attempts = r.attempts /\ FailedRow(r, n).status = r.status
         /\ FailedRow(r, n).wait = RetryDelay(n) /\ FailedRow(r, n).quiet = r.quiet
  BY DEF FailedRow, Row

\* What a claim changes of a row.
LEMMA ClaimedFields ==
  ASSUME NEW r \in Row
  PROVE  /\ ClaimedRow(r).id = r.id /\ ClaimedRow(r).batch = r.batch
         /\ ClaimedRow(r).attempts = r.attempts + 1 /\ ClaimedRow(r).status = r.status
         /\ ClaimedRow(r).wait = MaxDelay
         /\ Abandons(r.attempts + 1) => ClaimedRow(r).quiet = MaxDelay
         /\ ~Abandons(r.attempts + 1) => ClaimedRow(r).quiet = RetryDelay(r.attempts + 1)
  BY DEF ClaimedRow, Row

\* What time changes of a row.
LEMMA TickedFields ==
  ASSUME NEW r \in Row
  PROVE  /\ TickedRow(r).id = r.id /\ TickedRow(r).batch = r.batch
         /\ TickedRow(r).attempts = r.attempts /\ TickedRow(r).status = r.status
         /\ TickedRow(r).wait = Less(r.wait) /\ TickedRow(r).quiet = Less(r.quiet)
  BY DEF TickedRow, Row

\* Every wait that a statement sets is over zero, and none is over the last one.
LEMMA Delays ==
  /\ MaxDelay > 0
  /\ ~Abandons(1) /\ RetryDelay(1) > 0
  /\ \A n \in Nat : ~Abandons(n) => RetryDelay(n) > 0
  BY PolicyAssumption DEF MaxDelay, RetryDelay, Abandons

\* Whatever a step does to a row, and which step does it.
LEMMA RowMoves ==
  ASSUME TypeOK, [Next]_vars, NEW k \in Chan \X Day
  PROVE  \/ outbox'[k] = outbox[k]
         \/ Tick /\ outbox'[k] = TickedRow(outbox[k])
         \/ DeleteChannel(k[1]) /\ outbox'[k] = NoRow
         \/ \E i \in Inst : Open(i, k[1]) /\ run[i].day = k[2]
         \/ \E i \in Inst : /\ ClaimRetries(i) /\ Claimable(outbox[k])
                            /\ outbox'[k] = ClaimedRow(outbox[k])
         \/ \E i \in Inst : Purge(i) /\ Expired(outbox[k]) /\ outbox'[k] = NoRow
         \/ \E i \in Inst : /\ Note(i) /\ k \in RowsOf(run[i].id)
                            /\ outbox'[k] = ConcludedRow(outbox[k], run[i].ok, 1)
         \/ \E i \in Inst : \E d \in run[i].claimed :
              /\ k \in RowsOf(d.id)
              /\ \/ /\ NoteRetry(i, d)
                    /\ outbox'[k] = ConcludedRow(outbox[k], run[i].ok, d.attempts)
                 \/ DropUnreadable(i, d) /\ outbox'[k] = AbandonedRow(outbox[k])
<1>0. DOMAIN outbox = Chan \X Day
  BY DEF TypeOK
<1>1. CASE UNCHANGED vars
  BY <1>1 DEF vars
<1>2. CASE Tick
  BY <1>0, <1>2 DEF Tick
<1>3. CASE NextDay
  BY <1>3 DEF NextDay
<1>4. ASSUME NEW s \in Sub, CreateSub(s) \/ UpdateSub(s) \/ DeleteSub(s)
      PROVE  outbox' = outbox
  BY <1>4 DEF CreateSub, UpdateSub, DeleteSub
<1>5. ASSUME NEW h \in Household, SetLeadDays(h)
      PROVE  outbox' = outbox
  BY <1>5 DEF SetLeadDays
<1>6. ASSUME NEW c \in Chan, CreateChannel(c) \/ ChangeKey(c)
      PROVE  outbox' = outbox
  BY <1>6 DEF CreateChannel, ChangeKey
<1>7. ASSUME NEW c \in Chan, DeleteChannel(c)
      PROVE  outbox'[k] = outbox[k] \/ (c = k[1] /\ outbox'[k] = NoRow)
  BY <1>0, <1>7 DEF DeleteChannel
<1>8. ASSUME NEW i \in Inst, Start(i) \/ Step(i) \/ Crash(i), outbox'[k] # outbox[k]
      PROVE  \/ Open(i, k[1]) /\ run[i].day = k[2]
             \/ ClaimRetries(i) /\ Claimable(outbox[k]) /\ outbox'[k] = ClaimedRow(outbox[k])
             \/ Purge(i) /\ Expired(outbox[k]) /\ outbox'[k] = NoRow
             \/ Note(i) /\ k \in RowsOf(run[i].id)
                  /\ outbox'[k] = ConcludedRow(outbox[k], run[i].ok, 1)
             \/ \E d \in run[i].claimed :
                  /\ k \in RowsOf(d.id)
                  /\ \/ /\ NoteRetry(i, d)
                        /\ outbox'[k] = ConcludedRow(outbox[k], run[i].ok, d.attempts)
                     \/ DropUnreadable(i, d) /\ outbox'[k] = AbandonedRow(outbox[k])
  <2>1. ASSUME NEW c \in Chan, Open(i, c)
        PROVE  c = k[1] /\ run[i].day = k[2]
    <3>1. k # KeyFor(i, c) => outbox'[k] = outbox[k]
      BY <2>1, OpenedRow
    <3>2. k = KeyFor(i, c)
      BY <1>8, <3>1
    <3>3. QED
      BY <3>2 DEF KeyFor
  <2>2. CASE ClaimRetries(i)
    BY <1>8, <2>2, ClaimedEffects
  <2>3. CASE Purge(i)
    BY <1>8, <2>3, PurgeEffects
  <2>4. CASE Note(i)
    BY <1>0, <1>8, <2>4 DEF Note, Conclude
  <2>5. ASSUME NEW d \in run[i].claimed, NoteRetry(i, d)
        PROVE  /\ k \in RowsOf(d.id)
               /\ outbox'[k] = ConcludedRow(outbox[k], run[i].ok, d.attempts)
    BY <1>0, <1>8, <2>5 DEF NoteRetry, Conclude
  <2>6. ASSUME NEW d \in run[i].claimed, DropUnreadable(i, d)
        PROVE  k \in RowsOf(d.id) /\ outbox'[k] = AbandonedRow(outbox[k])
    BY <1>0, <1>8, <2>6 DEF DropUnreadable, Abandon
  <2>7. ASSUME NEW c \in Chan, SkipChannel(i, c) \/ OpenFails(i, c)
        PROVE  outbox' = outbox
    BY <2>7 DEF SkipChannel, OpenFails
  <2>8. ASSUME NEW o \in Occ, Record(i, o) \/ RecordFails(i, o)
        PROVE  outbox' = outbox
    BY <2>8 DEF Record, RecordFails
  <2>9. ASSUME NEW d \in run[i].claimed, Resend(i, d) \/ NoteRetryFails(i, d)
        PROVE  outbox' = outbox
    BY <2>9 DEF Resend, NoteRetryFails
  <2>10. CASE Start(i) \/ LoadChannels(i) \/ LoadFails(i) \/ NextHousehold(i) \/ CloseBatch(i)
              \/ NextBatch(i) \/ Send(i) \/ NoteFails(i) \/ ClaimFails(i) \/ Crash(i)
    BY <1>8, <2>10 DEF Start, LoadChannels, LoadFails, NextHousehold, CloseBatch, NextBatch, Send,
                NoteFails, ClaimFails, Crash
  <2>11. QED
    BY <1>8, <2>1, <2>2, <2>3, <2>4, <2>5, <2>6, <2>7, <2>8, <2>9, <2>10 DEF Step
<1>9. QED
  BY <1>1, <1>2, <1>3, <1>4, <1>5, <1>6, <1>7, <1>8 DEF Next, Environment

\* A batch grows by what its run journals first.
LEMMA FreshMoves ==
  ASSUME TypeOK, RowsIdentified, [Next]_vars, NEW i \in Inst, NEW o \in run'[i].fresh
  PROVE  \/ o \in run[i].fresh
         \/ o \in Occ /\ Record(i, o) /\ o \notin log /\ o \in log' /\ subState[o.sub] = "live"
<1>1. ASSUME NEW j \in Inst, NEW q \in Occ, Record(j, q)
      PROVE  \/ o \in run[i].fresh
             \/ o = q /\ i = j /\ o \notin log /\ o \in log' /\ subState[o.sub] = "live"
  BY <1>1, RecordEffects
<1>2. ASSUME NEW j \in Inst, NEW c \in Chan, Open(j, c)
      PROVE  o \in run[i].fresh
  BY <1>2, OpenEffects
<1>3. ASSUME NEW j \in Inst, ClaimRetries(j)
      PROVE  o \in run[i].fresh
  BY <1>3, ClaimEffects
<1>4. QED
  BY <1>1, <1>2, <1>3, NextCases DEF Quiet

\* A run's claims are those it took from due rows.
LEMMA ClaimMoves ==
  ASSUME TypeOK, RowsIdentified, [Next]_vars, NEW i \in Inst, NEW e \in run'[i].claimed
  PROVE  \/ e \in run[i].claimed
         \/ ClaimRetries(i) /\ \E k \in Chan \X Day : Claimable(outbox[k]) /\ e = ClaimOf(k)
<1>1. ASSUME NEW j \in Inst, NEW q \in Occ, Record(j, q)
      PROVE  e \in run[i].claimed
  BY <1>1, RecordEffects
<1>2. ASSUME NEW j \in Inst, NEW c \in Chan, Open(j, c)
      PROVE  e \in run[i].claimed
  BY <1>2, OpenEffects
<1>3. ASSUME NEW j \in Inst, ClaimRetries(j)
      PROVE  \/ e \in run[i].claimed
             \/ i = j /\ \E k \in Chan \X Day : Claimable(outbox[k]) /\ e = ClaimOf(k)
  <2>1. CASE i # j
    BY <1>3, <2>1, ClaimedEffects DEF Others
  <2>2. CASE i = j
    <3>1. run'[i].claimed = {ClaimOf(k) : k \in {l \in Chan \X Day : Claimable(outbox[l])}}
      BY <1>3, <2>2, ClaimedEffects DEF Fields
    <3>2. QED
      BY <2>2, <3>1
  <2>3. QED
    BY <2>1, <2>2
<1>4. QED
  BY <1>1, <1>2, <1>3, NextCases DEF Quiet

\* The identifiers that runs hold were given out.
LEMMA IdsStep ==
  ASSUME TypeOK, TypeOK', RowsIdentified, IdsIssued, [Next]_vars
  PROVE  IdsIssued'
<1> SUFFICES ASSUME NEW i \in Inst PROVE run'[i].id < nextId'
  BY DEF IdsIssued
<1>1. nextId \in Nat \ {0} /\ nextId' \in Nat /\ run[i].id \in Nat /\ run[i].id < nextId
  BY DEF TypeOK, Execution, IdsIssued
<1>2. nextId' = nextId \/ nextId' = nextId + 1
  BY NextCases, OpenEffects, RecordEffects, ClaimEffects DEF Quiet
<1>3. run'[i].id \in {0, run[i].id} => run'[i].id < nextId'
  BY <1>1, <1>2
<1>4. CASE run'[i] = run[i] \/ run'[i] = Idle
  BY <1>3, <1>4 DEF Idle
<1>5. CASE Start(i)
  BY <1>3, <1>5, StartEffects DEF Fields
<1>6. CASE LoadChannels(i) \/ NextHousehold(i) \/ CloseBatch(i) \/ NextBatch(i)
  BY <1>3, <1>6, LoadChannelsEffects, NextHouseholdEffects, CloseBatchEffects, NextBatchEffects
     DEF Fields
<1>7. ASSUME NEW o \in Occ, Record(i, o)
      PROVE  run'[i].id \in {0, run[i].id}
  BY <1>7, JournalEffects DEF Fields
<1>8. ASSUME NEW c \in Chan, SkipChannel(i, c) \/ OpenFails(i, c)
      PROVE  run'[i].id \in {0, run[i].id}
  BY <1>8, SkipChannelEffects, OpenFailsEffects DEF Fields
<1>9. ASSUME NEW c \in Chan, Open(i, c)
      PROVE  run'[i].id < nextId'
  <2> DEFINE k == KeyFor(i, c)
  <2>1. /\ k \in Chan \X Day /\ run'[i].id = IdFor(i, c)
        /\ \/ IdFor(i, c) = nextId /\ nextId' = nextId + 1
           \/ IdFor(i, c) = outbox[k].id /\ nextId' = nextId
    BY <1>9, OpenedEffects, OpenedRow DEF Fields
  <2>2. QED
    BY <1>1, <2>1 DEF RowsIdentified
<1>10. CASE Send(i) \/ (Note(i) \/ NoteFails(i)) \/ ClaimRetries(i) \/ ClaimFails(i)
  BY <1>3, <1>10, SendEffects, NotedEffects, ClaimedEffects, ClaimFailsEffects DEF Fields
<1>11. ASSUME NEW d \in run[i].claimed, Resend(i, d)
       PROVE  run'[i].id < nextId'
  <2>1. run'[i].id = d.id /\ nextId' = nextId
    BY <1>11, ResendEffects DEF Fields
  <2>2. QED
    BY <2>1 DEF RowsIdentified
<1>12. ASSUME NEW d \in run[i].claimed,
              NoteRetry(i, d) \/ NoteRetryFails(i, d) \/ DropUnreadable(i, d)
       PROVE  run'[i].id = 0
  BY <1>12, RetriedEffects DEF Fields
<1>13. QED
  BY <1>3, <1>4, <1>5, <1>6, <1>7, <1>8, <1>9, <1>10, <1>11, <1>12, RunMoves

\* What a run has still to send is of its batch before, or is journalled now.
LEMMA NotYetMoves ==
  ASSUME TypeOK, RunsPlaced, RowsIdentified, [Next]_vars, NEW i \in Inst, NEW c \in Chan,
         NotYet(i, c)', NEW o \in run'[i].fresh
  PROVE  \/ o \in run[i].fresh /\ NotYet(i, c)
         \/ o \in Occ /\ Record(i, o) /\ o \notin log /\ subState[o.sub] = "live"
<1>0. Placed(run[i]) /\ Placed(Idle)
  BY IdlePlaced DEF RunsPlaced
<1>1. CASE run'[i] = run[i]
  BY <1>1 DEF NotYet, HomeChans
<1>2. CASE run'[i] = Idle
  BY <1>2 DEF Idle
<1>3. CASE Start(i)
  BY <1>3, StartEffects DEF Fields
<1>4. CASE LoadChannels(i)
  BY <1>0, <1>4, LoadChannelsEffects DEF Fields, Placed
<1>5. CASE NextHousehold(i)
  BY <1>5, NextHouseholdEffects DEF Fields
<1>6. ASSUME NEW q \in Occ, Record(i, q)
      PROVE  \/ o \in run[i].fresh /\ NotYet(i, c)
             \/ o = q /\ o \notin log /\ subState[o.sub] = "live"
  BY <1>6, JournalEffects DEF Fields, NotYet, HomeChans
<1>7. CASE CloseBatch(i)
  <2>1. run[i].pc = "log" /\ o \in run[i].fresh /\ run'[i].queue \subseteq HomeChans(i)
        /\ run'[i].pc = "open"
    BY <1>7, CloseBatchEffects DEF Fields
  <2>2. QED
    BY <2>1 DEF NotYet
<1>8. CASE NextBatch(i)
  BY <1>8, NextBatchEffects DEF Fields
<1>9. ASSUME NEW e \in Chan, SkipChannel(i, e) \/ Open(i, e) \/ OpenFails(i, e)
      PROVE  o \in run[i].fresh /\ NotYet(i, c)
  <2>1. /\ run'[i].pc # "log" /\ run'[i].fresh = run[i].fresh
        /\ run'[i].queue \subseteq run[i].queue
    BY <1>9, SkipChannelEffects, OpenedEffects, OpenFailsEffects DEF Fields
  <2>2. QED
    BY <2>1 DEF NotYet
<1>10. CASE Send(i) \/ (Note(i) \/ NoteFails(i))
  <2>1. /\ run'[i].pc # "log" /\ run'[i].fresh = run[i].fresh
        /\ run'[i].queue = run[i].queue
    BY <1>10, SendEffects, NotedEffects DEF Fields
  <2>2. QED
    BY <2>1 DEF NotYet
<1>11. CASE ClaimRetries(i) \/ ClaimFails(i)
  BY <1>11, ClaimedEffects, ClaimFailsEffects DEF Fields
<1>12. ASSUME NEW d \in run[i].claimed,
              Resend(i, d) \/ (NoteRetry(i, d) \/ NoteRetryFails(i, d) \/ DropUnreadable(i, d))
       PROVE  o \in run[i].fresh /\ NotYet(i, c)
  <2>1. /\ run'[i].pc # "log" /\ run'[i].fresh = run[i].fresh
        /\ run'[i].queue = run[i].queue
    BY <1>12, ResendEffects, RetriedEffects DEF Fields
  <2>2. QED
    BY <2>1 DEF NotYet
<1>13. QED
  BY <1>1, <1>2, <1>3, <1>4, <1>5, <1>6, <1>7, <1>8, <1>9, <1>10, <1>11, <1>12, RunMoves

-----------------------------------------------------------------------------
(* The rows a run sends from are its own; abandonments stay in sight. *)

RowsEmpty == \A k \in Chan \X Day : outbox[k].id = 0 => outbox[k].batch = {}

\* An absent row holds nothing.
LEMMA EmptyStep ==
  ASSUME TypeOK, RowsIdentified, RowsEmpty, [Next]_vars
  PROVE  RowsEmpty'
<1> SUFFICES ASSUME NEW k \in Chan \X Day, outbox'[k].id = 0
             PROVE  outbox'[k].batch = {}
  BY DEF RowsEmpty
<1>1. ASSUME NEW i \in Inst, Open(i, k[1]), run[i].day = k[2]
      PROVE  outbox'[k].id # 0
  <2>1. k = KeyFor(i, k[1])
    BY <1>1 DEF KeyFor
  <2>2. nextId # 0
    BY DEF TypeOK
  <2>3. QED
    BY <1>1, <2>1, <2>2, OpenedRow
<1>2. QED
  BY <1>1, BatchMoves DEF RowsEmpty

\* How often a pair was received grows with the send of its occurrence only.
LEMMA Received ==
  ASSUME TypeOK, [Next]_vars, NEW p \in Occ \X Chan, received'[p] # received[p]
  PROVE  /\ received[p] \in Nat /\ received'[p] = received[p] + 1
         /\ \E i \in Inst :
              \/ Send(i) /\ p[1] \in run[i].fresh /\ p[2] \in run[i].cur
              \/ \E d \in run[i].claimed : /\ Resend(i, d) /\ p[1] \in d.batch /\ p[2] = d.chan
<1>1. ASSUME NEW b, NEW c, Receive(b, c)
      PROVE  p[1] \in b /\ p[2] = c /\ received[p] \in Nat /\ received'[p] = received[p] + 1
  <2>1. received[p] \in 0..2 /\ DOMAIN received = Occ \X Chan
    BY DEF TypeOK
  <2>2. p[1] \in b /\ p[2] = c /\ received'[p] = received[p] + 1
    BY <1>1, <2>1 DEF Receive
  <2>3. QED
    BY <2>1, <2>2
<1>2. QED
  BY <1>1, ReceivedMoves

\* What a run has still to send to a channel was not received there, and is in no row
\* and no claim of it.
LEMMA UntouchedStep ==
  ASSUME TypeOK, JournalFirst, OneBatchPerOccurrence, RowsIdentified, RunsPlaced,
         BatchesUntouched, [Next]_vars
  PROVE  BatchesUntouched'
<1> SUFFICES ASSUME NEW i \in Inst, NEW o \in run'[i].fresh, NEW c \in Chan, NotYet(i, c)'
             PROVE  Untouched(o, c)'
  BY DEF BatchesUntouched
<1> DEFINE p == <<o, c>>
<1>1. o \in Occ /\ Untouched(o, c)
  <2>1. CASE o \in run[i].fresh /\ NotYet(i, c)
    BY <2>1 DEF BatchesUntouched, TypeOK, Execution
  <2>2. CASE o \in Occ /\ o \notin log /\ subState[o.sub] = "live"
    <3>1. ~Accounted(o)
      BY <2>2 DEF Accounted
    <3>2. p \in Occ \X Chan /\ p[1] = o /\ received[p] \in 0..2 /\ ~(received[p] > 0)
      BY <2>2, <3>1 DEF JournalFirst, TypeOK
    <3>3. received[p] = 0
      BY <3>2
    <3>4. QED
      BY <2>2, <3>1, <3>3 DEF Untouched, JournalFirst
  <2>3. QED
    BY <2>1, <2>2, NotYetMoves
\* The run of this batch does not send to c now, and no other has the batch.
<1>2. ASSUME NEW j \in Inst, Send(j) \/ Open(j, c), o \in run[j].fresh,
             c \in run[j].cur \/ Open(j, c)
      PROVE  FALSE
  <2>1. CASE j = i
    <3>1. Placed(run[i])
      BY DEF RunsPlaced
    <3>2. CASE Send(j)
      <4>1. c \notin run[i].queue /\ run'[i].pc = "note" /\ run'[i].queue = run[i].queue
        BY <1>2, <2>1, <3>1, <3>2, SendEffects, OpenedEffects DEF Fields, Placed
      <4>2. QED
        BY <4>1 DEF NotYet
    <3>3. CASE Open(j, c)
      <4>1. run'[i].pc = "send" /\ run'[i].queue = run[i].queue \ {c}
        BY <2>1, <3>3, OpenedEffects DEF Fields
      <4>2. QED
        BY <4>1 DEF NotYet
    <3>4. QED
      BY <1>2, <3>2, <3>3
  <2>2. CASE j # i
    <3>1. Others(j)
      BY <1>2, OthersStand DEF Step
    <3>2. o \in run[i].fresh
      BY <2>2, <3>1 DEF Others
    <3>3. QED
      BY <1>2, <2>2, <3>2 DEF OneBatchPerOccurrence
  <2>3. QED
    BY <2>1, <2>2
<1>3. received'[p] = 0
  <2>1. p \in Occ \X Chan /\ p[1] = o /\ p[2] = c /\ received[p] = 0
    BY <1>1 DEF Untouched
  <2>2. ASSUME NEW j \in Inst, NEW d \in run[j].claimed, o \in d.batch, c = d.chan
        PROVE  FALSE
    BY <1>1, <2>2 DEF Untouched
  <2>3. QED
    BY <1>2, <2>1, <2>2, Received
<1>4. ASSUME NEW d \in Day
      PROVE  o \notin outbox'[<<c, d>>].batch
  <2> DEFINE k == <<c, d>>
  <2>1. k \in Chan \X Day /\ k[1] = c /\ o \notin outbox[k].batch
    BY <1>1 DEF Untouched
  <2>2. ASSUME NEW j \in Inst, Open(j, c)
        PROVE  o \notin run[j].fresh
    BY <1>2, <2>2
  <2>3. QED
    BY <2>1, <2>2, BatchMoves
<1>5. ASSUME NEW j \in Inst, NEW e \in run'[j].claimed, e.chan = c
      PROVE  o \notin e.batch
  <2>1. CASE e \in run[j].claimed
    BY <1>1, <1>5, <2>1 DEF Untouched
  <2>2. ASSUME NEW k \in Chan \X Day, e = ClaimOf(k)
        PROVE  o \notin e.batch
    BY <1>1, <1>5, <2>2 DEF Untouched, ClaimOf
  <2>3. QED
    BY <2>1, <2>2, ClaimMoves
<1>6. QED
  BY <1>3, <1>4, <1>5 DEF Untouched

\* How a run comes to the send of a batch, and stays there.
LEMMA SendingMoves ==
  ASSUME TypeOK, RunsPlaced, [Next]_vars, NEW i \in Inst, run'[i].pc \in {"send", "note"}
  PROVE  /\ run'[i].fresh = run[i].fresh
         /\ \/ /\ run[i].pc \in {"send", "note"} /\ run'[i].id = run[i].id
               /\ run'[i].cur = run[i].cur
               /\ run'[i] = run[i] \/ Send(i)
            \/ \E c \in run[i].queue \cap Chan :
                 /\ run'[i].cur = {c} /\ run'[i].pc = "send"
                 /\ \/ Open(i, c) /\ run'[i].id = IdFor(i, c)
                    \/ OpenFails(i, c) /\ run'[i].id = 0
<1>1. CASE run'[i] = run[i]
  BY <1>1
<1>2. CASE run'[i] = Idle
  BY <1>2 DEF Idle
<1>3. ~Start(i)
  BY StartEffects DEF Fields
<1>10. ~LoadChannels(i) /\ ~NextHousehold(i) /\ ~CloseBatch(i) /\ ~NextBatch(i)
  BY LoadChannelsEffects, NextHouseholdEffects, CloseBatchEffects, NextBatchEffects DEF Fields
<1>11. ~(Note(i) \/ NoteFails(i)) /\ ~ClaimRetries(i) /\ ~ClaimFails(i)
  BY NotedEffects, ClaimedEffects, ClaimFailsEffects DEF Fields
<1>4. ASSUME NEW o \in Occ, Record(i, o)
      PROVE  FALSE
  BY <1>4, JournalEffects DEF Fields
<1>5. ASSUME NEW c \in Chan, SkipChannel(i, c)
      PROVE  FALSE
  BY <1>5, SkipChannelEffects DEF Fields
<1>6. ASSUME NEW c \in Chan, Open(i, c) \/ OpenFails(i, c)
      PROVE  /\ run'[i].fresh = run[i].fresh /\ c \in run[i].queue
             /\ run'[i].cur = {c} /\ run'[i].pc = "send"
             /\ \/ Open(i, c) /\ run'[i].id = IdFor(i, c)
                \/ OpenFails(i, c) /\ run'[i].id = 0
  BY <1>6, OpenedEffects, OpenFailsEffects DEF Fields
<1>7. CASE Send(i)
  BY <1>7, SendEffects DEF Fields
<1>8. ASSUME NEW d \in run[i].claimed,
             Resend(i, d) \/ (NoteRetry(i, d) \/ NoteRetryFails(i, d) \/ DropUnreadable(i, d))
      PROVE  FALSE
  BY <1>8, ResendEffects, RetriedEffects DEF Fields
<1>9. QED
  BY <1>1, <1>2, <1>3, <1>10, <1>11, <1>4, <1>5, <1>6, <1>7, <1>8, RunMoves

\* The row that holds what a run sends stays the run's.
LEMMA OwnRowsStep ==
  ASSUME TypeOK, OneBatchPerOccurrence, RowsIdentified, RunsPlaced, RowsEmpty, BatchesUntouched,
         OwnRows, [Next]_vars
  PROVE  OwnRows'
<1> SUFFICES ASSUME NEW i \in Inst, run'[i].pc \in {"send", "note"},
                    NEW o \in run'[i].fresh, NEW c \in run'[i].cur, NEW d \in Day,
                    o \in outbox'[<<c, d>>].batch
             PROVE  outbox'[<<c, d>>].id = run'[i].id
  BY DEF OwnRows
<1> DEFINE k == <<c, d>>
<1>1. o \in run[i].fresh
  BY SendingMoves
<1>2. ASSUME c \in Chan, Open(i, c), run'[i].id = IdFor(i, c), c \in run[i].queue
      PROVE  outbox'[k].id = run'[i].id
  <2>1. o \notin outbox[k].batch
    BY <1>1, <1>2 DEF BatchesUntouched, NotYet, Untouched
  <2>2. k \in Chan \X Day
    BY <1>2
  <2>3. k = KeyFor(i, c)
    BY <1>2, <2>1, <2>2, OpenedRow
  <2>4. QED
    BY <1>2, <2>3, OpenedRow
<1>3. ASSUME c \in Chan, OpenFails(i, c), c \in run[i].queue
      PROVE  FALSE
  <2>1. o \notin outbox[k].batch
    BY <1>1, <1>3 DEF BatchesUntouched, NotYet, Untouched
  <2>2. outbox' = outbox
    BY <1>3, OpenFailsEffects DEF RunsOnly
  <2>3. QED
    BY <2>1, <2>2
<1>4. CASE run[i].pc \in {"send", "note"} /\ run'[i].id = run[i].id
           /\ run'[i].cur = run[i].cur /\ (run'[i] = run[i] \/ Send(i))
  <2>1. k \in Chan \X Day /\ k[1] = c
    BY <1>4 DEF TypeOK, Execution
  <2>2. ASSUME NEW j \in Inst, Open(j, c)
        PROVE  o \notin run[j].fresh
    <3>1. i # j
      BY <1>4, <2>1, <2>2, OpenedEffects
    <3>2. QED
      BY <1>1, <3>1 DEF OneBatchPerOccurrence
  <2>3. outbox'[k].id = outbox[k].id /\ o \in outbox[k].batch
    BY <2>1, <2>2, BatchMoves
  <2>4. QED
    BY <1>1, <1>4, <2>1, <2>3 DEF OwnRows
<1>5. QED
  BY <1>2, <1>3, <1>4, SendingMoves

\* An abandonment goes with its retention, its channel or the success of a send in progress.
THEOREM AbandonmentShown == Spec => AbandonmentVisible
<1>1. DeliveryInvariant /\ [Next]_vars =>
        [\A k \in Chan \X Day :
           outbox[k].status = "abandoned" /\ outbox'[k].status # "abandoned" =>
             \/ outbox[k].age >= Retention
             \/ chanState'[k[1]] = "gone"
             \/ \E i \in Inst : /\ run[i].pc \in {"note", "renote"} /\ run[i].ok
                                /\ run[i].id = outbox[k].id]_vars
  <2> SUFFICES ASSUME DeliveryInvariant, [Next]_vars, NEW k \in Chan \X Day,
                      outbox[k].status = "abandoned", outbox'[k].status # "abandoned"
               PROVE  \/ outbox[k].age >= Retention
                      \/ chanState'[k[1]] = "gone"
                      \/ \E i \in Inst : /\ run[i].pc \in {"note","renote"} /\ run[i].ok
                                         /\ run[i].id = outbox[k].id
    OBVIOUS
  <2>0. TypeOK /\ outbox[k].id # 0
    BY DEF DeliveryInvariant, RowsIdentified
  <2>1. outbox[k] \in Row /\ k = <<k[1], k[2]>> /\ k[1] \in Chan
    BY <2>0 DEF TypeOK
  <2>2. CASE \E i \in Inst : Open(i, k[1]) /\ run[i].day = k[2]
    <3>1. PICK i \in Inst : Open(i, k[1]) /\ run[i].day = k[2]
      BY <2>2
    <3>2. k = KeyFor(i, k[1])
      BY <2>1, <3>1 DEF KeyFor
    <3>3. outbox[k].id # 0 => outbox'[k].status = outbox[k].status
      BY <2>0, <2>1, <3>1, <3>2, OpenedRow
    <3>4. QED
      BY <2>0, <3>3
  <2>3. CASE outbox'[k] = TickedRow(outbox[k])
    BY <2>1, <2>3, TickedFields
  <2>4. CASE DeleteChannel(k[1])
    BY <2>0, <2>1, <2>4 DEF DeleteChannel, TypeOK
  <2>5. CASE outbox'[k] = ClaimedRow(outbox[k])
    BY <2>1, <2>5, ClaimedFields
  <2>6. CASE Expired(outbox[k])
    BY <2>6 DEF Expired
  <2>7. ASSUME NEW i \in Inst, NEW n, run[i].pc \in {"note", "renote"}, k \in RowsOf(run[i].id),
               outbox'[k] = ConcludedRow(outbox[k], run[i].ok, n)
        PROVE  run[i].ok /\ run[i].id = outbox[k].id
    <3>1. FailedRow(outbox[k], n).status = "abandoned"
      BY <2>1 DEF FailedRow, AbandonedRow, Row
    <3>2. QED
      BY <2>7, <3>1 DEF ConcludedRow, RowsOf
  <2>8. CASE outbox'[k] = AbandonedRow(outbox[k])
    BY <2>1, <2>8, AbandonedFields
  <2>9. ASSUME NEW i \in Inst, Note(i), k \in RowsOf(run[i].id),
               outbox'[k] = ConcludedRow(outbox[k], run[i].ok, 1)
        PROVE  run[i].pc \in {"note", "renote"} /\ run[i].ok /\ run[i].id = outbox[k].id
    BY <2>7, <2>9 DEF Note
  <2>10. ASSUME NEW i \in Inst, NEW d \in run[i].claimed, NoteRetry(i, d), k \in RowsOf(d.id),
                outbox'[k] = ConcludedRow(outbox[k], run[i].ok, d.attempts)
         PROVE  run[i].pc \in {"note", "renote"} /\ run[i].ok /\ run[i].id = outbox[k].id
    BY <2>7, <2>10 DEF NoteRetry
  <2>11. QED
    BY <2>0, <2>2, <2>3, <2>4, <2>5, <2>6, <2>8, <2>9, <2>10, RowMoves
<1>2. QED
  BY <1>1, DeliveryInvariantHolds, PTL DEF Spec, AbandonmentVisible

-----------------------------------------------------------------------------
(* The invariant without hypotheses, and the isolation of households. *)

Base ==
  /\ TypeOK /\ JournalFirst /\ OneBatchPerOccurrence /\ RowsIdentified
  /\ RunsPlaced /\ RowsFilled /\ RowsEmpty /\ IdsIssued /\ BatchesUntouched /\ OwnRows

\* All this holds at first.
LEMMA BaseInit == Init => Base /\ HomesApart
<1> SUFFICES ASSUME Init PROVE Base /\ HomesApart
  OBVIOUS
<1>1. DeliveryInvariant
  BY InitInvariant
<1>2. \A i \in Inst : run[i] = Idle
  BY DEF Init
<1>3. \A i \in Inst : Placed(run[i]) /\ AtHome(run[i])
  BY <1>2, IdlePlaced, IdleAtHome
<1>4. \A k \in Chan \X Day : outbox[k].batch = {} /\ outbox[k].id = 0
  BY DEF Init, NoRow
<1>5. \A p \in Occ \X Chan : ~(received[p] > 0)
  BY DEF Init
<1>6. \A i \in Inst : run[i].fresh = {} /\ run[i].id < nextId
  BY <1>2 DEF Idle, Init
<1>7. QED
  BY <1>1, <1>3, <1>4, <1>5, <1>6 DEF Base, DeliveryInvariant, RunsPlaced, RowsFilled, RowsEmpty,
     IdsIssued, BatchesUntouched, OwnRows, HomesApart, RowsAtHome

\* Every step keeps it.
LEMMA BaseStep == Base /\ [Next]_vars => Base'
<1> SUFFICES ASSUME Base, [Next]_vars PROVE Base'
  OBVIOUS
<1>1. TypeOK'
  BY TypeStep DEF Base
<1>2. QED
  BY <1>1, JournalStep, OneBatchStep, RowsStep, PlacedStep, FilledStep, EmptyStep, IdsStep,
     UntouchedStep, OwnRowsStep DEF Base

\* With the households apart.
LEMMA HomesNext == Base /\ HomesApart /\ [Next]_vars => Base' /\ HomesApart'
<1> SUFFICES ASSUME Base, HomesApart, [Next]_vars PROVE Base' /\ HomesApart'
  OBVIOUS
<1>1. Base'
  BY BaseStep
<1>2. QED
  BY <1>1, HomesStep DEF Base

\* Households that are apart are isolated.
LEMMA Isolation == Base /\ HomesApart => HouseholdsIsolated
<1> SUFFICES ASSUME Base, HomesApart, NEW o \in Occ, NEW c \in Chan, SubHome[o.sub] # ChanHome[c]
             PROVE  /\ received[<<o, c>>] = 0
                    /\ \A d \in Day : o \notin outbox[<<c, d>>].batch
  BY DEF HouseholdsIsolated
<1>1. received[<<o, c>>] \in 0..2 /\ ~(received[<<o, c>>] > 0)
  BY DEF HomesApart, Base, TypeOK
<1>2. \A d \in Day : o \notin outbox[<<c, d>>].batch
  BY DEF HomesApart, RowsAtHome
<1>3. QED
  BY <1>1, <1>2

\* Whatever is deleted, lost, crashed or raced, no household's reminders wait in
\* or reach the channels of another.
THEOREM HomesKeptApart == Spec => []HouseholdsIsolated
  BY Isolation, BaseInit, HomesNext, PTL DEF Spec

-----------------------------------------------------------------------------
(* Where runs end before a retry is due: whose row is whose. *)

\* No run stops before it has met all that triggers on its day, and what triggers
\* on a day does not change.
Undisturbed ==
  /\ Prompt /\ ~DbFails
  /\ CrashAt \subseteq {"retry", "renote"}
  /\ EditableSubs = {} /\ DeletableSubs = {} /\ Lead = {DefaultLead}

\* A household never has two occurrences of the same date.
OnePerDate ==
  \A o, p \in Occ : SubHome[o.sub] = SubHome[p.sub] /\ o.due = p.due => o = p

\* Either way the row of a day is not opened again once its retries have begun.
Orderly ==
  /\ Prompt /\ Lead = {DefaultLead}
  /\ Undisturbed \/ OnePerDate

SubsLive ==
  /\ \A s \in Sub : subState[s] # "gone"
  /\ \A o \in plan : subState[o.sub] = "live"

\* A run in its first phase has met or will meet all that triggers on its day.
Sweeping(r) ==
  /\ r.due \cup r.fresh \subseteq Due(r.day)
  /\ r.pc \notin {"idle", "retry", "renote"} => Due(r.day) \subseteq log \cup r.due

DaysSwept ==
  /\ \A i \in Inst : Sweeping(run[i])
  /\ \A k \in Chan \X Day : outbox[k].batch \subseteq Due(k[2])
  /\ \A d \in Day : \A o, p \in Due(d) :
       o \in log /\ p \notin log => \E i \in Inst : p \in run[i].due

Finished(d) == Due(d) \subseteq log /\ \A i \in Inst : run[i].fresh \cap Due(d) = {}

RetriesApart ==
  \A k \in Chan \X Day :
    Claimable(outbox[k]) \/ outbox[k].attempts > 1 => Finished(k[2])

\* Whatever a run or a row holds triggers on its day.
OnTime ==
  /\ \A i \in Inst : \A o \in run[i].due \cup run[i].fresh : o.due - run[i].day = DefaultLead
  /\ \A k \in Chan \X Day : \A o \in outbox[k].batch : o.due - k[2] = DefaultLead

FirstSendsHold ==
  \A i \in Inst : run[i].pc \in {"send", "note"} =>
    \A k \in RowsOf(run[i].id) : ~Claimable(outbox[k]) /\ outbox[k].attempts = 1

ClaimsHold ==
  \A i \in Inst : \A e \in run[i].claimed :
    /\ e.attempts > 1
    /\ \A k \in RowsOf(e.id) :
         /\ ~Claimable(outbox[k]) /\ outbox[k].attempts = e.attempts
         /\ k[1] = e.chan /\ outbox[k].batch = e.batch

OrderlyInv ==
  /\ Base /\ HomesApart /\ OnTime
  /\ Undisturbed => SubsLive /\ DaysSwept /\ RetriesApart
  /\ FirstSendsHold /\ ClaimsHold /\ ClaimExclusive

\* Nothing edits a subscription when edits are excluded.
LEMMA SubsStill ==
  ASSUME Undisturbed, TypeOK, [Next]_vars
  PROVE  UNCHANGED <<subState, plan, lead>>
<1>1. ASSUME NEW s \in Sub, CreateSub(s) \/ UpdateSub(s) \/ DeleteSub(s)
      PROVE  FALSE
  BY <1>1 DEF CreateSub, UpdateSub, DeleteSub, Undisturbed
<1>2. ASSUME NEW h \in Household, SetLeadDays(h)
      PROVE  UNCHANGED <<subState, plan, lead>>
  <2>1. lead[h] = DefaultLead
    BY DEF TypeOK, Undisturbed
  <2>2. lead' = [lead EXCEPT ![h] = DefaultLead]
    BY <1>2 DEF SetLeadDays, Undisturbed
  <2>3. lead' = lead
    BY <2>1, <2>2 DEF TypeOK
  <2>4. QED
    BY <1>2, <2>3 DEF SetLeadDays
<1>3. ASSUME NEW c \in Chan, CreateChannel(c) \/ DeleteChannel(c) \/ ChangeKey(c)
      PROVE  UNCHANGED <<subState, plan, lead>>
  BY <1>3 DEF CreateChannel, DeleteChannel, ChangeKey
<1>4. Tick \/ NextDay \/ UNCHANGED vars => UNCHANGED <<subState, plan, lead>>
  BY DEF Tick, NextDay, vars, data
<1>5. ASSUME NEW i \in Inst, Start(i) \/ Step(i) \/ Crash(i)
      PROVE  UNCHANGED <<subState, plan, lead>>
  BY <1>5, FewSteps, StartEffects, LoadChannelsEffects, NextHouseholdEffects, JournalEffects,
     CloseBatchEffects, NextBatchEffects, SkipChannelEffects, OpenedEffects, OpenFailsEffects,
     SendEffects, NotedEffects, ClaimedEffects, ClaimFailsEffects, ResendEffects,
     RetriedEffects, PurgeEffects, CutEffects DEF RunsOnly, data
<1>6. QED
  BY <1>1, <1>2, <1>3, <1>4, <1>5 DEF Next, Environment

\* So what is due on a day does not change.
LEMMA DueStill ==
  ASSUME Undisturbed, TypeOK, [Next]_vars, NEW d
  PROVE  Due(d)' = Due(d)
  BY SubsStill DEF Due, IsNext

\* Nor does the journal forget.
LEMMA LogGrows ==
  ASSUME Undisturbed, TypeOK, [Next]_vars
  PROVE  log \subseteq log'
<1>1. ASSUME NEW s \in Sub, CreateSub(s) \/ UpdateSub(s) \/ DeleteSub(s)
      PROVE  FALSE
  BY <1>1 DEF CreateSub, UpdateSub, DeleteSub, Undisturbed
<1>2. ASSUME NEW h \in Household, SetLeadDays(h)
      PROVE  UNCHANGED log
  BY <1>2 DEF SetLeadDays
<1>3. ASSUME NEW c \in Chan, CreateChannel(c) \/ DeleteChannel(c) \/ ChangeKey(c)
      PROVE  UNCHANGED log
  BY <1>3 DEF CreateChannel, DeleteChannel, ChangeKey
<1>4. Tick \/ NextDay \/ UNCHANGED vars => UNCHANGED log
  BY DEF Tick, NextDay, vars
<1>5. ASSUME NEW i \in Inst, Start(i) \/ Step(i) \/ Crash(i)
      PROVE  log \subseteq log'
  BY <1>5, FewSteps, StartEffects, LoadChannelsEffects, NextHouseholdEffects, JournalEffects,
     CloseBatchEffects, NextBatchEffects, SkipChannelEffects, OpenedEffects, OpenFailsEffects,
     SendEffects, NotedEffects, ClaimedEffects, ClaimFailsEffects, ResendEffects,
     RetriedEffects, PurgeEffects, CutEffects DEF RunsOnly
<1>6. QED
  BY <1>1, <1>2, <1>3, <1>4, <1>5 DEF Next, Environment

\* An occurrence triggers on one day.
LEMMA OneDay ==
  ASSUME TypeOK, NEW d \in Day, NEW e \in Day, NEW o, o \in Due(d), o \in Due(e)
  PROVE  d = e
<1>1. o \in Occ /\ o.due - d = o.due - e
  BY DEF Due, TypeOK
<1>2. o.due \in Nat /\ d \in Nat /\ e \in Nat
  BY <1>1, ConstantsAssumption DEF Day
<1>3. QED
  BY <1>1, <1>2

\* What a run has to look at stays until it is in the journal.
LEMMA DueStays ==
  ASSUME Undisturbed, Base, SubsLive, DaysSwept, [Next]_vars,
         NEW i \in Inst, NEW p \in run[i].due
  PROVE  p \in run'[i].due \/ p \in log'
<1>0. /\ TypeOK /\ Placed(run[i]) /\ run[i].due \subseteq Occ
      /\ \A o \in run[i].due : subState[o.sub] = "live"
  BY DEF Base, RunsPlaced, TypeOK, Execution, DaysSwept, Sweeping, Due, SubsLive
<1>1. run[i].pc \notin {"idle", "retry", "renote"}
  BY <1>0 DEF Placed
<1>2. ~Start(i) /\ ~Purge(i) /\ ~ClaimRetries(i) /\ ~ClaimFails(i)
  BY <1>0, <1>1, StartEffects, PurgeEffects, ClaimedEffects, ClaimFailsEffects
<1>3. ~(LoadFails(i) \/ Crash(i) \/ \E o \in Occ : RecordFails(i, o))
  BY <1>0, <1>1, CutEffects DEF Undisturbed, HomeDue
<1>4. ASSUME NEW d \in run[i].claimed,
             Resend(i, d) \/ (NoteRetry(i, d) \/ NoteRetryFails(i, d) \/ DropUnreadable(i, d))
      PROVE  FALSE
  BY <1>0, <1>1, <1>4, ResendEffects, RetriedEffects
<1>5. ASSUME NEW o \in Occ, Record(i, o)
      PROVE  p \in run'[i].due \/ p \in log'
  BY <1>0, <1>5, JournalEffects DEF Fields
<1>6. ASSUME NEW c \in Chan, SkipChannel(i, c) \/ Open(i, c) \/ OpenFails(i, c)
      PROVE  run'[i].due = run[i].due
  BY <1>0, <1>6, SkipChannelEffects, OpenedEffects, OpenFailsEffects DEF Fields
<1>7. LoadChannels(i) \/ NextHousehold(i) \/ CloseBatch(i) \/ NextBatch(i)
        => run'[i].due = run[i].due
  BY <1>0, LoadChannelsEffects, NextHouseholdEffects, CloseBatchEffects, NextBatchEffects
     DEF Fields
<1>8. Send(i) \/ (Note(i) \/ NoteFails(i)) => run'[i].due = run[i].due
  BY <1>0, SendEffects, NotedEffects DEF Fields
<1>9. CASE Start(i) \/ Step(i) \/ Crash(i)
  BY <1>2, <1>3, <1>4, <1>5, <1>6, <1>7, <1>8, <1>9, FewSteps
<1>10. ASSUME NEW j \in Inst \ {i}, Start(j) \/ Step(j) \/ Crash(j)
       PROVE  run'[i] = run[i]
  BY <1>0, <1>10, OthersStand DEF Others
<1>11. Environment \/ UNCHANGED vars => run'[i] = run[i]
  BY <1>0, EnvironmentEffects DEF vars
<1>12. QED
  BY <1>9, <1>10, <1>11 DEF Next

\* A run in its first phase has journalled, or has still to journal, all that its day
\* has.
LEMMA SweepingStep ==
  ASSUME Undisturbed, Base, SubsLive, DaysSwept, TypeOK', [Next]_vars, NEW i \in Inst
  PROVE  Sweeping(run[i])'
<1>0. /\ TypeOK /\ Placed(run[i]) /\ Sweeping(run[i]) /\ log \subseteq log'
      /\ \A d : Due(d)' = Due(d)
  BY LogGrows, DueStill DEF Base, RunsPlaced, DaysSwept
<1> SUFFICES /\ run'[i].due \cup run'[i].fresh \subseteq Due(run'[i].day)
             /\ run'[i].pc \notin {"idle", "retry", "renote"} =>
                  Due(run'[i].day) \subseteq log' \cup run'[i].due
  <2> DEFINE r == run'[i]
  <2>1. Due(run'[i].day) = Due(run[i].day)'
    BY <1>0 DEF Due, IsNext
  <2>2. QED
    BY <2>1 DEF Sweeping
<1>1. CASE run'[i] = run[i]
  BY <1>0, <1>1 DEF Sweeping
<1>2. CASE run'[i] = Idle
  BY <1>2 DEF Idle
<1>3. CASE Start(i)
  BY <1>0, <1>3, StartEffects DEF Fields
<1>4. CASE LoadChannels(i)
  BY <1>0, <1>4, LoadChannelsEffects DEF Fields, Sweeping
<1>5. CASE NextHousehold(i)
  BY <1>0, <1>5, NextHouseholdEffects DEF Fields, Sweeping
<1>6. ASSUME NEW o \in Occ, Record(i, o)
      PROVE  /\ run'[i].due \cup run'[i].fresh \subseteq Due(run'[i].day)
             /\ run'[i].pc \notin {"idle", "retry", "renote"} =>
                  Due(run'[i].day) \subseteq log' \cup run'[i].due
  <2>1. /\ run[i].pc = "log" /\ o \in run[i].due /\ o \in log'
        /\ run'[i].day = run[i].day /\ run'[i].due = run[i].due \ {o}
        /\ run'[i].fresh \subseteq run[i].fresh \cup {o}
    BY <1>0, <1>6, JournalEffects DEF Fields, HomeDue
  <2>2. QED
    BY <1>0, <2>1 DEF Sweeping
<1>7. CASE CloseBatch(i) \/ NextBatch(i)
  <2>1. /\ run[i].pc \in {"log", "open"} /\ run'[i].day = run[i].day
        /\ run'[i].due = run[i].due /\ run'[i].fresh \subseteq run[i].fresh
    BY <1>0, <1>7, CloseBatchEffects, NextBatchEffects DEF Fields
  <2>2. QED
    BY <1>0, <2>1 DEF Sweeping
<1>8. ASSUME NEW c \in Chan, SkipChannel(i, c) \/ Open(i, c) \/ OpenFails(i, c)
      PROVE  /\ run[i].pc = "open" /\ run'[i].day = run[i].day
             /\ run'[i].due = run[i].due /\ run'[i].fresh = run[i].fresh
  BY <1>0, <1>8, SkipChannelEffects, OpenedEffects, OpenFailsEffects DEF Fields
<1>9. CASE Send(i) \/ (Note(i) \/ NoteFails(i))
  <2>1. /\ run[i].pc \in {"send", "note"} /\ run'[i].day = run[i].day
        /\ run'[i].due = run[i].due /\ run'[i].fresh = run[i].fresh
    BY <1>0, <1>9, SendEffects, NotedEffects DEF Fields
  <2>2. QED
    BY <1>0, <2>1 DEF Sweeping
<1>10. CASE ClaimRetries(i) \/ ClaimFails(i)
  BY <1>0, <1>10, ClaimedEffects, ClaimFailsEffects DEF Fields
<1>11. ASSUME NEW d \in run[i].claimed,
              Resend(i, d) \/ (NoteRetry(i, d) \/ NoteRetryFails(i, d) \/ DropUnreadable(i, d))
       PROVE  /\ run'[i].pc \in {"retry", "renote"}
              /\ run'[i].due = {} /\ run'[i].fresh = {}
  BY <1>0, <1>11, ResendEffects, RetriedEffects DEF Fields, Placed
<1>12. QED
  BY <1>0, <1>1, <1>2, <1>3, <1>4, <1>5, <1>6, <1>7, <1>8, <1>9, <1>10, <1>11, RunMoves
     DEF Sweeping

\* So a day that is swept stays swept.
LEMMA SweptStep ==
  ASSUME Undisturbed, Base, SubsLive, DaysSwept, TypeOK', [Next]_vars
  PROVE  DaysSwept'
<1>0. TypeOK /\ log \subseteq log' /\ (\A d : Due(d)' = Due(d)) /\ RowsIdentified
  BY LogGrows, DueStill DEF Base
<1>1. \A i \in Inst : Sweeping(run[i])'
  BY SweepingStep
<1>2. ASSUME NEW k \in Chan \X Day
      PROVE  outbox'[k].batch \subseteq Due(k[2])
  BY <1>0, BatchMoves DEF DaysSwept, Sweeping
<1>3. ASSUME NEW d \in Day, NEW o \in Due(d), NEW p \in Due(d), o \in log', p \notin log'
      PROVE  \E i \in Inst : p \in run'[i].due
  <2>1. p \notin log
    BY <1>0, <1>3
  <2>2. CASE o \in log
    BY <1>3, <2>1, <2>2, DueStays DEF DaysSwept
  <2>3. CASE o \notin log
    <3>1. PICK i \in Inst : Record(i, o)
      <4>1. \A q \in Occ : \A i \in Inst : Record(i, q) /\ o \in log' => o = q
        BY <1>0, <2>3, JournalEffects, ZenonT(60)
      <4>2. (\A i \in Inst : \A q \in Occ : ~Record(i, q)) => log' = log
        <5> SUFFICES ASSUME \A i \in Inst : \A q \in Occ : ~Record(i, q) PROVE log' = log
          OBVIOUS
        <5>1. ASSUME NEW i \in Inst, Start(i) \/ Step(i) \/ Crash(i)
              PROVE  log' = log
          BY <1>0, <5>1, FewSteps, StartEffects, LoadChannelsEffects, NextHouseholdEffects,
             CloseBatchEffects, NextBatchEffects, SkipChannelEffects, OpenedEffects,
             OpenFailsEffects, SendEffects, NotedEffects, ClaimedEffects, ClaimFailsEffects,
             ResendEffects, RetriedEffects, PurgeEffects, CutEffects DEF RunsOnly
        <5>2. ASSUME NEW s \in Sub, CreateSub(s) \/ UpdateSub(s) \/ DeleteSub(s)
              PROVE  FALSE
          BY <5>2 DEF CreateSub, UpdateSub, DeleteSub, Undisturbed
        <5>3. Environment \/ UNCHANGED vars => log' = log
          BY <5>2 DEF vars, Environment, Tick, NextDay, SetLeadDays, CreateChannel, DeleteChannel,
                 ChangeKey
        <5>4. QED
          BY <5>1, <5>3 DEF Next
      <4>3. QED
        BY <1>3, <2>3, <4>1, <4>2
    <3>2. o \in run[i].due /\ run[i].pc = "log" /\ run[i].day \in Day
      BY <1>0, <3>1, JournalEffects DEF HomeDue, TypeOK, Execution, Due
    <3>3. o \in Due(run[i].day) /\ Due(run[i].day) \subseteq log \cup run[i].due
      BY <3>2 DEF DaysSwept, Sweeping
    <3>4. run[i].day = d
      BY <1>0, <1>3, <3>2, <3>3, OneDay
    <3>5. p \in run[i].due
      BY <2>1, <3>3, <3>4
    <3>6. QED
      BY <1>3, <3>5, DueStays
  <2>4. QED
    BY <2>2, <2>3
<1>4. QED
  BY <1>0, <1>1, <1>2, <1>3 DEF DaysSwept

\* Subscriptions stay live when nothing edits them.
LEMMA SubsLiveStep ==
  ASSUME Undisturbed, TypeOK, SubsLive, [Next]_vars
  PROVE  SubsLive'
  BY SubsStill DEF SubsLive

\* A day that is done stays done.
LEMMA FinishedStays ==
  ASSUME Undisturbed, Base, [Next]_vars, NEW d, Finished(d)
  PROVE  Finished(d)'
<1>1. TypeOK /\ RowsIdentified /\ log \subseteq log' /\ Due(d)' = Due(d)
  BY LogGrows, DueStill DEF Base
<1>2. ASSUME NEW i \in Inst, NEW o \in run'[i].fresh, o \in Due(d)
      PROVE  FALSE
  BY <1>1, <1>2, FreshMoves DEF Finished
<1>3. QED
  BY <1>1, <1>2 DEF Finished

\* Between two runs, the day of every row is done.
LEMMA FinishedAtRest ==
  ASSUME Base, SubsLive, DaysSwept, \A i \in Inst : run[i].pc = "idle",
         NEW k \in Chan \X Day, outbox[k].id # 0
  PROVE  Finished(k[2])
<1>1. TypeOK /\ \A i \in Inst : run[i].due = {} /\ run[i].fresh = {}
  BY DEF Base, RunsPlaced, Placed
<1>2. PICK o \in outbox[k].batch : TRUE
  BY DEF Base, RowsFilled
<1>3. o \in Due(k[2]) /\ Accounted(o) /\ o \in Occ /\ k[2] \in Day
  BY <1>1, <1>2 DEF DaysSwept, Base, JournalFirst, TypeOK, Row
<1>4. o \in log
  BY <1>3, ConstantsAssumption DEF Accounted, SubsLive
<1>5. QED
  BY <1>1, <1>3, <1>4 DEF DaysSwept, Finished

\* The day of a row that is retried is finished: no run of it has anything left to
\* open.
LEMMA RetriedRows ==
  ASSUME Undisturbed, Base, SubsLive, DaysSwept, RetriesApart, [Next]_vars,
         NEW k \in Chan \X Day, Claimable(outbox'[k]) \/ outbox'[k].attempts > 1
  PROVE  Finished(k[2])'
<1> SUFFICES Finished(k[2])
  BY FinishedStays
<1>0. TypeOK /\ RowsIdentified /\ outbox[k] \in Row /\ k = <<k[1], k[2]>> /\ k[1] \in Chan
  BY DEF Base, TypeOK
<1> SUFFICES ASSUME ~Claimable(outbox[k]), ~(outbox[k].attempts > 1) PROVE Finished(k[2])
  BY DEF RetriesApart
<1>1. CASE outbox'[k] = outbox[k] \/ outbox'[k] = NoRow
  BY <1>1 DEF NoRow, Claimable
<1>2. CASE Tick /\ outbox'[k] = TickedRow(outbox[k])
  <2>1. outbox[k].status = "pending"
    BY <1>0, <1>2, TickedFields DEF Claimable
  <2>2. outbox[k].id # 0
    BY <1>0, <2>1 DEF RowsIdentified
  <2>3. QED
    BY <1>2, <2>2, FinishedAtRest DEF Tick, Undisturbed
<1>3. ASSUME NEW i \in Inst, Open(i, k[1]), run[i].day = k[2]
      PROVE  FALSE
  <2>1. k = KeyFor(i, k[1])
    BY <1>0, <1>3 DEF KeyFor
  <2>2. QED
    BY <1>0, <1>3, <2>1, OpenedRow, Delays DEF Claimable
<1>4. ASSUME NEW n \in Nat, NEW ok, outbox'[k] = ConcludedRow(outbox[k], ok, n)
      PROVE  FALSE
  <2>1. CASE Abandons(n)
    BY <1>0, <1>4, <2>1, AbandonedFields DEF ConcludedRow, FailedRow, Claimable, NoRow
  <2>2. CASE ~Abandons(n)
    BY <1>0, <1>4, <2>2, FailedFields, Delays DEF ConcludedRow, Claimable, NoRow
  <2>3. QED
    BY <2>1, <2>2
<1>5. CASE outbox'[k] = AbandonedRow(outbox[k])
  BY <1>0, <1>5, AbandonedFields DEF Claimable
<1>6. \A i \in Inst : \A d \in run[i].claimed : d.attempts \in Nat
  BY <1>0 DEF TypeOK, Execution, Claim
<1>7. QED
  BY <1>0, <1>1, <1>2, <1>3, <1>4, <1>5, <1>6, RowMoves

\* So the first sends of a day are apart from its retries.
LEMMA ApartStep ==
  ASSUME Undisturbed, Base, SubsLive, DaysSwept, RetriesApart, [Next]_vars
  PROVE  RetriesApart'
  BY RetriedRows DEF RetriesApart

\* How the day's work of a run changes.
LEMMA DayMoves ==
  ASSUME TypeOK, RunsPlaced, [Next]_vars, NEW i \in Inst
  PROVE  \/ run'[i].due \cup run'[i].fresh = {}
         \/ /\ run'[i].day = run[i].day
            /\ run'[i].due \cup run'[i].fresh \subseteq run[i].due \cup run[i].fresh
         \/ run'[i].day \in Day /\ run'[i].due = Due(run'[i].day) /\ run'[i].fresh = {}
<1>0. Placed(run[i])
  BY DEF RunsPlaced
<1>1. CASE run'[i] = run[i] \/ run'[i] = Idle
  BY <1>1 DEF Idle
<1>2. CASE Start(i)
  <2>1. PICK d \in Day :
          Fields(run'[i], "chans", d, Due(d), {}, {}, {}, {}, {}, 0, FALSE, {})
    BY <1>2, StartEffects
  <2>2. QED
    BY <2>1 DEF Fields
<1>3. CASE LoadChannels(i) \/ NextHousehold(i) \/ CloseBatch(i) \/ NextBatch(i)
  BY <1>3, LoadChannelsEffects, NextHouseholdEffects, CloseBatchEffects, NextBatchEffects
     DEF Fields
<1>4. ASSUME NEW o \in Occ, Record(i, o)
      PROVE  /\ run'[i].day = run[i].day
             /\ run'[i].due \cup run'[i].fresh \subseteq run[i].due \cup run[i].fresh
  <2>1. /\ run'[i].day = run[i].day /\ run'[i].due = run[i].due \ {o} /\ o \in run[i].due
        /\ run'[i].fresh \in {run[i].fresh, run[i].fresh \cup {o}}
    BY <1>4, JournalEffects DEF Fields, HomeDue
  <2>2. QED
    BY <2>1
<1>5. ASSUME NEW c \in Chan, SkipChannel(i, c) \/ Open(i, c) \/ OpenFails(i, c)
      PROVE  run'[i].day = run[i].day /\ run'[i].due = run[i].due /\ run'[i].fresh = run[i].fresh
  BY <1>5, SkipChannelEffects, OpenedEffects, OpenFailsEffects DEF Fields
<1>6. CASE Send(i) \/ (Note(i) \/ NoteFails(i)) \/ ClaimRetries(i) \/ ClaimFails(i)
  BY <1>6, SendEffects, NotedEffects, ClaimedEffects, ClaimFailsEffects DEF Fields
<1>7. ASSUME NEW d \in run[i].claimed,
             Resend(i, d) \/ (NoteRetry(i, d) \/ NoteRetryFails(i, d) \/ DropUnreadable(i, d))
      PROVE  run'[i].day = run[i].day /\ run'[i].due = run[i].due /\ run'[i].fresh = run[i].fresh
  BY <1>7, ResendEffects, RetriedEffects DEF Fields
<1>8. QED
  BY <1>1, <1>2, <1>3, <1>4, <1>5, <1>6, <1>7, RunMoves

\* Whatever a run or a row holds still triggers on its day.
LEMMA OnTimeStep ==
  ASSUME Lead = {DefaultLead}, TypeOK, RowsIdentified, RunsPlaced, OnTime, [Next]_vars
  PROVE  OnTime'
<1>1. ASSUME NEW d \in Day, NEW o \in Due(d)
      PROVE  o.due - d = DefaultLead
  <2>1. o \in Occ /\ o.due - d = lead[SubHome[o.sub]]
    BY DEF Due, TypeOK
  <2>2. lead[SubHome[o.sub]] \in Lead
    BY <2>1, ConstantsAssumption DEF TypeOK
  <2>3. QED
    BY <2>1, <2>2
<1>2. ASSUME NEW i \in Inst, NEW o \in run'[i].due \cup run'[i].fresh
      PROVE  o.due - run'[i].day = DefaultLead
  BY <1>1, DayMoves DEF OnTime
<1>3. ASSUME NEW k \in Chan \X Day, NEW o \in outbox'[k].batch
      PROVE  o.due - k[2] = DefaultLead
  BY BatchMoves DEF OnTime
<1>4. QED
  BY <1>2, <1>3 DEF OnTime

\* An occurrence is in the row of one day of a channel at most.
LEMMA OneRow ==
  ASSUME TypeOK, OnTime, NEW k \in Chan \X Day, NEW l \in Chan \X Day, k[1] = l[1],
         NEW o \in outbox[k].batch, o \in outbox[l].batch
  PROVE  k = l
<1>1. o.due - k[2] = DefaultLead /\ o.due - l[2] = DefaultLead
  BY DEF OnTime
<1>2. o \in Occ /\ k[2] \in Int /\ l[2] \in Int
  BY DEF TypeOK, Row, Day
<1>3. o.due \in Int
  BY <1>2, ConstantsAssumption
<1>4. k[2] = l[2]
  BY <1>1, <1>2, <1>3, ConstantsAssumption
<1>5. QED
  BY <1>4

\* With one occurrence per date, the row of the day could only hold that one.
LEMMA OpensNew ==
  ASSUME OnePerDate, Base, HomesApart, OnTime, NEW i \in Inst, NEW c \in Chan, Open(i, c)
  PROVE  outbox[KeyFor(i, c)].id = 0
<1> DEFINE k == KeyFor(i, c)
<1> SUFFICES ASSUME outbox[k].id # 0 PROVE FALSE
  OBVIOUS
<1>1. TypeOK /\ Placed(run[i]) /\ c \in run[i].queue
  BY OpenedEffects DEF Base, RunsPlaced
<1>2. PICK o \in run[i].fresh : TRUE
  BY <1>1 DEF Placed
<1>3. /\ k \in Chan \X Day /\ k[1] = c /\ k[2] = run[i].day /\ outbox[k] \in Row
      /\ k = <<c, run[i].day>> /\ run[i].day \in Day
  BY <1>1, OpenedRow DEF KeyFor, TypeOK, Execution
<1>4. PICK p \in outbox[k].batch : TRUE
  BY <1>1, <1>3 DEF Base, RowsFilled
<1>5. SubHome[p.sub] = ChanHome[c] /\ SubHome[o.sub] = ChanHome[c]
  BY <1>1, <1>2, <1>3, <1>4 DEF HomesApart, RowsAtHome, AtHome
<1>6. p.due - k[2] = DefaultLead /\ o.due - k[2] = DefaultLead
  BY <1>2, <1>3, <1>4 DEF OnTime
<1>7. p \in Occ /\ o \in Occ /\ k[2] \in Int
  BY <1>1, <1>2, <1>3, <1>4 DEF TypeOK, Row, Execution, Day
<1>8. p.due \in Int /\ o.due \in Int /\ DefaultLead \in Int
  BY <1>7, ConstantsAssumption
<1>9. p.due = o.due
  BY <1>6, <1>7, <1>8
<1>10. p = o
  BY <1>5, <1>7, <1>9 DEF OnePerDate
<1>11. Untouched(o, c)
  BY <1>1, <1>2 DEF Base, BatchesUntouched, NotYet
<1>12. o \notin outbox[k].batch
  BY <1>3, <1>11 DEF Untouched
<1>13. QED
  BY <1>4, <1>10, <1>12

\* A run that opens a row of its day finds it new, or as a first send left it.
LEMMA OpensFirst ==
  ASSUME Orderly, OrderlyInv, NEW i \in Inst, NEW c \in Chan, Open(i, c)
  PROVE  LET k == KeyFor(i, c) IN
         ~Claimable(outbox[k]) /\ (outbox[k].id # 0 => outbox[k].attempts = 1)
<1> DEFINE k == KeyFor(i, c)
<1>1. Base /\ TypeOK /\ Placed(run[i]) /\ c \in run[i].queue
  BY OpenedEffects DEF OrderlyInv, Base, RunsPlaced
<1>2. PICK o \in run[i].fresh : TRUE
  BY <1>1 DEF Placed
<1>3. k \in Chan \X Day /\ k[1] = c /\ k[2] = run[i].day /\ outbox[k] \in Row
  BY <1>1, OpenedRow DEF KeyFor
<1>4. CASE Undisturbed
  <2>0. DaysSwept /\ RetriesApart
    BY <1>4 DEF OrderlyInv
  <2>1. o \in Due(k[2])
    BY <1>2, <1>3, <2>0 DEF DaysSwept, Sweeping
  <2>2. ~Finished(k[2])
    BY <1>2, <2>1 DEF Finished
  <2>3. ~Claimable(outbox[k]) /\ ~(outbox[k].attempts > 1)
    BY <1>3, <2>0, <2>2 DEF RetriesApart
  <2>4. outbox[k].id # 0 => outbox[k].attempts > 0
    BY <1>1, <1>3 DEF Base, RowsFilled
  <2>5. outbox[k].attempts \in Nat
    BY <1>3 DEF Row
  <2>6. QED
    BY <2>3, <2>4, <2>5
<1>5. CASE OnePerDate
  BY <1>1, <1>3, <1>5, OpensNew DEF OrderlyInv, Base, RowsIdentified, Claimable
<1>6. QED
  BY <1>4, <1>5 DEF Orderly

\* The row of a first send is not due for a retry, and has one attempt.
LEMMA FirstSendsStep ==
  ASSUME Orderly, OrderlyInv, RowsIdentified', [Next]_vars
  PROVE  FirstSendsHold'
<1> SUFFICES ASSUME NEW i \in Inst, run'[i].pc \in {"send", "note"},
                    NEW k \in Chan \X Day, run'[i].id # 0, outbox'[k].id = run'[i].id
             PROVE  ~Claimable(outbox'[k]) /\ outbox'[k].attempts = 1
  <2>1. DOMAIN outbox' = Chan \X Day
    BY TypeStep DEF OrderlyInv, Base, TypeOK
  <2>2. QED
    BY <2>1 DEF OrderlyInv, FirstSendsHold, RowsOf
<1>0. /\ TypeOK /\ RowsIdentified /\ outbox[k] \in Row /\ k = <<k[1], k[2]>> /\ k[1] \in Chan
      /\ DOMAIN outbox = Chan \X Day /\ RunsPlaced
  BY DEF OrderlyInv, Base, TypeOK
<1>1. ASSUME NEW c \in Chan, Open(i, c), run'[i].id = IdFor(i, c)
      PROVE  ~Claimable(outbox'[k]) /\ outbox'[k].attempts = 1
  <2> DEFINE l == KeyFor(i, c)
  <2>1. l \in Chan \X Day /\ outbox'[l].id = run'[i].id
    BY <1>0, <1>1, OpenedRow
  <2>2. k = l
    BY <2>1 DEF RowsIdentified
  <2>3. ~Claimable(outbox[l]) /\ (outbox[l].id # 0 => outbox[l].attempts = 1)
    BY <1>1, OpensFirst
  <2>4. QED
    BY <1>0, <1>1, <2>2, <2>3, OpenedRow, Delays DEF Claimable
<1>2. CASE run[i].pc \in {"send", "note"} /\ run'[i].id = run[i].id
  <2>0. outbox[k].id = run[i].id => ~Claimable(outbox[k]) /\ outbox[k].attempts = 1
    BY <1>0, <1>2 DEF OrderlyInv, FirstSendsHold, RowsOf
  <2>1. CASE outbox'[k] = outbox[k]
    BY <1>2, <2>0, <2>1
  <2>2. CASE outbox'[k] = NoRow
    BY <2>2 DEF NoRow
  <2>3. ~Tick
    BY <1>2 DEF Tick, Orderly
  <2>4. ASSUME NEW j \in Inst, Open(j, k[1]), run[j].day = k[2]
        PROVE  ~Claimable(outbox'[k]) /\ outbox'[k].attempts = 1
    <3>1. k = KeyFor(j, k[1])
      BY <1>0, <2>4 DEF KeyFor
    <3>2. run[i].id # nextId
      BY <1>0 DEF OrderlyInv, Base, IdsIssued, TypeOK, Execution
    <3>3. QED
      BY <1>0, <1>2, <2>0, <2>4, <3>1, <3>2, OpenedRow DEF Claimable
  <2>5. ASSUME Claimable(outbox[k]), outbox'[k] = ClaimedRow(outbox[k])
        PROVE  FALSE
    BY <1>0, <1>2, <2>0, <2>5, ClaimedFields
  <2>6. ASSUME NEW ok, outbox'[k] = ConcludedRow(outbox[k], ok, 1)
        PROVE  ~Claimable(outbox'[k]) /\ outbox'[k].attempts = 1
    BY <1>0, <1>2, <2>0, <2>6, FailedFields, Delays DEF ConcludedRow, Claimable, NoRow
  <2>7. ASSUME NEW j \in Inst, NEW d \in run[j].claimed, k \in RowsOf(d.id),
               outbox[k].id = run[i].id
        PROVE  FALSE
    BY <2>0, <2>7 DEF OrderlyInv, ClaimsHold
  <2>8. ASSUME NEW n \in Nat, NEW ok,
               outbox'[k] = ConcludedRow(outbox[k], ok, n) \/ outbox'[k] = AbandonedRow(outbox[k])
        PROVE  outbox[k].id = run[i].id
    <3>1. CASE Abandons(n) \/ outbox'[k] = AbandonedRow(outbox[k])
      BY <1>0, <1>2, <2>8, <3>1, AbandonedFields DEF ConcludedRow, FailedRow, NoRow
    <3>2. CASE ~Abandons(n)
      BY <1>0, <1>2, <2>8, <3>2, AbandonedFields, FailedFields DEF ConcludedRow, NoRow
    <3>3. QED
      BY <3>1, <3>2
  <2>9. \A j \in Inst : \A d \in run[j].claimed : d.attempts \in Nat
    BY <1>0 DEF TypeOK, Execution, Claim
  <2>10. QED
    BY <1>0, <2>1, <2>2, <2>3, <2>4, <2>5, <2>6, <2>7, <2>8, <2>9, RowMoves
<1>3. QED
  BY <1>0, <1>1, <1>2, SendingMoves

\* A claimed row is not due again, and carries the number, the channel and the batch of
\* its claim.
LEMMA ClaimsStep ==
  ASSUME Orderly, OrderlyInv, RowsIdentified', [Next]_vars
  PROVE  ClaimsHold'
<1> SUFFICES ASSUME NEW i \in Inst, NEW e \in run'[i].claimed
             PROVE  /\ e.attempts > 1
                    /\ \A k \in Chan \X Day : e.id # 0 /\ outbox'[k].id = e.id =>
                         /\ ~Claimable(outbox'[k]) /\ outbox'[k].attempts = e.attempts
                         /\ k[1] = e.chan /\ outbox'[k].batch = e.batch
  <2>1. DOMAIN outbox' = Chan \X Day
    BY TypeStep DEF OrderlyInv, Base, TypeOK
  <2>2. QED
    BY <2>1 DEF OrderlyInv, ClaimsHold, RowsOf
<1>0. /\ TypeOK /\ RowsIdentified /\ DOMAIN outbox = Chan \X Day /\ RunsPlaced
      /\ \A j \in Inst : \A d \in run[j].claimed : d.attempts \in Nat
  BY DEF OrderlyInv, Base, TypeOK, Execution, Claim
<1>1. CASE e \in run[i].claimed
  <2>1. e.attempts > 1 /\ e.attempts \in Nat
    BY <1>0, <1>1 DEF OrderlyInv, ClaimsHold
  <2>2. ASSUME NEW k \in Chan \X Day, e.id # 0, outbox'[k].id = e.id
        PROVE  /\ ~Claimable(outbox'[k]) /\ outbox'[k].attempts = e.attempts
               /\ k[1] = e.chan /\ outbox'[k].batch = e.batch
    <3>0. outbox[k] \in Row /\ k = <<k[1], k[2]>> /\ k[1] \in Chan
      BY <1>0 DEF TypeOK
    <3>1. outbox[k].id = e.id =>
            /\ ~Claimable(outbox[k]) /\ outbox[k].attempts = e.attempts
            /\ k[1] = e.chan /\ outbox[k].batch = e.batch
      BY <1>0, <1>1, <2>2 DEF OrderlyInv, ClaimsHold, RowsOf
    <3>2. CASE outbox'[k] = outbox[k]
      BY <2>2, <3>1, <3>2
    <3>3. CASE outbox'[k] = NoRow
      BY <2>2, <3>3 DEF NoRow
    <3>4. ~Tick
      BY <1>0, <1>1 DEF Tick, Orderly, RunsPlaced, Placed
    <3>5. ASSUME NEW j \in Inst, Open(j, k[1]), run[j].day = k[2]
          PROVE  FALSE
      <4>1. k = KeyFor(j, k[1])
        BY <3>0, <3>5 DEF KeyFor
      <4>2. e.id < nextId
        BY <1>0, <1>1 DEF RowsIdentified
      <4>3. e.id # nextId
        BY <1>0, <1>1, <4>2 DEF TypeOK, Execution, Claim
      <4>4. outbox[k].id = e.id
        BY <1>0, <2>2, <3>0, <3>5, <4>1, <4>3, OpenedRow
      <4>5. outbox[k].attempts = 1
        BY <2>2, <3>0, <3>5, <4>1, <4>4, OpensFirst
      <4>6. QED
        BY <2>1, <3>1, <4>4, <4>5
    <3>6. ASSUME Claimable(outbox[k]), outbox'[k] = ClaimedRow(outbox[k])
          PROVE  FALSE
      BY <2>2, <3>0, <3>1, <3>6, ClaimedFields
    <3>7. ASSUME NEW j \in Inst, Note(j), k \in RowsOf(run[j].id),
                 outbox'[k] = ConcludedRow(outbox[k], run[j].ok, 1)
          PROVE  FALSE
      <4>1. outbox[k].id = e.id
        BY <2>2, <3>0, <3>7, FailedFields, Delays DEF ConcludedRow, NoRow
      <4>2. outbox[k].attempts = 1
        BY <3>7 DEF OrderlyInv, FirstSendsHold, Note
      <4>3. QED
        BY <2>1, <3>1, <4>1, <4>2
    <3>8. ASSUME NEW n \in Nat, NEW ok, outbox'[k] = ConcludedRow(outbox[k], ok, n)
          PROVE  /\ ~Claimable(outbox'[k]) /\ outbox'[k].attempts = e.attempts
                 /\ k[1] = e.chan /\ outbox'[k].batch = e.batch
      <4>1. CASE Abandons(n)
        BY <2>2, <3>0, <3>1, <3>8, <4>1, AbandonedFields
           DEF ConcludedRow, FailedRow, Claimable, NoRow
      <4>2. CASE ~Abandons(n)
        BY <2>2, <3>0, <3>1, <3>8, <4>2, FailedFields, Delays DEF ConcludedRow, Claimable, NoRow
      <4>3. QED
        BY <4>1, <4>2
    <3>9. CASE outbox'[k] = AbandonedRow(outbox[k])
      BY <2>2, <3>0, <3>1, <3>9, AbandonedFields DEF Claimable
    <3>10. QED
      BY <1>0, <3>2, <3>3, <3>4, <3>5, <3>6, <3>7, <3>8, <3>9, RowMoves
  <2>3. QED
    BY <2>1, <2>2
<1>2. ASSUME ClaimRetries(i), NEW l \in Chan \X Day, Claimable(outbox[l]), e = ClaimOf(l)
      PROVE  /\ e.attempts > 1
             /\ \A k \in Chan \X Day : e.id # 0 /\ outbox'[k].id = e.id =>
                  /\ ~Claimable(outbox'[k]) /\ outbox'[k].attempts = e.attempts
                  /\ k[1] = e.chan /\ outbox'[k].batch = e.batch
  <2>1. /\ outbox[l] \in Row /\ outbox[l].attempts \in Nat /\ outbox[l].id # 0
        /\ outbox'[l] = ClaimedRow(outbox[l])
    BY <1>0, <1>2, ClaimedEffects DEF TypeOK, Row, RowsIdentified, Claimable
  <2>2. outbox[l].attempts > 0
    BY <2>1 DEF OrderlyInv, Base, RowsFilled
  <2>3. /\ e.attempts = outbox[l].attempts + 1 /\ e.id = outbox[l].id /\ e.chan = l[1]
        /\ e.batch = outbox[l].batch
    BY <1>2 DEF ClaimOf
  <2>4. /\ outbox'[l].id = e.id /\ outbox'[l].attempts = e.attempts /\ outbox'[l].batch = e.batch
        /\ outbox'[l].wait > 0
    BY <2>1, <2>3, ClaimedFields, Delays
  <2>5. ~Claimable(outbox'[l])
    BY <2>4 DEF Claimable
  <2>6. \A k \in Chan \X Day : e.id # 0 /\ outbox'[k].id = e.id => k = l
    BY <2>4 DEF RowsIdentified
  <2>7. QED
    BY <2>1, <2>2, <2>3, <2>4, <2>5, <2>6
<1>3. QED
  BY <1>0, <1>1, <1>2, ClaimMoves

\* So no two claims are of one delivery.
LEMMA ExclusiveStep ==
  ASSUME TypeOK, RowsIdentified, ClaimsHold, ClaimExclusive, [Next]_vars
  PROVE  ClaimExclusive'
<1> SUFFICES ASSUME NEW i \in Inst, NEW j \in Inst, i # j,
                    NEW d \in run'[i].claimed, NEW e \in run'[j].claimed, d.id = e.id
             PROVE  FALSE
  BY DEF ClaimExclusive
<1>1. CASE d \in run[i].claimed /\ e \in run[j].claimed
  BY <1>1 DEF ClaimExclusive
<1>2. ASSUME NEW l \in Inst, NEW f \in run[l].claimed, NEW k \in Chan \X Day,
             Claimable(outbox[k]), outbox[k].id = f.id
      PROVE  FALSE
  <2>1. f.id # 0 /\ DOMAIN outbox = Chan \X Day
    BY DEF RowsIdentified, TypeOK
  <2>2. QED
    BY <1>2, <2>1 DEF OrderlyInv, ClaimsHold, RowsOf
<1>3. ASSUME NEW l \in Inst, NEW f, NEW k \in Chan \X Day, Claimable(outbox[k]), f = ClaimOf(k)
      PROVE  f.id = outbox[k].id
  BY <1>3 DEF ClaimOf
<1>4. ~(ClaimRetries(i) /\ e \notin run[j].claimed) /\ ~(ClaimRetries(j) /\ d \notin run[i].claimed)
  BY ClaimedEffects DEF Others
<1>5. QED
  BY <1>1, <1>2, <1>3, <1>4, ClaimMoves

\* The invariant of an orderly deployment holds at first.
LEMMA OrderlyInit == ASSUME Init PROVE OrderlyInv
<1>1. \A i \in Inst : run[i] = Idle
  BY DEF Init
<1>2. \A k \in Chan \X Day : outbox[k] = NoRow
  BY DEF Init
<1>3. SubsLive
  BY ConstantsAssumption DEF Init, SubsLive
<1>4. DaysSwept
  BY <1>1, <1>2 DEF DaysSwept, Sweeping, Idle, NoRow, Init
<1>5. RetriesApart /\ OnTime
  BY <1>1, <1>2 DEF RetriesApart, OnTime, Claimable, Idle, NoRow
<1>6. FirstSendsHold /\ ClaimsHold /\ ClaimExclusive
  BY <1>1 DEF FirstSendsHold, ClaimsHold, ClaimExclusive, Idle
<1>7. QED
  BY <1>3, <1>4, <1>5, <1>6, BaseInit DEF OrderlyInv

\* Every step keeps it.
LEMMA OrderlyStep ==
  ASSUME Orderly, OrderlyInv, [Next]_vars
  PROVE  OrderlyInv'
<1>1. /\ Base /\ TypeOK /\ RowsIdentified /\ RunsPlaced /\ TypeOK' /\ RowsIdentified'
      /\ Base' /\ HomesApart'
  BY HomesNext DEF Base, OrderlyInv
<1>2. Undisturbed => SubsLive' /\ DaysSwept' /\ RetriesApart'
  BY <1>1, SubsLiveStep, SweptStep, ApartStep DEF OrderlyInv
<1>3. OnTime'
  BY <1>1, OnTimeStep DEF Orderly, OrderlyInv
<1>4. FirstSendsHold' /\ ClaimsHold' /\ ClaimExclusive'
  BY <1>1, FirstSendsStep, ClaimsStep, ExclusiveStep DEF OrderlyInv
<1>5. QED
  BY <1>1, <1>2, <1>3, <1>4 DEF OrderlyInv

-----------------------------------------------------------------------------
(* The pace of the retries and their number. *)

\* What is left until a delivery is due covers what is left of its quiet time.
PaceKept ==
  \A k \in Chan \X Day :
    /\ outbox[k].status = "pending" => outbox[k].quiet <= outbox[k].wait
    /\ outbox[k].attempts > 0 /\ ~Abandons(outbox[k].attempts) =>
         outbox[k].quiet <= RetryDelay(outbox[k].attempts)

\* The last attempt of a delivery belongs to a run until it is concluded.
LastAttemptHeld ==
  \A k \in Chan \X Day :
    /\ outbox[k].attempts <= MaxAttempts
    /\ outbox[k].status = "pending" /\ outbox[k].attempts = MaxAttempts =>
         \E i \in Inst : \E e \in run[i].claimed : e.id = outbox[k].id

\* No delay of the policy is longer than the longest.
LEMMA LongestDelay == \A n \in Nat : ~Abandons(n) => RetryDelay(n) <= MaxDelay
<1> SUFFICES ASSUME NEW n \in Nat, ~Abandons(n) PROVE RetryDelay(n) <= MaxDelay
  OBVIOUS
<1> DEFINE m == IF n = 0 THEN 1 ELSE n
<1>1. m \in 1..(MaxAttempts - 1) /\ MaxAttempts - 1 \in 1..(MaxAttempts - 1)
  BY PolicyAssumption DEF Abandons
<1>2. Delay[m] \in Nat /\ Delay[MaxAttempts - 1] \in Nat
  BY <1>1, PolicyAssumption
<1>3. m = MaxAttempts - 1 \/ m < MaxAttempts - 1
  BY <1>1, PolicyAssumption
<1>4. Delay[m] <= Delay[MaxAttempts - 1]
  BY <1>1, <1>2, <1>3, PolicyAssumption
<1>5. QED
  BY <1>4 DEF RetryDelay, MaxDelay

\* The row a first send or a claim concludes has counted that attempt and no other.
LEMMA ConcludedAttempts ==
  ASSUME OrderlyInv, NEW k \in Chan \X Day, NEW i \in Inst
  PROVE  /\ Note(i) /\ k \in RowsOf(run[i].id) => outbox[k].attempts = 1
         /\ \A d \in run[i].claimed : k \in RowsOf(d.id) => outbox[k].attempts = d.attempts
  BY DEF OrderlyInv, FirstSendsHold, ClaimsHold, Note

\* A step keeps the retries at their pace.
LEMMA PaceStep ==
  ASSUME Orderly, OrderlyInv, PaceKept, [Next]_vars
  PROVE  PaceKept'
<1> SUFFICES ASSUME NEW k \in Chan \X Day
             PROVE  /\ outbox'[k].status = "pending" => outbox'[k].quiet <= outbox'[k].wait
                    /\ outbox'[k].attempts > 0 /\ ~Abandons(outbox'[k].attempts) =>
                         outbox'[k].quiet <= RetryDelay(outbox'[k].attempts)
  BY DEF PaceKept, Abandons, RetryDelay
<1>0. /\ TypeOK /\ outbox[k] \in Row /\ k = <<k[1], k[2]>> /\ k[1] \in Chan
      /\ outbox[k].attempts \in Nat /\ outbox[k].quiet \in Nat /\ outbox[k].wait \in Nat
  BY DEF OrderlyInv, Base, TypeOK, Row
<1>1. /\ outbox[k].status = "pending" => outbox[k].quiet <= outbox[k].wait
      /\ outbox[k].attempts > 0 /\ ~Abandons(outbox[k].attempts) =>
           outbox[k].quiet <= RetryDelay(outbox[k].attempts)
  BY DEF PaceKept
<1>2. /\ MaxDelay \in Nat /\ ~Abandons(1)
      /\ \A n \in Nat : ~Abandons(n) => RetryDelay(n) \in Nat /\ RetryDelay(n) <= MaxDelay
  BY DelayType, Delays, LongestDelay
<1>3. CASE outbox'[k] = outbox[k]
  BY <1>1, <1>3
<1>4. CASE outbox'[k] = NoRow
  BY <1>4 DEF NoRow
<1>5. CASE outbox'[k] = TickedRow(outbox[k])
  <2>1. /\ outbox'[k].status = outbox[k].status /\ outbox'[k].attempts = outbox[k].attempts
        /\ outbox'[k].quiet = Less(outbox[k].quiet) /\ outbox'[k].wait = Less(outbox[k].wait)
    BY <1>0, <1>5, TickedFields
  <2>2. outbox[k].quiet <= outbox[k].wait => outbox'[k].quiet <= outbox'[k].wait
    BY <1>0, <2>1 DEF Less
  <2>3. outbox'[k].quiet <= outbox[k].quiet /\ outbox'[k].quiet \in Nat
    BY <1>0, <2>1 DEF Less
  <2>4. QED
    BY <1>0, <1>1, <1>2, <2>1, <2>2, <2>3
<1>6. ASSUME NEW i \in Inst, Open(i, k[1]), run[i].day = k[2]
      PROVE  /\ outbox'[k].status = "pending" => outbox'[k].quiet <= outbox'[k].wait
             /\ outbox'[k].attempts > 0 /\ ~Abandons(outbox'[k].attempts) =>
                  outbox'[k].quiet <= RetryDelay(outbox'[k].attempts)
  <2>1. k = KeyFor(i, k[1])
    BY <1>0, <1>6 DEF KeyFor
  <2>2. QED
    BY <1>0, <1>1, <1>2, <1>6, <2>1, OpenedRow
<1>7. CASE outbox'[k] = ClaimedRow(outbox[k])
  <2>1. /\ outbox'[k].wait = MaxDelay /\ outbox'[k].attempts = outbox[k].attempts + 1
        /\ Abandons(outbox'[k].attempts) => outbox'[k].quiet = MaxDelay
        /\ ~Abandons(outbox'[k].attempts) => outbox'[k].quiet = RetryDelay(outbox'[k].attempts)
    BY <1>0, <1>7, ClaimedFields
  <2>2. outbox'[k].attempts \in Nat
    BY <1>0, <2>1
  <2>3. QED
    BY <1>2, <2>1, <2>2
<1>8. ASSUME NEW n \in Nat, NEW ok, outbox[k].attempts = n,
             outbox'[k] = ConcludedRow(outbox[k], ok, n)
      PROVE  /\ outbox'[k].status = "pending" => outbox'[k].quiet <= outbox'[k].wait
             /\ outbox'[k].attempts > 0 /\ ~Abandons(outbox'[k].attempts) =>
                  outbox'[k].quiet <= RetryDelay(outbox'[k].attempts)
  <2>1. CASE Abandons(n)
    <3>1. outbox'[k] = NoRow \/ (outbox'[k].status = "abandoned" /\ outbox'[k].attempts = n)
      BY <1>0, <1>8, <2>1, AbandonedFields DEF ConcludedRow, FailedRow
    <3>2. QED
      BY <1>4, <2>1, <3>1
  <2>2. CASE ~Abandons(n)
    <3>1. \/ outbox'[k] = NoRow
          \/ /\ outbox'[k].wait = RetryDelay(n) /\ outbox'[k].quiet = outbox[k].quiet
             /\ outbox'[k].attempts = n
      BY <1>0, <1>8, <2>2, FailedFields DEF ConcludedRow
    <3>2. CASE outbox'[k] = NoRow
      BY <1>4, <3>2
    <3>3. CASE outbox'[k] # NoRow
      <4>1. n = 0 \/ n > 0
        BY <1>8
      <4>2. outbox[k].attempts > 0 \/ outbox[k].id = 0
        BY DEF OrderlyInv, Base, RowsFilled
      <4>3. outbox[k].id = 0 => outbox[k].status = "none"
        BY DEF OrderlyInv, Base, RowsIdentified
      <4>4. outbox[k].id = 0 => outbox'[k].status = "none"
        BY <1>0, <1>8, <2>2, <3>3, <4>3, FailedFields DEF ConcludedRow
      <4>5. QED
        BY <1>1, <1>8, <2>2, <3>1, <3>3, <4>2, <4>4
    <3>4. QED
      BY <3>2, <3>3
  <2>3. QED
    BY <2>1, <2>2
<1>9. CASE outbox'[k] = AbandonedRow(outbox[k])
  BY <1>0, <1>2, <1>9, AbandonedFields
<1>10. ASSUME NEW i \in Inst, Note(i), k \in RowsOf(run[i].id),
              outbox'[k] = ConcludedRow(outbox[k], run[i].ok, 1)
       PROVE  /\ outbox'[k].status = "pending" => outbox'[k].quiet <= outbox'[k].wait
              /\ outbox'[k].attempts > 0 /\ ~Abandons(outbox'[k].attempts) =>
                   outbox'[k].quiet <= RetryDelay(outbox'[k].attempts)
  BY <1>8, <1>10, ConcludedAttempts
<1>11. ASSUME NEW i \in Inst, NEW d \in run[i].claimed, k \in RowsOf(d.id),
              outbox'[k] = ConcludedRow(outbox[k], run[i].ok, d.attempts)
       PROVE  /\ outbox'[k].status = "pending" => outbox'[k].quiet <= outbox'[k].wait
              /\ outbox'[k].attempts > 0 /\ ~Abandons(outbox'[k].attempts) =>
                   outbox'[k].quiet <= RetryDelay(outbox'[k].attempts)
  BY <1>0, <1>8, <1>11, ConcludedAttempts
<1>12. QED
  BY <1>0, <1>3, <1>4, <1>5, <1>6, <1>7, <1>9, <1>10, <1>11, RowMoves

\* With runs that end before a retry is due, the delay after an attempt is kept,
\* also by a delivery whose run died before it was concluded.
THEOREM PaceHolds == ASSUME Orderly PROVE Spec => []RetryPace
<1>1. Init => OrderlyInv /\ PaceKept
  BY OrderlyInit DEF Init, PaceKept, NoRow
<1>2. OrderlyInv /\ PaceKept /\ [Next]_vars => OrderlyInv' /\ PaceKept'
  BY OrderlyStep, PaceStep
<1>3. OrderlyInv /\ PaceKept => RetryPace
  <2> SUFFICES ASSUME OrderlyInv, PaceKept, NEW k \in Chan \X Day, Claimable(outbox[k])
               PROVE  outbox[k].quiet = 0
    BY DEF RetryPace
  <2>1. outbox[k].quiet \in Nat /\ outbox[k].quiet <= 0
    BY DEF OrderlyInv, Base, TypeOK, Row, PaceKept, Claimable
  <2>2. QED
    BY <2>1
<1>4. QED
  BY <1>1, <1>2, <1>3, PTL DEF Spec

-----------------------------------------------------------------------------
\* A claim goes when its run concludes it, or is cut.
LEMMA ClaimStays ==
  ASSUME TypeOK, RunsPlaced, ~DbFails, [Next]_vars, NEW i \in Inst,
         NEW e \in run[i].claimed, e \notin run'[i].claimed
  PROVE  \/ NoteRetry(i, e) \/ DropUnreadable(i, e)
         \/ run[i].pc \in CrashAt \cap {"retry", "renote"}
<1>1. run[i].pc \in {"retry", "renote"} /\ Placed(run[i])
  BY DEF RunsPlaced, Placed
<1>2. CASE Start(i) \/ Step(i) \/ Crash(i)
  <2>1. ~Start(i) /\ ~LoadChannels(i) /\ ~NextHousehold(i) /\ ~CloseBatch(i)
    BY <1>1, StartEffects, LoadChannelsEffects, NextHouseholdEffects, CloseBatchEffects
  <2>2. ~NextBatch(i) /\ ~Send(i) /\ ~(Note(i) \/ NoteFails(i)) /\ ~ClaimRetries(i) /\ ~ClaimFails(i)
    BY <1>1, NextBatchEffects, SendEffects, NotedEffects, ClaimedEffects, ClaimFailsEffects
  <2>3. ASSUME NEW o \in Occ, Record(i, o) PROVE FALSE
    BY <1>1, <2>3, JournalEffects
  <2>4. ASSUME NEW c \in Chan, SkipChannel(i, c) \/ Open(i, c) \/ OpenFails(i, c) PROVE FALSE
    BY <1>1, <2>4, SkipChannelEffects, OpenedEffects, OpenFailsEffects
  <2>5. ASSUME NEW d \in run[i].claimed, Resend(i, d) PROVE FALSE
    BY <1>1, <2>5, ResendEffects DEF Fields
  <2>6. ASSUME NEW d \in run[i].claimed,
               NoteRetry(i, d) \/ NoteRetryFails(i, d) \/ DropUnreadable(i, d)
        PROVE  NoteRetry(i, e) \/ DropUnreadable(i, e)
    <3>1. run'[i].claimed = run[i].claimed \ {d}
      BY <2>6, RetriedEffects DEF Fields
    <3>2. d = e
      BY <3>1
    <3>3. QED
      BY <2>6, <3>2 DEF NoteRetryFails
  <2>7. ~Purge(i)
    BY PurgeEffects
  <2>8. LoadFails(i) \/ Crash(i) \/ (\E o \in Occ : RecordFails(i, o)) => run[i].pc \in CrashAt
    BY <1>1, CutEffects
  <2>9. QED
    BY <1>1, <1>2, <2>1, <2>2, <2>3, <2>4, <2>5, <2>6, <2>7, <2>8, FewSteps
<1>3. ASSUME NEW j \in Inst \ {i}, Start(j) \/ Step(j) \/ Crash(j)
      PROVE  FALSE
  BY <1>3, OthersStand DEF Others
<1>4. ~(Environment \/ UNCHANGED vars)
  BY EnvironmentEffects DEF vars
<1>5. QED
  BY <1>2, <1>3, <1>4 DEF Next

\* The last attempt is held by a run until its end is recorded.
LEMMA LastAttemptStep ==
  ASSUME Orderly, ~DbFails, CrashAt \cap {"retry", "renote"} = {},
         OrderlyInv, LastAttemptHeld, [Next]_vars
  PROVE  LastAttemptHeld'
<1> SUFFICES ASSUME NEW k \in Chan \X Day
             PROVE  /\ outbox'[k].attempts <= MaxAttempts
                    /\ outbox'[k].status = "pending" /\ outbox'[k].attempts = MaxAttempts =>
                         \E i \in Inst : \E e \in run'[i].claimed : e.id = outbox'[k].id
  BY DEF LastAttemptHeld
<1>0. /\ TypeOK /\ RunsPlaced /\ outbox[k] \in Row /\ k = <<k[1], k[2]>> /\ k[1] \in Chan
      /\ outbox[k].attempts \in Nat /\ MaxAttempts \in Nat /\ MaxAttempts > 1
      /\ DOMAIN outbox = Chan \X Day
  BY PolicyAssumption DEF OrderlyInv, Base, TypeOK, Row
<1>1. outbox[k].attempts <= MaxAttempts
  BY DEF LastAttemptHeld
\* Whoever holds the last attempt keeps it, as long as the row is pending.
<1>2. ASSUME outbox[k].status = "pending", outbox[k].attempts = MaxAttempts,
             outbox'[k].status = "pending"
      PROVE  \E i \in Inst : \E e \in run'[i].claimed : e.id = outbox[k].id
  <2>1. PICK i \in Inst : \E e \in run[i].claimed : e.id = outbox[k].id
    BY <1>2 DEF LastAttemptHeld
  <2>2. PICK e \in run[i].claimed : e.id = outbox[k].id
    BY <2>1
  <2>3. outbox[k].id # 0 /\ k \in RowsOf(e.id)
    BY <1>0, <1>2, <2>2 DEF OrderlyInv, Base, RowsIdentified, RowsOf
  <2>4. e.attempts = MaxAttempts
    BY <1>2, <2>3, ConcludedAttempts
  <2>5. Abandons(e.attempts)
    BY <1>0, <2>4 DEF Abandons
  <2>6. ASSUME NoteRetry(i, e) \/ DropUnreadable(i, e)
        PROVE  FALSE
    <3>1. outbox'[k] \in {ConcludedRow(outbox[k], run[i].ok, e.attempts), AbandonedRow(outbox[k]), outbox[k]}
          /\ (outbox'[k] = outbox[k] => outbox'[k] \in {ConcludedRow(outbox[k], run[i].ok, e.attempts), AbandonedRow(outbox[k])})
      BY <1>0, <2>3, <2>6 DEF NoteRetry, DropUnreadable, Conclude, Abandon
    <3>2. outbox'[k] \in {NoRow, AbandonedRow(outbox[k])}
      BY <2>5, <3>1 DEF ConcludedRow, FailedRow
    <3>3. QED
      BY <1>0, <1>2, <3>2, AbandonedFields DEF NoRow
  <2>7. e \in run'[i].claimed
    BY <1>0, <2>6, ClaimStays
  <2>8. QED
    BY <2>2, <2>7
<1>3. CASE outbox'[k] = outbox[k]
  BY <1>1, <1>2, <1>3
<1>4. CASE outbox'[k] = NoRow
  BY <1>0, <1>4 DEF NoRow
<1>5. CASE outbox'[k] = TickedRow(outbox[k])
  BY <1>0, <1>1, <1>2, <1>5, TickedFields
<1>6. ASSUME NEW i \in Inst, Open(i, k[1]), run[i].day = k[2]
      PROVE  outbox'[k].attempts = 1
  <2>1. k = KeyFor(i, k[1])
    BY <1>0, <1>6 DEF KeyFor
  <2>2. QED
    BY <1>0, <1>6, <2>1, OpenedRow, OpensFirst
<1>7. ASSUME NEW i \in Inst, ClaimRetries(i), Claimable(outbox[k]),
             outbox'[k] = ClaimedRow(outbox[k])
      PROVE  /\ outbox'[k].attempts <= MaxAttempts
             /\ \E e \in run'[i].claimed : e.id = outbox'[k].id
  <2>1. outbox'[k].attempts = outbox[k].attempts + 1 /\ outbox'[k].id = outbox[k].id
    BY <1>0, <1>7, ClaimedFields
  <2>2. outbox[k].attempts # MaxAttempts
    <3>1. ASSUME NEW j \in Inst, NEW e \in run[j].claimed, e.id = outbox[k].id
          PROVE  FALSE
      <4>1. k \in RowsOf(e.id)
        BY <1>0, <1>7, <3>1 DEF OrderlyInv, Base, RowsIdentified, RowsOf, Claimable
      <4>2. QED
        BY <1>7, <4>1 DEF OrderlyInv, ClaimsHold
    <3>2. QED
      BY <1>7, <3>1 DEF LastAttemptHeld, Claimable
  <2>3. ClaimOf(k) \in run'[i].claimed
    <3>1. run'[i].claimed = {ClaimOf(l) : l \in {m \in Chan \X Day : Claimable(outbox[m])}}
      BY <1>0, <1>7, ClaimedEffects DEF Fields
    <3>2. QED
      BY <1>7, <3>1
  <2>4. ClaimOf(k).id = outbox'[k].id
    BY <2>1 DEF ClaimOf
  <2>5. outbox'[k].attempts <= MaxAttempts
    BY <1>0, <1>1, <2>1, <2>2
  <2>6. QED
    BY <2>3, <2>4, <2>5
<1>8. ASSUME NEW n \in Nat, NEW ok,
             outbox'[k] = ConcludedRow(outbox[k], ok, n) \/ outbox'[k] = AbandonedRow(outbox[k])
      PROVE  /\ outbox'[k].attempts <= MaxAttempts
             /\ outbox'[k].status = "pending" /\ outbox'[k].attempts = MaxAttempts =>
                  \E i \in Inst : \E e \in run'[i].claimed : e.id = outbox'[k].id
  <2>1. \/ outbox'[k] = NoRow
        \/ outbox'[k].status = "abandoned" /\ outbox'[k].attempts = outbox[k].attempts
        \/ /\ outbox'[k].status = outbox[k].status /\ outbox'[k].attempts = outbox[k].attempts
           /\ outbox'[k].id = outbox[k].id
    <3>1. CASE Abandons(n) \/ outbox'[k] = AbandonedRow(outbox[k])
      BY <1>0, <1>8, <3>1, AbandonedFields DEF ConcludedRow, FailedRow
    <3>2. CASE ~Abandons(n)
      BY <1>0, <1>8, <3>2, AbandonedFields, FailedFields DEF ConcludedRow
    <3>3. QED
      BY <3>1, <3>2
  <2>2. CASE outbox'[k] = NoRow
    BY <1>4, <2>2
  <2>3. CASE outbox'[k].status = "abandoned" /\ outbox'[k].attempts = outbox[k].attempts
    BY <1>1, <2>3
  <2>4. CASE /\ outbox'[k].status = outbox[k].status /\ outbox'[k].attempts = outbox[k].attempts
             /\ outbox'[k].id = outbox[k].id
    BY <1>1, <1>2, <2>4
  <2>5. QED
    BY <2>1, <2>2, <2>3, <2>4
<1>9. \A i \in Inst : \A d \in run[i].claimed : d.attempts \in Nat
  BY <1>0 DEF TypeOK, Execution, Claim
<1> DEFINE Held == /\ outbox'[k].attempts <= MaxAttempts
                   /\ outbox'[k].status = "pending" /\ outbox'[k].attempts = MaxAttempts =>
                        \E i \in Inst : \E e \in run'[i].claimed : e.id = outbox'[k].id
<1>10. (\E i \in Inst : Open(i, k[1]) /\ run[i].day = k[2]) => Held
  <2>1. outbox'[k].attempts = 1 => Held
    BY <1>0
  <2>2. QED
    BY <1>6, <2>1
<1>11. (\E i \in Inst : ClaimRetries(i) /\ Claimable(outbox[k]) /\ outbox'[k] = ClaimedRow(outbox[k]))
         => Held
  BY <1>7
<1>12. \A n \in Nat : \A ok :
         outbox'[k] = ConcludedRow(outbox[k], ok, n) \/ outbox'[k] = AbandonedRow(outbox[k]) => Held
  BY <1>8
<1>13. Held
  <2>1. outbox'[k] = outbox[k] \/ outbox'[k] = TickedRow(outbox[k]) \/ outbox'[k] = NoRow => Held
    BY <1>3, <1>4, <1>5
  <2> HIDE DEF Held
  <2>2. QED
    BY <1>0, <1>9, <1>10, <1>11, <1>12, <2>1, RowMoves
<1>14. QED
  BY <1>13

\* With runs that are not cut while they retry, no delivery is attempted more than
\* MAX_DELIVERY_ATTEMPTS times, however many instances retry.
THEOREM AttemptsAreBounded ==
  ASSUME Orderly, ~DbFails, CrashAt \cap {"retry", "renote"} = {}
  PROVE  Spec => []AttemptsBounded
<1>1. Init => OrderlyInv /\ LastAttemptHeld
  BY OrderlyInit, PolicyAssumption DEF Init, LastAttemptHeld, NoRow
<1>2. OrderlyInv /\ LastAttemptHeld /\ [Next]_vars => OrderlyInv' /\ LastAttemptHeld'
  BY OrderlyStep, LastAttemptStep
<1>3. LastAttemptHeld => AttemptsBounded
  BY DEF LastAttemptHeld, AttemptsBounded
<1>4. QED
  BY <1>1, <1>2, <1>3, PTL DEF Spec

-----------------------------------------------------------------------------
(* At most one delivery. *)

\* What a run is about to send was not received; no claim carries it to that channel.
SendsFirst ==
  \A i \in Inst : \A o \in run[i].fresh, c \in run[i].cur :
    /\ run[i].pc = "send" => received[<<o, c>>] = 0
    /\ run[i].pc \in {"send", "note"} =>
         \A j \in Inst : \A e \in run[j].claimed : e.chan = c => o \notin e.batch

\* What a claim is about to send was not received, and waits nowhere else.
RetriesFirst ==
  \A i \in Inst : \A e \in run[i].claimed : \A o \in e.batch :
    /\ run[i].pc = "retry" \/ run[i].id # e.id => received[<<o, e.chan>>] = 0
    /\ \A k \in Chan \X Day : k[1] = e.chan /\ o \in outbox[k].batch => outbox[k].id = e.id
    /\ \A j \in Inst : \A f \in run[j].claimed :
         f.chan = e.chan /\ o \in f.batch => f.id = e.id

\* A row whose batch was received is about to be removed by the run that sent it.
SuccessNoted ==
  \A k \in Chan \X Day : \A o \in outbox[k].batch :
    received[<<o, k[1]>>] > 0 =>
      \E i \in Inst : /\ run[i].pc \in {"note", "renote"} /\ run[i].ok
                      /\ run[i].id = outbox[k].id

\* Sends report what happened, and what they report is noted.
Reported == ~DbFails /\ ~AckLost /\ CrashAt \cap {"note", "renote"} = {}

OnceInv ==
  OrderlyInv /\ SendsFirst /\ RetriesFirst /\ SuccessNoted /\ AtMostOneDelivery

\* A pair grows with a send that reports success.
LEMMA ReceivedReported ==
  ASSUME Reported, TypeOK, [Next]_vars, NEW p \in Occ \X Chan, received'[p] # received[p]
  PROVE  /\ received[p] \in Nat /\ received'[p] = received[p] + 1
         /\ \E i \in Inst :
              \/ /\ Send(i) /\ p[1] \in run[i].fresh /\ p[2] \in run[i].cur
                 /\ run'[i].pc = "note" /\ run'[i].ok /\ run'[i].id = run[i].id
              \/ \E d \in run[i].claimed :
                   /\ Resend(i, d) /\ p[1] \in d.batch /\ p[2] = d.chan
                   /\ run'[i].pc = "renote" /\ run'[i].ok /\ run'[i].id = d.id
<1>1. ASSUME NEW i \in Inst, Send(i)
      PROVE  run'[i].pc = "note" /\ run'[i].ok /\ run'[i].id = run[i].id
  <2>1. PICK c \in run[i].cur, got \in BOOLEAN, ok \in BOOLEAN :
          /\ ok => got
          /\ got /\ ~ok => AckLost
          /\ IF got THEN Receive(run[i].fresh, c) ELSE UNCHANGED history
          /\ run'[i].pc = "note" /\ run'[i].ok = ok /\ run'[i].id = run[i].id
    BY <1>1, SendEffects DEF Fields
  <2>2. got
    BY <2>1 DEF history
  <2>3. QED
    BY <2>1, <2>2 DEF Reported
<1>2. ASSUME NEW i \in Inst, NEW d \in run[i].claimed, Resend(i, d)
      PROVE  run'[i].pc = "renote" /\ run'[i].ok /\ run'[i].id = d.id
  <2>1. PICK got \in BOOLEAN, ok \in BOOLEAN :
          /\ ok => got
          /\ got /\ ~ok => AckLost
          /\ IF got THEN Receive(d.batch, d.chan) ELSE UNCHANGED history
          /\ run'[i].pc = "renote" /\ run'[i].ok = ok /\ run'[i].id = d.id
    BY <1>2, ResendEffects DEF Fields
  <2>2. got
    BY <2>1 DEF history
  <2>3. QED
    BY <2>1, <2>2 DEF Reported
<1>3. QED
  BY <1>1, <1>2, Received

\* A run that has sent keeps its result until it has noted it.
LEMMA ResultStays ==
  ASSUME Reported, TypeOK, RunsPlaced, [Next]_vars, NEW i \in Inst,
         run[i].pc \in {"note", "renote"}
  PROVE  \/ run'[i] = run[i]
         \/ Note(i)
         \/ \E d \in run[i].claimed : NoteRetry(i, d)
<1>1. CASE Start(i) \/ Step(i) \/ Crash(i)
  <2>1. ~Start(i) /\ ~LoadChannels(i) /\ ~NextHousehold(i) /\ ~CloseBatch(i)
    BY StartEffects, LoadChannelsEffects, NextHouseholdEffects, CloseBatchEffects
  <2>2. ~NextBatch(i) /\ ~Send(i) /\ ~ClaimRetries(i) /\ ~ClaimFails(i) /\ ~Purge(i)
    BY NextBatchEffects, SendEffects, ClaimedEffects, ClaimFailsEffects, PurgeEffects
  <2>3. ASSUME NEW o \in Occ, Record(i, o) PROVE FALSE
    BY <2>3, JournalEffects
  <2>4. ASSUME NEW c \in Chan, SkipChannel(i, c) \/ Open(i, c) \/ OpenFails(i, c) PROVE FALSE
    BY <2>4, SkipChannelEffects, OpenedEffects, OpenFailsEffects
  <2>5. ASSUME NEW d \in run[i].claimed, Resend(i, d) PROVE FALSE
    BY <2>5, ResendEffects
  <2>6. ASSUME NEW d \in run[i].claimed, NoteRetryFails(i, d) \/ DropUnreadable(i, d) PROVE FALSE
    BY <2>6 DEF NoteRetryFails, DropUnreadable, Reported
  <2>7. ~NoteFails(i)
    BY DEF NoteFails, Reported
  <2>8. ~(LoadFails(i) \/ Crash(i) \/ \E o \in Occ : RecordFails(i, o))
    BY CutEffects DEF Reported
  <2>9. QED
    BY <1>1, <2>1, <2>2, <2>3, <2>4, <2>5, <2>6, <2>7, <2>8, FewSteps
<1>2. ASSUME NEW j \in Inst \ {i}, Start(j) \/ Step(j) \/ Crash(j)
      PROVE  run'[i] = run[i]
  BY <1>2, OthersStand DEF Others
<1>3. Environment \/ UNCHANGED vars => run'[i] = run[i]
  BY EnvironmentEffects DEF vars
<1>4. QED
  BY <1>1, <1>2, <1>3 DEF Next

\* Two claims of one delivery are one claim.
LEMMA OneClaim ==
  ASSUME RunsPlaced, ClaimExclusive, NEW i \in Inst, NEW j \in Inst,
         NEW d \in run[i].claimed, NEW e \in run[j].claimed, d.id = e.id
  PROVE  i = j /\ d = e
<1>1. i = j
  BY DEF ClaimExclusive
<1>2. QED
  BY <1>1 DEF RunsPlaced, Placed

\* What is newly claimed was not received by its channel.
LEMMA ClaimedUnsent ==
  ASSUME OnceInv, NEW k \in Chan \X Day, Claimable(outbox[k]), NEW o \in outbox[k].batch
  PROVE  received[<<o, k[1]>>] = 0
<1>1. /\ RunsPlaced /\ outbox[k].id # 0 /\ DOMAIN outbox = Chan \X Day
      /\ k[1] \in Chan /\ o \in Occ /\ received[<<o, k[1]>>] \in 0..2
  BY DEF OnceInv, OrderlyInv, Base, RowsIdentified, TypeOK, Row, Claimable
<1>2. ASSUME NEW i \in Inst, run[i].pc \in {"note", "renote"}, run[i].id = outbox[k].id
      PROVE  FALSE
  <2>1. CASE run[i].pc = "note"
    BY <1>1, <1>2, <2>1 DEF OnceInv, OrderlyInv, FirstSendsHold, RowsOf
  <2>2. CASE run[i].pc = "renote"
    <3>1. PICK d \in run[i].claimed : d.id = run[i].id
      BY <1>1, <2>2 DEF RunsPlaced, Placed
    <3>2. k \in RowsOf(d.id)
      BY <1>1, <1>2, <3>1 DEF RowsOf
    <3>3. QED
      BY <3>2 DEF OnceInv, OrderlyInv, ClaimsHold
  <2>3. QED
    BY <1>2, <2>1, <2>2
<1>3. ~(received[<<o, k[1]>>] > 0)
  BY <1>2 DEF OnceInv, SuccessNoted
<1>4. QED
  BY <1>1, <1>3

\* What a run has still to send was not received.
LEMMA SendsFirstStep ==
  ASSUME Reported, OnceInv, [Next]_vars
  PROVE  SendsFirst'
<1>0. /\ TypeOK /\ RunsPlaced /\ RowsIdentified /\ Base /\ OneBatchPerOccurrence
      /\ DOMAIN outbox = Chan \X Day
  BY DEF OnceInv, OrderlyInv, Base, TypeOK
<1> SUFFICES ASSUME NEW i \in Inst, NEW o \in run'[i].fresh, NEW c \in run'[i].cur,
                    run'[i].pc \in {"send", "note"}
             PROVE  /\ run'[i].pc = "send" => received'[<<o, c>>] = 0
                    /\ \A j \in Inst : \A e \in run'[j].claimed : e.chan = c => o \notin e.batch
  BY DEF SendsFirst
<1> DEFINE p == <<o, c>>
<1>1. o \in run[i].fresh /\ o \in Occ
  BY <1>0, SendingMoves DEF TypeOK, Execution
\* The batch comes to this channel.
<1>2. ASSUME c \in Chan, c \in run[i].queue, Open(i, c) \/ OpenFails(i, c)
      PROVE  /\ received'[<<o, c>>] = 0
             /\ \A j \in Inst : \A e \in run'[j].claimed : e.chan = c => o \notin e.batch
  <2>1. Untouched(o, c)
    BY <1>0, <1>1, <1>2 DEF Base, BatchesUntouched, NotYet
  <2>2. received' = received
    BY <1>0, <1>2, OpenedEffects, OpenFailsEffects DEF RunsOnly, history
  <2>3. ASSUME NEW j \in Inst, NEW e \in run'[j].claimed, e.chan = c
        PROVE  o \notin e.batch
    <3>1. e \in run[j].claimed => o \notin e.batch
      BY <2>1, <2>3 DEF Untouched
    <3>2. \A k \in Chan \X Day : e = ClaimOf(k) => o \notin e.batch
      BY <2>1, <2>3 DEF Untouched, ClaimOf
    <3>3. QED
      BY <1>0, <3>1, <3>2, ClaimMoves
  <2>4. QED
    BY <2>1, <2>2, <2>3 DEF Untouched
\* The batch is being sent to this channel.
<1>3. ASSUME run[i].pc \in {"send", "note"}, run'[i].id = run[i].id, run'[i].cur = run[i].cur,
             run'[i] = run[i] \/ Send(i)
      PROVE  /\ run'[i].pc = "send" => received'[<<o, c>>] = 0
             /\ \A j \in Inst : \A e \in run'[j].claimed : e.chan = c => o \notin e.batch
  <2>1. /\ c \in run[i].cur /\ c \in Chan /\ p \in Occ \X Chan /\ p[1] = o /\ p[2] = c
        /\ \A j \in Inst : \A e \in run[j].claimed : e.chan = c => o \notin e.batch
    BY <1>0, <1>1, <1>3 DEF OnceInv, SendsFirst, TypeOK, Execution
  <2>2. ASSUME run'[i].pc = "send"
        PROVE  received'[p] = 0
    <3>1. run'[i] = run[i] /\ received[p] = 0
      BY <1>0, <1>1, <1>3, <2>1, <2>2, SendEffects DEF OnceInv, SendsFirst, Fields
    <3>2. ASSUME NEW j \in Inst, run'[j].pc = "note", o \in run[j].fresh
          PROVE  FALSE
      <4>1. i # j
        BY <2>2, <3>2
      <4>2. QED
        BY <1>0, <1>1, <3>2, <4>1 DEF OneBatchPerOccurrence
    <3>3. received'[p] = received[p]
      BY <1>0, <2>1, <3>2, ReceivedReported
    <3>4. QED
      BY <3>1, <3>3
  <2>3. ASSUME NEW k \in Chan \X Day, Claimable(outbox[k]), k[1] = c
        PROVE  o \notin outbox[k].batch
    <3>1. SUFFICES ASSUME o \in outbox[k].batch PROVE FALSE
      OBVIOUS
    <3>2. outbox[k].id = run[i].id
      <4>1. k = <<c, k[2]>> /\ k[2] \in Day
        BY <2>3
      <4>2. QED
        BY <1>0, <1>1, <1>3, <2>1, <3>1, <4>1 DEF Base, OwnRows
    <3>3. outbox[k].id # 0
      BY <1>0, <2>3 DEF RowsIdentified, Claimable
    <3>4. QED
      BY <1>0, <1>3, <2>3, <3>2, <3>3 DEF OnceInv, OrderlyInv, FirstSendsHold, RowsOf
  <2>4. ASSUME NEW j \in Inst, NEW e \in run'[j].claimed, e.chan = c
        PROVE  o \notin e.batch
    <3>1. \A k \in Chan \X Day : Claimable(outbox[k]) /\ e = ClaimOf(k) => o \notin e.batch
      BY <2>3, <2>4 DEF ClaimOf
    <3>2. QED
      BY <1>0, <2>1, <2>4, <3>1, ClaimMoves
  <2>5. QED
    BY <2>2, <2>4
<1>4. QED
  BY <1>0, <1>2, <1>3, SendingMoves

\* What a claim has still to send was not received.
LEMMA RetriesFirstStep ==
  ASSUME Reported, OnceInv, [Next]_vars
  PROVE  RetriesFirst'
<1>0. /\ TypeOK /\ RunsPlaced /\ RowsIdentified /\ Base /\ ClaimExclusive /\ OnTime
      /\ DOMAIN outbox = Chan \X Day
  BY DEF OnceInv, OrderlyInv, Base, TypeOK
<1> SUFFICES ASSUME NEW i \in Inst, NEW e \in run'[i].claimed, NEW o \in e.batch
             PROVE  /\ run'[i].pc = "retry" \/ run'[i].id # e.id => received'[<<o, e.chan>>] = 0
                    /\ \A k \in Chan \X Day :
                         k[1] = e.chan /\ o \in outbox'[k].batch => outbox'[k].id = e.id
                    /\ \A j \in Inst : \A f \in run'[j].claimed :
                         f.chan = e.chan /\ o \in f.batch => f.id = e.id
  BY DEF RetriesFirst
<1> DEFINE p == <<o, e.chan>>
<1>1. /\ e.chan \in Chan /\ o \in Occ
      /\ p \in Occ \X Chan /\ p[1] = o /\ p[2] = e.chan
  <2>1. TypeOK'
    BY <1>0, TypeStep
  <2>2. QED
    BY <2>1 DEF TypeOK, Execution, Claim
<1>2. \/ e \in run[i].claimed
      \/ ClaimRetries(i) /\ \E l \in Chan \X Day : Claimable(outbox[l]) /\ e = ClaimOf(l)
  BY <1>0, ClaimMoves
<1>3. \A l \in Chan \X Day : e = ClaimOf(l) =>
        e.chan = l[1] /\ e.id = outbox[l].id /\ e.batch = outbox[l].batch
  BY DEF ClaimOf
\* It was not received.
<1>4. ASSUME run'[i].pc = "retry" \/ run'[i].id # e.id
      PROVE  received'[p] = 0
  <2>1. CASE e \in run[i].claimed
    <3>1. ASSUME run[i].pc # "retry", run[i].id = e.id
          PROVE  FALSE
      <4>1. run[i].pc = "renote"
        BY <1>0, <2>1, <3>1 DEF RunsPlaced, Placed
      <4>2. CASE run'[i] = run[i]
        BY <1>4, <3>1, <4>1, <4>2
      <4>3. ~Note(i)
        BY <4>1 DEF Note
      <4>4. ASSUME NEW d \in run[i].claimed, NoteRetry(i, d)
            PROVE  FALSE
        <5>1. d = e
          BY <1>0, <2>1, <3>1, <4>4, OneClaim DEF NoteRetry
        <5>2. run'[i].claimed = run[i].claimed \ {d}
          BY <1>0, <4>4, RetriedEffects, ZenonT(60) DEF Fields
        <5>3. QED
          BY <5>1, <5>2
      <4>5. QED
        BY <1>0, <4>1, <4>2, <4>3, <4>4, ResultStays
    <3>2. received[p] = 0
      BY <2>1, <3>1 DEF OnceInv, RetriesFirst
    <3>3. ASSUME NEW j \in Inst, Send(j), o \in run[j].fresh, e.chan \in run[j].cur
          PROVE  FALSE
      BY <1>0, <2>1, <3>3, SendEffects DEF OnceInv, SendsFirst
    <3>4. ASSUME NEW j \in Inst, NEW f \in run[j].claimed, Resend(j, f), o \in f.batch,
                 e.chan = f.chan, run'[j].pc = "renote", run'[j].id = f.id
          PROVE  FALSE
      <4>1. f.id = e.id
        BY <2>1, <3>4 DEF OnceInv, RetriesFirst
      <4>2. j = i /\ f = e
        BY <1>0, <2>1, <3>4, <4>1, OneClaim
      <4>3. QED
        BY <1>4, <3>4, <4>2
    <3>5. received'[p] = received[p]
      BY <1>0, <1>1, <3>3, <3>4, ReceivedReported
    <3>6. QED
      BY <3>2, <3>5
  <2>2. ASSUME ClaimRetries(i), NEW l \in Chan \X Day, Claimable(outbox[l]), e = ClaimOf(l)
        PROVE  received'[p] = 0
    <3>1. received[<<o, l[1]>>] = 0
      BY <1>3, <2>2, ClaimedUnsent
    <3>2. received' = received
      BY <1>0, <2>2, ClaimedEffects DEF history
    <3>3. QED
      BY <1>3, <2>2, <3>1, <3>2
  <2>3. QED
    BY <1>2, <2>1, <2>2
\* It is in no other row of the channel.
<1>5. ASSUME NEW k \in Chan \X Day, k[1] = e.chan, o \in outbox'[k].batch
      PROVE  outbox'[k].id = e.id
  <2>1. ASSUME NEW j \in Inst, Open(j, k[1]), o \in run[j].fresh
        PROVE  FALSE
    <3>1. Untouched(o, k[1])
      BY <1>0, <2>1, OpenedEffects DEF Base, BatchesUntouched, NotYet
    <3>2. e \notin run[i].claimed
      BY <1>5, <3>1 DEF Untouched
    <3>3. \A l \in Chan \X Day : e # ClaimOf(l)
      BY <1>3, <1>5, <3>1 DEF Untouched
    <3>4. QED
      BY <1>2, <3>2, <3>3
  <2>2. outbox'[k].id = outbox[k].id /\ o \in outbox[k].batch
    BY <1>0, <1>5, <2>1, BatchMoves
  <2>3. CASE e \in run[i].claimed
    BY <1>5, <2>2, <2>3 DEF OnceInv, RetriesFirst
  <2>4. ASSUME NEW l \in Chan \X Day, e = ClaimOf(l)
        PROVE  outbox[k].id = e.id
    <3>1. k = l
      BY <1>0, <1>3, <1>5, <2>2, <2>4, OneRow
    <3>2. QED
      BY <1>3, <2>4, <3>1
  <2>5. QED
    BY <1>2, <2>2, <2>3, <2>4
\* It is in no other claim of the channel.
<1>6. ASSUME NEW j \in Inst, NEW f \in run'[j].claimed, f.chan = e.chan, o \in f.batch
      PROVE  f.id = e.id
  <2>1. \/ f \in run[j].claimed
        \/ \E l \in Chan \X Day : Claimable(outbox[l]) /\ f = ClaimOf(l)
    BY <1>0, ClaimMoves
  <2>2. \A l \in Chan \X Day : f = ClaimOf(l) =>
          f.chan = l[1] /\ f.id = outbox[l].id /\ f.batch = outbox[l].batch
    BY DEF ClaimOf
  <2>3. CASE e \in run[i].claimed /\ f \in run[j].claimed
    BY <1>6, <2>3 DEF OnceInv, RetriesFirst
  <2>4. ASSUME e \in run[i].claimed, NEW l \in Chan \X Day, f = ClaimOf(l)
        PROVE  f.id = e.id
    <3>1. l[1] = e.chan /\ o \in outbox[l].batch
      BY <1>6, <2>2, <2>4
    <3>2. QED
      BY <2>2, <2>4, <3>1 DEF OnceInv, RetriesFirst
  <2>5. ASSUME f \in run[j].claimed, NEW l \in Chan \X Day, e = ClaimOf(l)
        PROVE  f.id = e.id
    <3>1. l[1] = f.chan /\ o \in outbox[l].batch
      BY <1>3, <1>6, <2>5
    <3>2. QED
      BY <1>3, <1>6, <2>5, <3>1 DEF OnceInv, RetriesFirst
  <2>6. ASSUME NEW k \in Chan \X Day, e = ClaimOf(k), NEW l \in Chan \X Day, f = ClaimOf(l)
        PROVE  f.id = e.id
    <3>1. k = l
      BY <1>0, <1>3, <1>6, <2>2, <2>6, OneRow
    <3>2. QED
      BY <1>3, <2>2, <2>6, <3>1
  <2>7. QED
    BY <1>2, <2>1, <2>3, <2>4, <2>5, <2>6
<1>7. QED
  BY <1>4, <1>5, <1>6

\* A row whose batch was received is about to be removed.
LEMMA SuccessNotedStep ==
  ASSUME Reported, OnceInv, [Next]_vars
  PROVE  SuccessNoted'
<1>0. /\ TypeOK /\ RunsPlaced /\ RowsIdentified /\ Base
      /\ DOMAIN outbox = Chan \X Day
  BY DEF OnceInv, OrderlyInv, Base, TypeOK
<1> SUFFICES ASSUME NEW k \in Chan \X Day, NEW o \in outbox'[k].batch,
                    received'[<<o, k[1]>>] > 0
             PROVE  \E i \in Inst : /\ run'[i].pc \in {"note", "renote"} /\ run'[i].ok
                                    /\ run'[i].id = outbox'[k].id
  BY DEF SuccessNoted
<1> DEFINE p == <<o, k[1]>>
<1>1. ASSUME NEW j \in Inst, Open(j, k[1]), o \in run[j].fresh
      PROVE  FALSE
  <2>1. received[p] = 0
    BY <1>0, <1>1, OpenedEffects, ZenonT(60) DEF Base, BatchesUntouched, NotYet, Untouched
  <2>2. received' = received
    BY <1>0, <1>1, OpenedEffects DEF history
  <2>3. QED
    BY <2>1, <2>2
<1>2. outbox'[k].id = outbox[k].id /\ o \in outbox[k].batch
  BY <1>0, <1>1, BatchMoves
<1>3. p \in Occ \X Chan /\ p[1] = o /\ p[2] = k[1] /\ k = <<k[1], k[2]>> /\ k[2] \in Day
      /\ outbox[k].id # 0 /\ outbox[k] \in Row
  BY <1>0, <1>2 DEF TypeOK, Row, Base, RowsEmpty
<1>4. CASE received'[p] # received[p]
  <2>1. PICK i \in Inst :
              \/ /\ Send(i) /\ p[1] \in run[i].fresh /\ p[2] \in run[i].cur
                 /\ run'[i].pc = "note" /\ run'[i].ok /\ run'[i].id = run[i].id
              \/ \E d \in run[i].claimed :
                   /\ Resend(i, d) /\ p[1] \in d.batch /\ p[2] = d.chan
                   /\ run'[i].pc = "renote" /\ run'[i].ok /\ run'[i].id = d.id
    BY <1>0, <1>3, <1>4, ReceivedReported
  <2>2. ASSUME Send(i), o \in run[i].fresh, k[1] \in run[i].cur
        PROVE  outbox[k].id = run[i].id
    BY <1>0, <1>2, <1>3, <2>2, SendEffects DEF Base, OwnRows
  <2>3. ASSUME NEW d \in run[i].claimed, o \in d.batch, k[1] = d.chan
        PROVE  outbox[k].id = d.id
    BY <1>2, <2>3 DEF OnceInv, RetriesFirst
  <2>4. QED
    BY <1>2, <1>3, <2>1, <2>2, <2>3
<1>5. CASE received'[p] = received[p]
  <2>1. PICK i \in Inst : /\ run[i].pc \in {"note", "renote"} /\ run[i].ok
                          /\ run[i].id = outbox[k].id
    BY <1>2, <1>5 DEF OnceInv, SuccessNoted
  <2>2. k \in RowsOf(run[i].id)
    BY <1>0, <1>3, <2>1 DEF RowsOf
  <2>3. CASE run'[i] = run[i]
    BY <1>2, <2>1, <2>3
  <2>4. ASSUME NEW n, outbox' = Conclude(run[i].id, run[i].ok, n)
        PROVE  FALSE
    <3>1. outbox'[k] = NoRow
      BY <1>0, <2>1, <2>2, <2>4 DEF Conclude, ConcludedRow
    <3>2. QED
      BY <3>1 DEF NoRow
  <2>5. ~Note(i)
    BY <2>4 DEF Note
  <2>6. ASSUME NEW d \in run[i].claimed, NoteRetry(i, d)
        PROVE  FALSE
    BY <2>4, <2>6 DEF NoteRetry
  <2>7. QED
    BY <1>0, <2>1, <2>3, <2>5, <2>6, ResultStays
<1>6. QED
  BY <1>4, <1>5

\* So no step delivers an occurrence again.
LEMMA OnceStep ==
  ASSUME Reported, OnceInv, [Next]_vars
  PROVE  AtMostOneDelivery'
<1>0. TypeOK
  BY DEF OnceInv, OrderlyInv, Base
<1> SUFFICES ASSUME NEW p \in Occ \X Chan PROVE received'[p] <= 1
  BY DEF AtMostOneDelivery
<1>1. p = <<p[1], p[2]>> /\ received[p] <= 1
  BY DEF OnceInv, AtMostOneDelivery
<1>2. ASSUME NEW i \in Inst, Send(i), p[1] \in run[i].fresh, p[2] \in run[i].cur
      PROVE  received[p] = 0
  BY <1>0, <1>1, <1>2, SendEffects DEF OnceInv, SendsFirst
<1>3. ASSUME NEW i \in Inst, NEW d \in run[i].claimed, Resend(i, d), p[1] \in d.batch, p[2] = d.chan
      PROVE  received[p] = 0
  BY <1>0, <1>1, <1>3, ResendEffects DEF OnceInv, RetriesFirst
<1>4. QED
  BY <1>0, <1>1, <1>2, <1>3, ReceivedReported

\* When sends report what happened, what they report is noted, and runs end before
\* a retry is due, no target gets an occurrence twice and no two runs replay the
\* same delivery at once, however many instances race.
THEOREM OnceOnly ==
  ASSUME Orderly, Reported
  PROVE  Spec => []DeliveredOnce
<1>1. Init => OnceInv
  <2> SUFFICES ASSUME Init PROVE OnceInv
    OBVIOUS
  <2>1. \A i \in Inst : run[i] = Idle
    BY DEF Init
  <2>2. \A k \in Chan \X Day : outbox[k].batch = {}
    BY DEF Init, NoRow
  <2>3. SendsFirst /\ RetriesFirst /\ SuccessNoted
    BY <2>1, <2>2 DEF SendsFirst, RetriesFirst, SuccessNoted, Idle
  <2>4. AtMostOneDelivery
    BY DEF Init, AtMostOneDelivery
  <2>5. QED
    BY <2>3, <2>4, OrderlyInit DEF OnceInv
<1>2. OnceInv /\ [Next]_vars => OnceInv'
  <2> SUFFICES ASSUME OnceInv, [Next]_vars PROVE OnceInv'
    OBVIOUS
  <2>1. OrderlyInv'
    BY OrderlyStep DEF OnceInv
  <2>2. QED
    BY <2>1, SendsFirstStep, RetriesFirstStep, SuccessNotedStep, OnceStep DEF OnceInv
<1>3. OnceInv => DeliveredOnce
  BY DEF OnceInv, OrderlyInv, DeliveredOnce
<1>4. QED
  BY <1>1, <1>2, <1>3, PTL DEF Spec

-----------------------------------------------------------------------------
(* No silent loss. *)

\* The deployment in which nothing is lost: a household never has two occurrences
\* on one day, and no run stops between an insert into the journal and the rows of
\* the channels it is for.
Lossless ==
  /\ ~DbFails /\ Lead = {DefaultLead} /\ OnePerDate
  /\ CrashAt \cap {"log", "open"} = {}
  /\ CrashAt \cap {"send", "note"} # {} =>
       \A c, e \in Chan : ChanHome[c] = ChanHome[e] => c = e

\* Channels a run knows, and those something is owed to, were created.
ChansSeen ==
  /\ \A i \in Inst : \A c \in run[i].chans : chanState[c] # "new"
  /\ \A p \in owed : chanState[p[2]] # "new"

\* The row a run sends or retries holds what the run sends.
RowsMatch ==
  /\ \A i \in Inst : run[i].pc \in {"send", "note"} =>
       /\ run[i].cur # {}
       /\ \A k \in RowsOf(run[i].id) : outbox[k].batch = run[i].fresh /\ k[1] \in run[i].cur
  /\ \A i \in Inst : \A e \in run[i].claimed : \A k \in RowsOf(e.id) :
       outbox[k].batch = e.batch /\ k[1] = e.chan

\* What was given up, or sent with success, is no longer owed.
Settled ==
  \A k \in Chan \X Day : \A o \in outbox[k].batch :
    \/ outbox[k].status = "abandoned"
    \/ \E i \in Inst : /\ run[i].pc \in {"note", "renote"} /\ run[i].ok
                       /\ run[i].id = outbox[k].id
    => <<o, k[1]>> \notin owed

\* What is owed and was not passed over has still to be sent, or waits in a row.
StillCarried ==
  \A p \in owed \ skipped : chanState[p[2]] = "live" =>
    \/ \E i \in Inst : p[1] \in run[i].fresh /\ NotYet(i, p[2])
    \/ \E k \in Chan \X Day : k[1] = p[2] /\ outbox[k].status = "pending" /\ p[1] \in outbox[k].batch

LossInv ==
  Base /\ HomesApart /\ OnTime /\ ChansSeen /\ RowsMatch /\ Settled /\ StillCarried

\* A channel is new, then live, then gone.
LEMMA ChansAge ==
  ASSUME TypeOK, [Next]_vars, NEW c \in Chan
  PROVE  /\ chanState'[c] = "new" => chanState[c] = "new"
         /\ chanState'[c] = "live" => chanState[c] \in {"new", "live"}
<1>1. ASSUME NEW e \in Chan, CreateChannel(e) \/ DeleteChannel(e) \/ ChangeKey(e)
      PROVE  /\ chanState'[c] = "new" => chanState[c] = "new"
             /\ chanState'[c] = "live" => chanState[c] \in {"new", "live"}
  BY <1>1 DEF CreateChannel, DeleteChannel, ChangeKey, TypeOK
<1>2. ASSUME NEW s \in Sub, CreateSub(s) \/ UpdateSub(s) \/ DeleteSub(s)
      PROVE  chanState' = chanState
  BY <1>2 DEF CreateSub, UpdateSub, DeleteSub
<1>3. ASSUME NEW h \in Household, SetLeadDays(h)
      PROVE  chanState' = chanState
  BY <1>3 DEF SetLeadDays
<1>4. Tick \/ NextDay \/ UNCHANGED vars => chanState' = chanState
  BY DEF Tick, NextDay, vars, data
<1>5. ASSUME NEW i \in Inst, Start(i) \/ Step(i) \/ Crash(i)
      PROVE  chanState' = chanState
  BY <1>5, FewSteps, StartEffects, LoadChannelsEffects, NextHouseholdEffects, JournalEffects,
     CloseBatchEffects, NextBatchEffects, SkipChannelEffects, OpenedEffects, OpenFailsEffects,
     SendEffects, NotedEffects, ClaimedEffects, ClaimFailsEffects, ResendEffects,
     RetriedEffects, PurgeEffects, CutEffects DEF RunsOnly, data
<1>6. QED
  BY <1>1, <1>2, <1>3, <1>4, <1>5 DEF Next, Environment

\* A pair becomes owed when its occurrence is journalled.
LEMMA OwedMoves ==
  ASSUME TypeOK, [Next]_vars, NEW p \in owed', p \notin owed
  PROVE  \E i \in Inst : \E o \in Occ : /\ Record(i, o) /\ o \notin log
                                        /\ p \in {o} \X HomeChans(i)
<1>1. ASSUME NEW c \in Chan, CreateChannel(c) \/ DeleteChannel(c) \/ ChangeKey(c)
      PROVE  FALSE
  BY <1>1 DEF CreateChannel, DeleteChannel, ChangeKey, history
<1>2. ASSUME NEW s \in Sub, CreateSub(s) \/ UpdateSub(s) \/ DeleteSub(s)
      PROVE  FALSE
  BY <1>2 DEF CreateSub, UpdateSub, DeleteSub, history
<1>3. ASSUME NEW h \in Household, SetLeadDays(h)
      PROVE  FALSE
  BY <1>3 DEF SetLeadDays, history
<1>4. ~(Tick \/ NextDay \/ UNCHANGED vars)
  BY DEF Tick, NextDay, vars, history
<1>5. ASSUME NEW i \in Inst, Start(i) \/ Step(i) \/ Crash(i)
      PROVE  \E o \in Occ : Record(i, o) /\ o \notin log /\ p \in {o} \X HomeChans(i)
  <2>1. ASSUME NEW o \in Occ, Record(i, o)
        PROVE  o \notin log /\ p \in {o} \X HomeChans(i)
    BY <2>1, JournalEffects
  <2>2. ~(Start(i) \/ LoadChannels(i) \/ NextHousehold(i) \/ CloseBatch(i) \/ NextBatch(i))
    BY StartEffects, LoadChannelsEffects, NextHouseholdEffects, CloseBatchEffects, NextBatchEffects
       DEF RunsOnly, history
  <2>3. ~Send(i)
    BY SendEffects DEF Receive, history
  <2>4. ~(Note(i) \/ NoteFails(i))
    BY NotedEffects
  <2>5. ~ClaimRetries(i) /\ ~ClaimFails(i) /\ ~Purge(i)
    BY ClaimedEffects, ClaimFailsEffects, PurgeEffects DEF RunsOnly, history
  <2>6. ~(LoadFails(i) \/ Crash(i) \/ \E o \in Occ : RecordFails(i, o))
    BY CutEffects DEF RunsOnly, history
  <2>7. ASSUME NEW c \in Chan, SkipChannel(i, c) \/ Open(i, c) \/ OpenFails(i, c)
        PROVE  FALSE
    BY <2>7, SkipChannelEffects, OpenedEffects, OpenFailsEffects DEF RunsOnly, history
  <2>8. ASSUME NEW d \in run[i].claimed, Resend(i, d)
        PROVE  FALSE
    BY <2>8, ResendEffects DEF Receive, history
  <2>9. ASSUME NEW d \in run[i].claimed,
               NoteRetry(i, d) \/ NoteRetryFails(i, d) \/ DropUnreadable(i, d)
        PROVE  FALSE
    BY <2>9, RetriedEffects
  <2>10. QED
    BY <1>5, <2>1, <2>2, <2>3, <2>4, <2>5, <2>6, <2>7, <2>8, <2>9, FewSteps
<1>6. QED
  BY <1>1, <1>2, <1>3, <1>4, <1>5 DEF Next, Environment

\* What was passed over stays so.
LEMMA SkippedStays ==
  ASSUME TypeOK, [Next]_vars
  PROVE  skipped \subseteq skipped'
<1>1. ASSUME NEW c \in Chan, CreateChannel(c) \/ DeleteChannel(c) \/ ChangeKey(c)
      PROVE  skipped' = skipped
  BY <1>1 DEF CreateChannel, DeleteChannel, ChangeKey, history
<1>2. ASSUME NEW s \in Sub, CreateSub(s) \/ UpdateSub(s) \/ DeleteSub(s)
      PROVE  skipped' = skipped
  BY <1>2 DEF CreateSub, UpdateSub, DeleteSub, history
<1>3. ASSUME NEW h \in Household, SetLeadDays(h)
      PROVE  skipped' = skipped
  BY <1>3 DEF SetLeadDays, history
<1>4. Tick \/ NextDay \/ UNCHANGED vars => skipped' = skipped
  BY DEF Tick, NextDay, vars, history
<1>5. ASSUME NEW i \in Inst, Start(i) \/ Step(i) \/ Crash(i)
      PROVE  skipped \subseteq skipped'
  <2>1. ASSUME NEW c \in Chan, SkipChannel(i, c) \/ Open(i, c) \/ OpenFails(i, c)
        PROVE  skipped \subseteq skipped'
    BY <2>1 DEF SkipChannel, Open, OpenFails, history
  <2>2. ASSUME NEW d \in run[i].claimed,
               Resend(i, d) \/ NoteRetry(i, d) \/ NoteRetryFails(i, d) \/ DropUnreadable(i, d)
        PROVE  skipped' = skipped
    BY <2>2 DEF Resend, NoteRetry, NoteRetryFails, DropUnreadable, Receive, history
  <2>3. ASSUME NEW o \in Occ, Record(i, o) \/ RecordFails(i, o)
        PROVE  skipped' = skipped
    BY <2>3 DEF Record, RecordFails, history
  <2>4. CASE Start(i) \/ LoadChannels(i) \/ LoadFails(i) \/ NextHousehold(i) \/ CloseBatch(i) \/ NextBatch(i)
    BY <2>4 DEF Start, LoadChannels, LoadFails, NextHousehold, CloseBatch, NextBatch, history
  <2>5. CASE Send(i) \/ Note(i) \/ NoteFails(i) \/ ClaimRetries(i) \/ ClaimFails(i) \/ Purge(i) \/ Crash(i)
    BY <2>5 DEF Send, Note, NoteFails, ClaimRetries, ClaimFails, Purge, Crash, Receive, history
  <2>6. QED
    BY <1>5, <2>1, <2>2, <2>3, <2>4, <2>5 DEF Step
<1>6. QED
  BY <1>1, <1>2, <1>3, <1>4, <1>5 DEF Next, Environment

\* A run comes to know the channels that are live.
LEMMA ChanMoves ==
  ASSUME TypeOK, [Next]_vars, NEW i \in Inst, NEW c \in run'[i].chans
  PROVE  c \in run[i].chans \/ (c \in Chan /\ chanState[c] = "live")
<1>1. CASE run'[i] = run[i] \/ run'[i] = Idle
  BY <1>1 DEF Idle
<1>0. CASE Start(i)
  <2>1. run'[i].chans = {}
    BY <1>0, StartEffects DEF Fields
  <2>2. QED
    BY <2>1
<1>2. CASE LoadChannels(i)
  BY <1>2, LoadChannelsEffects DEF Fields
<1>3. CASE NextHousehold(i) \/ CloseBatch(i) \/ NextBatch(i)
  BY <1>3, NextHouseholdEffects, CloseBatchEffects, NextBatchEffects DEF Fields
<1>4. ASSUME NEW o \in Occ, Record(i, o)
      PROVE  run'[i].chans = run[i].chans
  BY <1>4, JournalEffects DEF Fields
<1>5. ASSUME NEW e \in Chan, SkipChannel(i, e) \/ Open(i, e) \/ OpenFails(i, e)
      PROVE  run'[i].chans = run[i].chans
  BY <1>5, SkipChannelEffects, OpenedEffects, OpenFailsEffects DEF Fields
<1>6. CASE Send(i) \/ (Note(i) \/ NoteFails(i)) \/ ClaimRetries(i) \/ ClaimFails(i)
  BY <1>6, SendEffects, NotedEffects, ClaimedEffects, ClaimFailsEffects DEF Fields
<1>7. ASSUME NEW d \in run[i].claimed,
             Resend(i, d) \/ (NoteRetry(i, d) \/ NoteRetryFails(i, d) \/ DropUnreadable(i, d))
      PROVE  run'[i].chans = run[i].chans
  BY <1>7, ResendEffects, RetriedEffects DEF Fields
<1>8. QED
  BY <1>0, <1>1, <1>2, <1>3, <1>4, <1>5, <1>6, <1>7, RunMoves

\* So the channels of a run were live once.
LEMMA ChansSeenStep ==
  ASSUME TypeOK, ChansSeen, [Next]_vars
  PROVE  ChansSeen'
<1>1. ASSUME NEW i \in Inst, NEW c \in run'[i].chans
      PROVE  chanState'[c] # "new"
  <2>1. c \in Chan /\ chanState[c] # "new"
    BY ChanMoves DEF ChansSeen, TypeOK, Execution
  <2>2. QED
    BY <2>1, ChansAge
<1>2. ASSUME NEW p \in owed'
      PROVE  chanState'[p[2]] # "new"
  <2>1. CASE p \in owed
    <3>1. p[2] \in Chan /\ chanState[p[2]] # "new"
      BY <2>1 DEF ChansSeen, TypeOK
    <3>2. QED
      BY <3>1, ChansAge
  <2>2. CASE p \notin owed
    <3>1. PICK i \in Inst : \E o \in Occ : p \in {o} \X HomeChans(i)
      BY <2>2, OwedMoves
    <3> DEFINE c == p[2]
    <3>2. c \in run[i].chans /\ c \in Chan
      BY <3>1 DEF HomeChans, TypeOK, Execution
    <3> HIDE DEF c
    <3>3. chanState[c] # "new"
      BY <3>2 DEF ChansSeen
    <3>4. chanState'[c] # "new"
      BY <3>2, <3>3, ChansAge
    <3>5. QED
      BY <3>4 DEF c
  <2>3. QED
    BY <2>1, <2>2
<1>3. QED
  BY <1>1, <1>2 DEF ChansSeen

\* A row keeps its batch: it is gone, new, or the same.
LEMMA RowLife ==
  ASSUME OnePerDate, Base, HomesApart, OnTime, [Next]_vars, NEW k \in Chan \X Day
  PROVE  \/ outbox'[k].batch = {} /\ outbox'[k].id = 0
         \/ outbox'[k].batch = outbox[k].batch /\ outbox'[k].id = outbox[k].id
         \/ /\ outbox[k].id = 0 /\ outbox'[k].id = nextId /\ outbox'[k].status = "pending"
            /\ \E i \in Inst : Open(i, k[1]) /\ run[i].day = k[2] /\ outbox'[k].batch = run[i].fresh
<1>0. TypeOK /\ RowsIdentified
  BY DEF Base
<1>1. ASSUME NEW i \in Inst, Open(i, k[1]), run[i].day = k[2]
      PROVE  /\ outbox[k].id = 0 /\ outbox'[k].id = nextId /\ outbox'[k].status = "pending"
             /\ outbox'[k].batch = run[i].fresh
  <2>1. k = KeyFor(i, k[1]) /\ k[1] \in Chan
    BY <1>1 DEF KeyFor
  <2>2. outbox[k].id = 0
    BY <1>1, <2>1, OpensNew
  <2>3. QED
    BY <1>0, <1>1, <2>1, <2>2, OpenedRow
<1>2. QED
  BY <1>0, <1>1, BatchMoves

\* The row a run sends or retries holds what the run sends.
LEMMA RowsMatchStep ==
  ASSUME OnePerDate, Base, HomesApart, OnTime, RowsMatch, RowsIdentified', [Next]_vars
  PROVE  RowsMatch'
<1>0. /\ TypeOK /\ RunsPlaced /\ RowsIdentified /\ IdsIssued
      /\ DOMAIN outbox = Chan \X Day /\ DOMAIN outbox' = Chan \X Day
      /\ nextId \in Nat
  BY TypeStep DEF Base, TypeOK
<1>1. ASSUME NEW i \in Inst, run'[i].pc \in {"send", "note"}
      PROVE  run'[i].cur # {}
  BY <1>0, <1>1, SendingMoves DEF RowsMatch
<1>2. ASSUME NEW i \in Inst, run'[i].pc \in {"send", "note"},
             NEW k \in Chan \X Day, run'[i].id # 0, outbox'[k].id = run'[i].id
      PROVE  outbox'[k].batch = run'[i].fresh /\ k[1] \in run'[i].cur
  <2>1. CASE run[i].pc \in {"send", "note"} /\ run'[i].id = run[i].id
             /\ run'[i].cur = run[i].cur /\ run'[i].fresh = run[i].fresh
    <3>1. run[i].id # nextId
      BY <1>0 DEF IdsIssued, TypeOK, Execution
    <3>2. outbox'[k].batch = outbox[k].batch /\ outbox'[k].id = outbox[k].id
      BY <1>2, <2>1, <3>1, RowLife
    <3>3. QED
      BY <1>0, <1>2, <2>1, <3>2 DEF RowsMatch, RowsOf
  <2>2. ASSUME NEW c \in Chan, Open(i, c), run'[i].id = IdFor(i, c), run'[i].cur = {c},
               run'[i].fresh = run[i].fresh
        PROVE  outbox'[k].batch = run'[i].fresh /\ k[1] \in run'[i].cur
    <3> DEFINE l == KeyFor(i, c)
    <3>1. l \in Chan \X Day /\ outbox'[l].id = run'[i].id /\ outbox'[l].batch = run[i].fresh
      BY <1>0, <2>2, OpenedRow
    <3>2. k = l
      BY <1>2, <3>1 DEF RowsIdentified
    <3>3. QED
      BY <2>2, <3>1, <3>2 DEF KeyFor
  <2>3. QED
    BY <1>0, <1>2, <2>1, <2>2, SendingMoves
<1>3. ASSUME NEW i \in Inst, NEW e \in run'[i].claimed,
             NEW k \in Chan \X Day, e.id # 0, outbox'[k].id = e.id
      PROVE  outbox'[k].batch = e.batch /\ k[1] = e.chan
  <2>1. CASE e \in run[i].claimed
    <3>1. e.id # nextId
      BY <1>0, <2>1 DEF RowsIdentified, TypeOK, Execution, Claim
    <3>2. outbox'[k].batch = outbox[k].batch /\ outbox'[k].id = outbox[k].id
      BY <1>3, <3>1, RowLife
    <3>3. QED
      BY <1>0, <1>3, <2>1, <3>2 DEF RowsMatch, RowsOf
  <2>2. ASSUME ClaimRetries(i), NEW l \in Chan \X Day, Claimable(outbox[l]), e = ClaimOf(l)
        PROVE  outbox'[k].batch = e.batch /\ k[1] = e.chan
    <3>1. outbox[l] \in Row /\ outbox'[l] = ClaimedRow(outbox[l])
      BY <1>0, <2>2, ClaimedEffects DEF TypeOK
    <3>2. outbox'[l].id = outbox[l].id /\ outbox'[l].batch = outbox[l].batch
      BY <3>1, ClaimedFields
    <3>3. e.id = outbox[l].id /\ e.batch = outbox[l].batch /\ e.chan = l[1]
      BY <2>2 DEF ClaimOf
    <3>4. k = l
      BY <1>3, <3>2, <3>3 DEF RowsIdentified
    <3>5. QED
      BY <3>2, <3>3, <3>4
  <2>3. QED
    BY <1>0, <1>3, <2>1, <2>2, ClaimMoves
<1>4. QED
  BY <1>0, <1>1, <1>2, <1>3 DEF RowsMatch, RowsOf

\* A run comes to a success by a send that was received.
LEMMA SuccessMoves ==
  ASSUME TypeOK, RunsPlaced, [Next]_vars, NEW i \in Inst,
         run'[i].pc \in {"note", "renote"}, run'[i].ok
  PROVE  \/ run'[i] = run[i]
         \/ /\ run[i].pc = "send" /\ run'[i].id = run[i].id /\ outbox' = outbox
            /\ \E c \in run[i].cur : owed' = owed \ (run[i].fresh \X {c})
         \/ /\ outbox' = outbox
            /\ \E d \in run[i].claimed : run'[i].id = d.id /\ owed' = owed \ (d.batch \X {d.chan})
<1>1. CASE run'[i] = run[i]
  BY <1>1
<1>2. run'[i] # Idle
  BY DEF Idle
<1>3. ~(Start(i) \/ LoadChannels(i) \/ NextHousehold(i) \/ CloseBatch(i) \/ NextBatch(i))
  BY StartEffects, LoadChannelsEffects, NextHouseholdEffects, CloseBatchEffects, NextBatchEffects
     DEF Fields
<1>4. ~((Note(i) \/ NoteFails(i)) \/ ClaimRetries(i) \/ ClaimFails(i))
  BY NotedEffects, ClaimedEffects, ClaimFailsEffects DEF Fields
<1>5. ASSUME NEW o \in Occ, Record(i, o) PROVE FALSE
  BY <1>5, JournalEffects DEF Fields
<1>6. ASSUME NEW c \in Chan, SkipChannel(i, c) \/ Open(i, c) \/ OpenFails(i, c) PROVE FALSE
  BY <1>6, SkipChannelEffects, OpenedEffects, OpenFailsEffects DEF Fields
<1>7. CASE Send(i)
  <2>1. PICK c \in run[i].cur, got \in BOOLEAN, ok \in BOOLEAN :
          /\ ok => got
          /\ IF got THEN Receive(run[i].fresh, c) ELSE UNCHANGED history
          /\ run'[i].ok = ok /\ run'[i].id = run[i].id
    BY <1>7, SendEffects DEF Fields
  <2>2. Receive(run[i].fresh, c)
    BY <2>1
  <2>3. QED
    BY <1>7, <2>1, <2>2, SendEffects DEF Receive
<1>8. ASSUME NEW d \in run[i].claimed, Resend(i, d)
      PROVE  outbox' = outbox /\ run'[i].id = d.id /\ owed' = owed \ (d.batch \X {d.chan})
  <2>1. PICK got \in BOOLEAN, ok \in BOOLEAN :
          /\ ok => got
          /\ IF got THEN Receive(d.batch, d.chan) ELSE UNCHANGED history
          /\ run'[i].ok = ok /\ run'[i].id = d.id
    BY <1>8, ResendEffects DEF Fields
  <2>2. Receive(d.batch, d.chan)
    BY <2>1
  <2>3. QED
    BY <1>8, <2>1, <2>2, ResendEffects DEF Receive
<1>9. ASSUME NEW d \in run[i].claimed,
             NoteRetry(i, d) \/ NoteRetryFails(i, d) \/ DropUnreadable(i, d)
      PROVE  FALSE
  BY <1>9, RetriedEffects DEF Fields
<1>10. QED
  BY <1>1, <1>2, <1>3, <1>4, <1>5, <1>6, <1>7, <1>8, <1>9, RunMoves

\* A row that a conclusion abandons takes its pairs off what is owed.
LEMMA GivenUpThen ==
  ASSUME NEW id, NEW k \in RowsOf(id), outbox'[k].status = "abandoned",
         NEW o \in outbox'[k].batch, owed' = owed \ GivenUp(outbox', id)
  PROVE  <<o, k[1]>> \notin owed'
  BY DEF GivenUp

\* What was settled is owed no more.
LEMMA SettledStep ==
  ASSUME ~DbFails, OnePerDate, Base, HomesApart, OnTime, RowsMatch, Settled, TypeOK', [Next]_vars
  PROVE  Settled'
<1>0. /\ TypeOK /\ RunsPlaced /\ RowsIdentified /\ IdsIssued /\ JournalFirst
      /\ DOMAIN outbox = Chan \X Day /\ nextId \in Nat /\ RowsEmpty'
  BY BaseStep DEF Base, TypeOK
<1> SUFFICES ASSUME NEW k \in Chan \X Day, NEW o \in outbox'[k].batch, <<o, k[1]>> \in owed'
             PROVE  /\ outbox'[k].status # "abandoned"
                    /\ ~\E i \in Inst : /\ run'[i].pc \in {"note", "renote"} /\ run'[i].ok
                                        /\ run'[i].id = outbox'[k].id
  BY DEF Settled
<1> DEFINE p == <<o, k[1]>>
<1>1. p \in owed
  <2> SUFFICES ASSUME p \notin owed PROVE FALSE
    OBVIOUS
  <2>1. PICK i \in Inst : \E q \in Occ : Record(i, q) /\ q \notin log /\ p \in {q} \X HomeChans(i)
    BY <1>0, OwedMoves
  <2>2. Record(i, o) /\ o \in Occ /\ o \notin log
    BY <2>1
  <2>3. outbox' = outbox /\ subState[o.sub] = "live"
    BY <1>0, <2>2, JournalEffects
  <2>4. QED
    BY <1>0, <2>2, <2>3 DEF JournalFirst, Accounted
<1>2. outbox[k] \in Row /\ outbox'[k].id # 0 /\ outbox'[k].id \in Nat /\ k = <<k[1], k[2]>> /\ k[1] \in Chan
  BY <1>0 DEF TypeOK, Row, RowsEmpty
<1>3. ASSUME o \in outbox[k].batch
      PROVE  /\ outbox[k].status # "abandoned"
             /\ ~\E i \in Inst : /\ run[i].pc \in {"note", "renote"} /\ run[i].ok
                                 /\ run[i].id = outbox[k].id
  BY <1>1, <1>3 DEF Settled
<1>4. ASSUME outbox'[k].status = "abandoned"
      PROVE  FALSE
  <2>1. outbox'[k].batch = outbox[k].batch /\ outbox'[k].id = outbox[k].id
    BY <1>2, <1>4, RowLife
  <2>2. outbox[k].status # "abandoned"
    BY <1>3, <2>1
  <2>3. outbox'[k] # outbox[k] /\ outbox'[k] # NoRow
    BY <1>4, <2>2 DEF NoRow
  <2>4. outbox'[k] # TickedRow(outbox[k]) /\ outbox'[k] # ClaimedRow(outbox[k])
    BY <1>2, <1>4, <2>2, TickedFields, ClaimedFields
  <2>5. ASSUME NEW i \in Inst, Open(i, k[1]), run[i].day = k[2]
        PROVE  FALSE
    <3>1. k = KeyFor(i, k[1])
      BY <1>2, <2>5 DEF KeyFor
    <3>2. QED
      BY <1>0, <1>2, <1>4, <2>2, <2>5, <3>1, OpenedRow
  <2>6. ASSUME NEW ok, outbox'[k] = ConcludedRow(outbox[k], ok, 1)
        PROVE  FALSE
    BY <1>2, <1>4, <2>2, <2>6, FailedFields, Delays DEF ConcludedRow, NoRow
  <2>7. ASSUME NEW i \in Inst, NEW d \in run[i].claimed, k \in RowsOf(d.id),
               NoteRetry(i, d) \/ (DropUnreadable(i, d) /\ outbox'[k] = AbandonedRow(outbox[k]))
        PROVE  FALSE
    <3>1. owed' = owed \ GivenUp(outbox', d.id)
      BY <2>7 DEF NoteRetry, DropUnreadable
    <3>2. QED
      BY <1>4, <2>7, <3>1, GivenUpThen
  <2>8. QED
    BY <1>0, <2>3, <2>4, <2>5, <2>6, <2>7, RowMoves
<1>5. ASSUME NEW i \in Inst, run'[i].pc \in {"note", "renote"}, run'[i].ok,
             run'[i].id = outbox'[k].id
      PROVE  FALSE
  <2>1. CASE run'[i] = run[i]
    <3>1. outbox'[k].id # nextId
      BY <1>0, <1>5, <2>1 DEF IdsIssued, TypeOK, Execution
    <3>2. outbox'[k].batch = outbox[k].batch /\ outbox'[k].id = outbox[k].id
      BY <1>2, <3>1, RowLife
    <3>3. QED
      BY <1>3, <1>5, <2>1, <3>2
  <2>2. ASSUME run[i].pc = "send", run'[i].id = run[i].id, outbox' = outbox,
               NEW c \in run[i].cur, owed' = owed \ (run[i].fresh \X {c})
        PROVE  FALSE
    <3>1. k \in RowsOf(run[i].id)
      BY <1>0, <1>2, <1>5, <2>2 DEF RowsOf
    <3>2. outbox[k].batch = run[i].fresh /\ k[1] \in run[i].cur
      BY <2>2, <3>1 DEF RowsMatch
    <3>3. k[1] = c
      BY <1>0, <2>2, <3>2 DEF RunsPlaced, Placed
    <3>4. QED
      BY <2>2, <3>2, <3>3
  <2>3. ASSUME outbox' = outbox, NEW d \in run[i].claimed, run'[i].id = d.id,
               owed' = owed \ (d.batch \X {d.chan})
        PROVE  FALSE
    <3>1. k \in RowsOf(d.id)
      BY <1>0, <1>2, <1>5, <2>3 DEF RowsOf
    <3>2. outbox[k].batch = d.batch /\ k[1] = d.chan
      BY <3>1 DEF RowsMatch
    <3>3. QED
      BY <2>3, <3>2
  <2>4. QED
    BY <1>0, <1>5, <2>1, <2>2, <2>3, SuccessMoves
<1>6. QED
  BY <1>4, <1>5

\* A run cut before it has opened a channel's row carried nothing for that channel.
LEMMA CutsCarryNothing ==
  ASSUME Lossless, Base, HomesApart, OnTime, RowsMatch, NEW i \in Inst, NEW c \in Chan,
         NEW o \in run[i].fresh, NotYet(i, c)
  PROVE  ~(LoadFails(i) \/ Crash(i) \/ \E q \in Occ : RecordFails(i, q))
<1>0. TypeOK /\ Placed(run[i]) /\ AtHome(run[i]) /\ o \in Occ
  BY DEF Base, RunsPlaced, HomesApart, TypeOK, Execution
<1>1. run[i].pc # "chans" /\ run[i].pc \in {"log", "open", "send", "note"}
  BY <1>0 DEF NotYet, Placed
<1>2. ASSUME run[i].pc = "log", NEW q \in HomeDue(i)
      PROVE  FALSE
  <2>1. q \in run[i].due /\ q \in Occ /\ SubHome[q.sub] \in run[i].home
    BY <1>0, <1>2 DEF HomeDue, TypeOK, Execution
  <2>2. SubHome[q.sub] = SubHome[o.sub]
    BY <1>0, <2>1 DEF AtHome
  <2>3. q.due - run[i].day = DefaultLead /\ o.due - run[i].day = DefaultLead
    BY <2>1 DEF OnTime
  <2>4. q.due \in Int /\ o.due \in Int /\ run[i].day \in Int /\ DefaultLead \in Int
    BY <1>0, <2>1, ConstantsAssumption DEF TypeOK, Execution, Day
  <2>5. q.due = o.due
    BY <2>3, <2>4
  <2>6. q = o
    BY <1>0, <2>1, <2>2, <2>5 DEF Lossless, OnePerDate
  <2>7. QED
    BY <1>0, <2>1, <2>6 DEF Placed
<1>3. ASSUME run[i].pc \in CrashAt
      PROVE  FALSE
  <2>1. run[i].pc \in {"send", "note"}
    BY <1>1, <1>3 DEF Lossless
  <2>2. c \in run[i].queue
    BY <2>1 DEF NotYet
  <2>3. PICK e \in run[i].cur : e \in Chan
    BY <1>0, <2>1 DEF RowsMatch, TypeOK, Execution
  <2>4. ChanHome[c] = ChanHome[e]
    BY <1>0, <2>2, <2>3 DEF AtHome
  <2>5. c = e
    BY <1>3, <2>1, <2>3, <2>4 DEF Lossless
  <2>6. QED
    BY <1>0, <2>2, <2>3, <2>5 DEF Placed
<1>4. QED
  BY <1>0, <1>1, <1>2, <1>3, CutEffects DEF Lossless

\* What a run has still to send stays in its hands until a row holds it.
LEMMA RunsCarry ==
  ASSUME Lossless, Base, HomesApart, OnTime, RowsMatch, [Next]_vars, NEW i \in Inst,
         NEW c \in Chan, NEW o \in run[i].fresh, NotYet(i, c), chanState[c] = "live",
         <<o, c>> \notin skipped'
  PROVE  \/ o \in run'[i].fresh /\ NotYet(i, c)'
         \/ \E k \in Chan \X Day : /\ k[1] = c /\ outbox'[k].status = "pending"
                                   /\ o \in outbox'[k].batch
<1> DEFINE kept == o \in run'[i].fresh /\ NotYet(i, c)'
<1>0. TypeOK /\ Placed(run[i]) /\ AtHome(run[i])
  BY DEF Base, RunsPlaced, HomesApart
<1>1. CASE run'[i] = run[i]
  BY <1>1 DEF NotYet, HomeChans
<1>2. ~(Start(i) \/ LoadChannels(i) \/ NextHousehold(i) \/ NextBatch(i))
  BY <1>0, StartEffects, LoadChannelsEffects, NextHouseholdEffects, NextBatchEffects
     DEF NotYet, Placed
<1>3. ~(ClaimRetries(i) \/ ClaimFails(i) \/ Purge(i))
  BY <1>0, ClaimedEffects, ClaimFailsEffects, PurgeEffects DEF NotYet, Placed
<1>4. ASSUME NEW d \in run[i].claimed,
             Resend(i, d) \/ (NoteRetry(i, d) \/ NoteRetryFails(i, d) \/ DropUnreadable(i, d))
      PROVE  FALSE
  BY <1>0, <1>4, ResendEffects, RetriedEffects DEF NotYet, Placed
<1>5. ASSUME NEW q \in Occ, Record(i, q)
      PROVE  kept
  <2>1. /\ run[i].pc = "log" /\ run'[i].pc = "log" /\ run'[i].chans = run[i].chans
        /\ run'[i].home = run[i].home /\ run[i].fresh \subseteq run'[i].fresh
    BY <1>0, <1>5, JournalEffects DEF Fields
  <2>2. c \in HomeChans(i)
    BY <1>0, <2>1 DEF NotYet, Placed
  <2>3. QED
    BY <2>1, <2>2 DEF NotYet, HomeChans
<1>6. CASE CloseBatch(i)
  <2> DEFINE q == IF run[i].fresh = {} THEN {} ELSE HomeChans(i)
  <2>0. q = HomeChans(i)
    OBVIOUS
  <2>1. run[i].pc = "log" /\ run'[i].queue = q /\ run'[i].fresh = run[i].fresh
    BY <1>0, <1>6, CloseBatchEffects DEF Fields
  <2> HIDE DEF q
  <2>2. c \in HomeChans(i)
    BY <1>0, <2>1 DEF NotYet, Placed
  <2>3. QED
    BY <2>0, <2>1, <2>2 DEF NotYet
<1>7. ASSUME NEW e \in Chan, SkipChannel(i, e) \/ OpenFails(i, e)
      PROVE  kept
  <2>1. /\ run[i].pc = "open" /\ run'[i].fresh = run[i].fresh
        /\ run'[i].queue = run[i].queue \ {e}
    BY <1>0, <1>7, SkipChannelEffects, OpenFailsEffects DEF Fields
  <2>2. c \in run[i].queue
    BY <2>1 DEF NotYet
  <2>3. e # c
    <3>1. CASE SkipChannel(i, e)
      <4>1. skipped' = skipped \cup (run[i].fresh \X {e})
        BY <1>0, <3>1, SkipChannelEffects
      <4>2. QED
        BY <4>1
    <3>2. CASE OpenFails(i, e)
      <4>1. chanState[e] # "live"
        BY <1>0, <3>2, OpenFailsEffects DEF Lossless
      <4>2. QED
        BY <4>1
    <3>3. QED
      BY <1>7, <3>1, <3>2
  <2>4. QED
    BY <2>1, <2>2, <2>3 DEF NotYet
<1>8. ASSUME NEW e \in Chan, Open(i, e)
      PROVE  kept \/ \E k \in Chan \X Day : /\ k[1] = c /\ outbox'[k].status = "pending"
                                            /\ o \in outbox'[k].batch
  <2>1. /\ run[i].pc = "open" /\ run'[i].fresh = run[i].fresh
        /\ run'[i].queue = run[i].queue \ {e}
    BY <1>0, <1>8, OpenedEffects DEF Fields
  <2>2. CASE e # c
    BY <2>1, <2>2 DEF NotYet
  <2>3. CASE e = c
    <3> DEFINE k == KeyFor(i, c)
    <3>1. k \in Chan \X Day /\ k[1] = c /\ outbox[k].id = 0
      BY <1>0, <1>8, <2>3, OpenedRow, OpensNew DEF KeyFor, Lossless
    <3>2. outbox'[k].status = "pending" /\ outbox'[k].batch = run[i].fresh
      BY <1>0, <1>8, <2>3, <3>1, OpenedRow
    <3>3. QED
      BY <3>1, <3>2
  <2>4. QED
    BY <2>2, <2>3
<1>9. CASE Send(i) \/ (Note(i) \/ NoteFails(i))
  <2>1. /\ run[i].pc # "log" /\ run'[i].fresh = run[i].fresh
        /\ run'[i].queue = run[i].queue
    BY <1>0, <1>9, SendEffects, NotedEffects DEF Fields
  <2>2. QED
    BY <2>1 DEF NotYet
<1>10. CASE Start(i) \/ Step(i) \/ Crash(i)
  BY <1>2, <1>3, <1>4, <1>5, <1>6, <1>7, <1>8, <1>9, <1>10, FewSteps, CutsCarryNothing
<1>11. ASSUME NEW j \in Inst \ {i}, Start(j) \/ Step(j) \/ Crash(j)
       PROVE  run'[i] = run[i]
  BY <1>0, <1>11, OthersStand DEF Others
<1>12. Environment \/ UNCHANGED vars => run'[i] = run[i]
  BY <1>0, EnvironmentEffects DEF vars
<1>13. QED
  BY <1>1, <1>10, <1>11, <1>12 DEF Next

\* What waits in a row waits there until it is sent, or given up.
LEMMA RowsCarry ==
  ASSUME Lossless, Base, HomesApart, OnTime, Settled, [Next]_vars, NEW k \in Chan \X Day,
         outbox[k].status = "pending", NEW o \in outbox[k].batch, <<o, k[1]>> \in owed,
         <<o, k[1]>> \in owed', chanState'[k[1]] = "live"
  PROVE  outbox'[k].status = "pending" /\ outbox'[k].batch = outbox[k].batch
<1>0. TypeOK /\ RowsIdentified /\ outbox[k] \in Row /\ outbox[k].id # 0 /\ k[1] \in Chan
  BY DEF Base, TypeOK, RowsIdentified
<1>1. ASSUME NEW i \in Inst, run[i].pc \in {"note", "renote"}, run[i].id = outbox[k].id
      PROVE  ~run[i].ok
  BY <1>1 DEF Settled
<1>2. ASSUME DeleteChannel(k[1])
      PROVE  FALSE
  BY <1>0, <1>2 DEF DeleteChannel, TypeOK
<1>3. ASSUME NEW i \in Inst, Open(i, k[1]), run[i].day = k[2]
      PROVE  FALSE
  <2>1. k = KeyFor(i, k[1])
    BY <1>3 DEF KeyFor
  <2>2. QED
    BY <1>0, <1>3, <2>1, OpensNew DEF Lossless
<1>4. ~Expired(outbox[k])
  BY DEF Expired
<1>5. ASSUME NEW n \in Nat, ~Abandons(n)
      PROVE  FailedRow(outbox[k], n).status = "pending"
             /\ FailedRow(outbox[k], n).batch = outbox[k].batch
  BY <1>0, <1>5, FailedFields
<1>6. ASSUME NEW i \in Inst, Note(i), k \in RowsOf(run[i].id),
             outbox'[k] = ConcludedRow(outbox[k], run[i].ok, 1)
      PROVE  outbox'[k].status = "pending" /\ outbox'[k].batch = outbox[k].batch
  <2>1. run[i].pc = "note" /\ run[i].id = outbox[k].id
    BY <1>6 DEF Note, RowsOf
  <2>2. ~run[i].ok
    BY <1>1, <2>1
  <2>3. QED
    BY <1>5, <1>6, <2>2, Delays DEF ConcludedRow
<1>7. ASSUME NEW i \in Inst, NEW d \in run[i].claimed, k \in RowsOf(d.id), NoteRetry(i, d),
             outbox'[k] = ConcludedRow(outbox[k], run[i].ok, d.attempts)
      PROVE  outbox'[k].status = "pending" /\ outbox'[k].batch = outbox[k].batch
  <2>1. run[i].pc = "renote" /\ run[i].id = outbox[k].id /\ d.attempts \in Nat
        /\ owed' = owed \ GivenUp(outbox', d.id)
    BY <1>0, <1>7 DEF NoteRetry, RowsOf, TypeOK, Execution, Claim
  <2>2. outbox'[k] = FailedRow(outbox[k], d.attempts)
    BY <1>1, <1>7, <2>1 DEF ConcludedRow
  <2>3. CASE Abandons(d.attempts)
    <3>1. outbox'[k].status = "abandoned" /\ outbox'[k].batch = outbox[k].batch
      BY <1>0, <2>2, <2>3, AbandonedFields DEF FailedRow
    <3>2. QED
      BY <1>7, <2>1, <3>1, GivenUpThen
  <2>4. QED
    BY <1>5, <2>1, <2>2, <2>3
<1>8. ASSUME NEW i \in Inst, NEW d \in run[i].claimed, k \in RowsOf(d.id), DropUnreadable(i, d),
             outbox'[k] = AbandonedRow(outbox[k])
      PROVE  FALSE
  <2>1. owed' = owed \ GivenUp(outbox', d.id)
    BY <1>8 DEF DropUnreadable, Lossless
  <2>2. outbox'[k].status = "abandoned" /\ outbox'[k].batch = outbox[k].batch
    BY <1>0, <1>8, AbandonedFields
  <2>3. QED
    BY <1>8, <2>1, <2>2, GivenUpThen
<1>9. outbox'[k] \in {outbox[k], TickedRow(outbox[k]), ClaimedRow(outbox[k])} =>
        outbox'[k].status = "pending" /\ outbox'[k].batch = outbox[k].batch
  BY <1>0, TickedFields, ClaimedFields
<1>10. QED
  BY <1>0, <1>2, <1>3, <1>4, <1>6, <1>7, <1>8, <1>9, RowMoves

\* What was not passed over is still carried by a run or by a row.
LEMMA StillCarriedStep ==
  ASSUME Lossless, LossInv, [Next]_vars
  PROVE  StillCarried'
<1>0. /\ Base /\ TypeOK /\ HomesApart /\ OnTime /\ ChansSeen /\ RowsMatch /\ Settled
      /\ StillCarried
  BY DEF LossInv, Base
<1> SUFFICES ASSUME NEW p \in owed', p \notin skipped', chanState'[p[2]] = "live"
             PROVE  \/ \E i \in Inst : p[1] \in run'[i].fresh /\ NotYet(i, p[2])'
                    \/ \E k \in Chan \X Day : /\ k[1] = p[2] /\ outbox'[k].status = "pending"
                                              /\ p[1] \in outbox'[k].batch
  BY DEF StillCarried, NotYet, HomeChans
<1>1. CASE p \notin owed
  <2>1. PICK i \in Inst, o \in Occ : Record(i, o) /\ o \notin log /\ p \in {o} \X HomeChans(i)
    BY <1>0, <1>1, OwedMoves
  <2>2. /\ run'[i].pc = "log" /\ run'[i].chans = run[i].chans /\ run'[i].home = run[i].home
        /\ o \in run'[i].fresh
    BY <1>0, <2>1, JournalEffects DEF Fields
  <2>3. p[1] = o /\ p[2] \in HomeChans(i)
    BY <2>1
  <2>4. QED
    BY <2>2, <2>3 DEF NotYet, HomeChans
<1>2. CASE p \in owed
  <2> DEFINE o == p[1]
             c == p[2]
  <2>1. o \in Occ /\ c \in Chan /\ p = <<o, c>> /\ p \notin skipped
    BY <1>0, <1>2, SkippedStays DEF TypeOK
  <2>2. chanState[c] # "new"
    BY <1>0, <1>2 DEF ChansSeen
  <2>3. chanState[c] = "live"
    BY <1>0, <2>1, <2>2, ChansAge
  <2>4. CASE \E i \in Inst : o \in run[i].fresh /\ NotYet(i, c)
    BY <1>0, <2>1, <2>3, <2>4, RunsCarry
  <2>5. ASSUME NEW k \in Chan \X Day, k[1] = c, outbox[k].status = "pending", o \in outbox[k].batch
        PROVE  outbox'[k].status = "pending" /\ o \in outbox'[k].batch
    BY <1>0, <1>2, <2>1, <2>5, RowsCarry
  <2>6. \/ \E i \in Inst : o \in run[i].fresh /\ NotYet(i, c)
        \/ \E k \in Chan \X Day : k[1] = c /\ outbox[k].status = "pending" /\ o \in outbox[k].batch
    BY <1>0, <1>2, <2>1, <2>3 DEF StillCarried
  <2>7. QED
    BY <2>4, <2>5, <2>6
<1>3. QED
  BY <1>1, <1>2

\* What is said of losses holds at first.
LEMMA LossInit == Init => LossInv
<1> SUFFICES ASSUME Init PROVE LossInv
  OBVIOUS
<1>1. Base /\ HomesApart
  BY BaseInit
<1>2. \A i \in Inst : run[i] = Idle
  BY DEF Init
<1>3. \A k \in Chan \X Day : outbox[k].batch = {} /\ owed = {}
  BY DEF Init, NoRow
<1>4. owed = {}
  BY DEF Init
<1>5. QED
  BY <1>1, <1>2, <1>3, <1>4 DEF LossInv, OnTime, ChansSeen, RowsMatch, Settled, StillCarried, Idle

\* Every step of a deployment without losses keeps it.
LEMMA LossStep == ASSUME Lossless PROVE LossInv /\ [Next]_vars => LossInv'
<1> SUFFICES ASSUME LossInv, [Next]_vars PROVE LossInv'
  OBVIOUS
<1>1. Base /\ TypeOK /\ RowsIdentified /\ RunsPlaced
  BY DEF LossInv, Base
<1>2. Base' /\ HomesApart' /\ TypeOK' /\ RowsIdentified'
  BY HomesNext DEF LossInv, Base
<1>3. OnTime'
  BY <1>1, OnTimeStep DEF LossInv, Lossless
<1>4. ChansSeen' /\ StillCarried'
  BY <1>1, ChansSeenStep, StillCarriedStep DEF LossInv
<1>5. RowsMatch' /\ Settled'
  BY <1>2, RowsMatchStep, SettledStep DEF LossInv, Lossless
<1>6. QED
  BY <1>2, <1>3, <1>4, <1>5 DEF LossInv

\* Where a household has one occurrence per date, no statement fails and no run
\* stops between an insert into the journal and the rows of the channels it is
\* for, nothing is lost: crashes between runs, during a send to a household's only
\* channel and anywhere in a retry, deleted channels, lost keys and false failure
\* reports included.
THEOREM NothingIsLost == ASSUME Lossless PROVE Spec => []OwedToItsHousehold
<1>1. LossInv => OnlySkippedLost
  <2> SUFFICES ASSUME LossInv, NEW p \in owed \ skipped, chanState[p[2]] = "live"
               PROVE  Carried(p[1], p[2])
    BY DEF OnlySkippedLost
  <2>1. ASSUME NEW i \in Inst, p[1] \in run[i].fresh, NotYet(i, p[2])
        PROVE  Carried(p[1], p[2])
    BY <2>1 DEF NotYet, Carried
  <2>2. ASSUME NEW k \in Chan \X Day, k[1] = p[2], outbox[k].status = "pending",
               p[1] \in outbox[k].batch
        PROVE  Carried(p[1], p[2])
    <3>1. k = <<p[2], k[2]>> /\ k[2] \in Day
      BY <2>2
    <3>2. QED
      BY <2>2, <3>1 DEF Carried
  <2>3. QED
    BY <2>1, <2>2 DEF LossInv, StillCarried
<1>2. LossInv => OwedToItsHousehold
  BY <1>1, Isolation DEF LossInv, OwedToItsHousehold
<1>3. QED
  BY <1>2, LossInit, LossStep, PTL DEF Spec

=============================================================================
