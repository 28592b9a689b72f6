---------------------------- MODULE DomainProofs ----------------------------
(* The process, the outbox, the feed and the device, each for every value of  *)
(* its constants, then the parts together.                                    *)
EXTENDS MCDomain, FiguresProofs

-----------------------------------------------------------------------------
(* Lifecycle: the start, the requests and the end of the process.            *)

\* Where a request is.
Places == {"away", "asked", "holding", "released", "answered", "failed", "cut"}

\* The configuration was checked before the database, the address before the
\* requests; the pool closes early only when no request is left.
LifeInv ==
  /\ env \in Environments /\ conn \in [Connections -> Places] /\ overdue \in BOOLEAN
  /\ phase \notin {"off", "refused"} => Blocking(env) = {}
  /\ phase \in Running => ResolvesListenAddr(env["LISTEN_ADDR"])
  /\ phase \in {"closing", "stopped"} /\ ~overdue => \A r \in Connections : conn[r] \notin InDrain
  /\ CutOnlyOverdue

\* The process starts with its invariant.
LEMMA LifeInvInit == LifeInit => LifeInv
  BY DEF LifeInit, LifeInv, Places, Running, CutOnlyOverdue

\* Every step of the process keeps it.
LEMMA LifeInvStep == LifeInv /\ [LifeNext]_lifeVars => LifeInv'
<1> SUFFICES ASSUME LifeInv, [LifeNext]_lifeVars PROVE LifeInv'
  OBVIOUS
<1> USE DEF LifeInv
<1>1. CASE ValidateStartup \/ OpenDatabase \/ Listen \/ Signal
  BY <1>1 DEF ValidateStartup, OpenDatabase, Listen, Signal, To, Running, CutOnlyOverdue
<1>2. CASE Drained \/ GraceElapses
  BY <1>2 DEF Drained, GraceElapses, To, Running, CutOnlyOverdue
<1>3. CASE CloseDatabase
  BY <1>3 DEF CloseDatabase, Running, CutOnlyOverdue, InDrain, Places, Awaited
<1>4. ASSUME NEW r \in Connections, Accept(r) \/ Release(r) \/ Reply(r)
      PROVE  LifeInv'
  BY <1>4 DEF Accept, Release, Reply, Running, CutOnlyOverdue, InDrain, Places
<1>5. ASSUME NEW r \in Connections, Acquire(r)
      PROVE  LifeInv'
  BY <1>5 DEF Acquire, Running, CutOnlyOverdue, InDrain, Places
<1>6. CASE UNCHANGED lifeVars
  BY <1>6 DEF lifeVars, Running, CutOnlyOverdue, InDrain
<1>7. QED
  BY <1>1, <1>2, <1>3, <1>4, <1>5, <1>6 DEF LifeNext

\* A request is cut, or refused by the pool, when the grace period has elapsed
\* only, and no statement is, for any number of requests.
THEOREM ShutdownCutsOverdue == LifeSpec => []CutOnlyOverdue
<1>1. LifeInv => CutOnlyOverdue
  BY DEF LifeInv
<1>2. QED
  BY <1>1, LifeInvInit, LifeInvStep, PTL DEF LifeSpec

\* A process that runs read each setting as its start reports it.
LEMMA SettingsRead ==
  ASSUME LifeInv PROVE SettingsAsReported
<1> SUFFICES ASSUME phase \in Running PROVE SettingsAsReported
  BY DEF SettingsAsReported
<1> DEFINE attempts == env["AUTH_RATELIMIT_MAX_ATTEMPTS"]
           secure == env["SESSION_COOKIE_SECURE"]
           asGiven(v) == Present(env[v]) /\ v \notin Warnings(env)
<1>1. env \in [Variables -> Raw \union {Unset}] /\ Unset \notin Raw
  BY LifecycleAssumption DEF LifeInv
<1>2. /\ "AUTH_RATELIMIT_MAX_ATTEMPTS" \in Variables /\ "SESSION_COOKIE_SECURE" \in Variables
      /\ Expects["AUTH_RATELIMIT_MAX_ATTEMPTS"] = "PositiveInt"
      /\ Expects["SESSION_COOKIE_SECURE"] = "Bool"
      /\ "AUTH_RATELIMIT_MAX_ATTEMPTS" \notin Missed /\ "SESSION_COOKIE_SECURE" \notin Missed
  BY DEF Variables, Expects, Missed
<1>3. Present(env["DATABASE_URL"])
  BY DEF LifeInv, Running, Blocking, Required
<1>4. env["LISTEN_ADDR"] \in {Unset, "address"}
  BY DEF LifeInv, ResolvesListenAddr
<1>5. asGiven("AUTH_RATELIMIT_MAX_ATTEMPTS") <=> attempts = "two"
  BY <1>1, <1>2 DEF Warnings, Present, Matches, Raw
<1>6. asGiven("SESSION_COOKIE_SECURE") <=> secure \in {"true", "false"}
  BY <1>1, <1>2 DEF Warnings, Present, Matches, Raw
<1>7. MaxAttemptsRead(attempts) = IF asGiven("AUTH_RATELIMIT_MAX_ATTEMPTS") THEN 2 ELSE 5
  BY <1>5 DEF MaxAttemptsRead
<1>8. CookieSecure(secure) = IF asGiven("SESSION_COOKIE_SECURE") THEN secure = "true" ELSE TRUE
  BY <1>6 DEF CookieSecure
<1>9. QED
  BY <1>3, <1>4, <1>7, <1>8 DEF SettingsAsReported

\* The interface never answers for the API, nor keeps what it answers of an error.
LEMMA InterfaceApart == InterfaceBesideApi
<1> SUFFICES ASSUME NEW w \in WebRequests
             PROVE  LET body == Served(env, w)
                        kept == CachePolicy(w, body)
                    IN /\ w.path = "api" /\ ~w.file => body = "problem"
                       /\ body = "problem" => kept = "none"
                       /\ body = "document" => kept = "no-cache" \/ w.path = "asset"
  BY DEF InterfaceBesideApi
<1> DEFINE body == Served(env, w)
           kept == CachePolicy(w, body)
<1>1. body \in {"problem", "file", "document"} /\ (w.path = "api" /\ ~w.file => body = "problem")
  BY DEF Served, SpaFallback
<1> HIDE DEF body
<1>2. body = "problem" => kept = "none"
  BY DEF CachePolicy
<1>3. body = "document" /\ w.path # "asset" => kept = "no-cache"
  BY DEF CachePolicy
<1>4. QED
  BY <1>1, <1>2, <1>3 DEF body

\* Whatever the environment and the directory hold, the server reads what it said
\* it would, and no path of the API answers the document.
THEOREM ServesAsConfigured == LifeSpec => []ServedAsConfigured
<1>1. LifeInv => ServedAsConfigured
  BY SettingsRead, InterfaceApart DEF ServedAsConfigured
<1>2. QED
  BY <1>1, LifeInvInit, LifeInvStep, PTL DEF LifeSpec

-----------------------------------------------------------------------------
(* Outbox: the edits of the device and the batches that carry them.          *)

Number == 1 .. MaxEdits
Batch == Seq(Number)

\* The values of the outbox.
OutboxTypeOK ==
  /\ queue \in Batch /\ flush \in [Flushers -> Batch]
  /\ wire \subseteq [ops : Batch \ {<<>>}, nth : Nat]
  /\ failures \in Nat /\ edits \in 0 .. MaxEdits /\ effect \in Nat
  /\ executed \in [Number -> Nat] /\ sends \in [Number -> Nat]
  /\ crossed \in BOOLEAN

\* The batches under way.
UnderWay == {flush[f] : f \in InFlight} \union {late.ops : late \in wire}

\* A batch ends with its latest edit, which the queue is the latest of all.
Ascends(ops) == ops # <<>> /\ \A n \in Number : Contains(ops, n) => n <= Last(ops)
InTurn ==
  /\ queue # <<>> => Last(queue) = edits
  /\ \A n \in Number : Contains(queue, n) \/ executed[n] > 0 => n <= edits
  /\ \A ops \in UnderWay : Ascends(ops) /\ Last(ops) <= edits

\* What is queued while a batch is under way is part of it, or was hidden.
SentOrHidden ==
  \A f \in InFlight : \A n \in Number :
    Contains(queue, n) => Contains(flush[f], n) \/ n \in hidden

\* As long as no two batches were together, each is under way alone.
Alone ==
  ~crossed =>
    /\ \A f, g \in InFlight : f = g
    /\ InFlight # {} => wire = {}
    /\ \A late, other \in wire : late = other

\* No batch under way ends before what was executed, and what was executed after
\* the last execution is queued.  For the batch that ends half way: what it carries
\* is queued, and what is no longer queued is older than all that is.
LastExecuted ==
  ~crossed =>
    /\ \A n \in Number : executed[n] > 0 =>
         /\ n <= effect \/ Contains(queue, n)
         /\ \A ops \in UnderWay : n <= Last(ops)
         /\ ~Contains(queue, n) => \A m \in Number : Contains(queue, m) => n < m
    /\ \A ops \in UnderWay : \A n \in Number : Contains(ops, n) => Contains(queue, n)

\* Without a failure, what is queued or sent has not been executed.
ExecutedOnce ==
  failures = 0 /\ ~crossed =>
    /\ wire = {}
    /\ \A n \in Number : executed[n] <= 1
    /\ \A n \in Number : Contains(queue, n) => executed[n] = 0
    /\ \A ops \in UnderWay : \A n \in Number : Contains(ops, n) => executed[n] = 0

\* The batches under way that carry n.
Senders(n) == {f \in Flushers : Contains(flush[f], n)}
Lates(n) == {late \in wire : Contains(late.ops, n)}
\* Each execution of an edit, done or to come, is a send of its own.
SendsCounted ==
  /\ IsFiniteSet(wire) /\ \A late \in wire : late.nth < failures
  /\ \A n \in Number :
       executed[n] + Cardinality(Senders(n)) + Cardinality(Lates(n)) <= sends[n]

\* The invariant of the outbox.
OutboxInv ==
  /\ OutboxTypeOK /\ InTurn /\ SentOrHidden /\ EditsKept
  /\ Alone /\ LastExecuted /\ ExecutedOnce /\ SendsCounted

-----------------------------------------------------------------------------
\* An empty batch carries no edit.
LEMMA NothingContained == \A n : ~Contains(<<>>, n)
  BY DEF Contains

\* A queue with one more edit carries that edit and those it had.
LEMMA ContainsQueued ==
  ASSUME NEW ops \in Batch, NEW n \in Number, NEW m \in Number
  PROVE  Contains(Queued(ops, n), m) <=> Contains(ops, m) \/ m = n
<1>1. /\ Len(Append(ops, n)) = Len(ops) + 1 /\ Append(ops, n)[Len(ops) + 1] = n
      /\ \A i \in 1 .. Len(ops) : Append(ops, n)[i] = ops[i]
      /\ Len(ops) \in Nat
  BY DEF Batch
<1>2. QED
  BY <1>1 DEF Contains, Queued

\* The edit that is queued is the last of the queue.
LEMMA LastQueued ==
  ASSUME NEW ops \in Batch, NEW n \in Number
  PROVE  Queued(ops, n) \in Batch /\ Last(Queued(ops, n)) = n /\ Queued(ops, n) # <<>>
  BY DEF Batch, Queued, Last

\* The last edit of a batch is one of its edits.
LEMMA LastIn ==
  ASSUME NEW ops \in Batch, ops # <<>>
  PROVE  Last(ops) \in Number /\ Contains(ops, Last(ops))
<1>1. Len(ops) \in 1 .. Len(ops)
  BY DEF Batch
<1>2. ops[Len(ops)] \in Number
  BY <1>1 DEF Batch
<1>3. QED
  BY <1>1, <1>2 DEF Contains, Last

\* An executed batch counts once for each edit it carries, and for no other.
LEMMA CountedFields ==
  ASSUME NEW count \in [Number -> Nat], NEW ops
  PROVE  /\ Counted(count, ops) \in [Number -> Nat]
         /\ \A n \in Number : /\ Contains(ops, n) => Counted(count, ops)[n] = count[n] + 1
                              /\ ~Contains(ops, n) => Counted(count, ops)[n] = count[n]
<1>1. DOMAIN count = Number
  OBVIOUS
<1>2. \A n \in Number : (IF Contains(ops, n) THEN 1 ELSE 0) \in {0, 1}
  OBVIOUS
<1>3. QED
  BY <1>1, <1>2 DEF Counted

\* What is executed of a batch belongs to it, up to its last operation executed.
LEMMA PartExecuted ==
  ASSUME NEW ops \in Batch, NEW k \in 0 .. Len(ops)
  PROVE  /\ \A n : Contains(Executed(ops, k), n) => Contains(ops, n)
         /\ k # 0 => ops[k] \in Number /\ Contains(ops, ops[k])
<1>1. Len(ops) \in Nat /\ \A i \in 1 .. Len(ops) : ops[i] \in Number
  BY DEF Batch
<1>2. Len(Executed(ops, k)) = k /\ \A i \in 1 .. k : Executed(ops, k)[i] = ops[i]
  BY <1>1 DEF Executed, Batch
<1>3. \A i \in 1 .. k : i \in 1 .. Len(ops)
  BY <1>1
<1>4. QED
  BY <1>1, <1>2, <1>3 DEF Contains

\* A batch executed to its end is executed whole, its last edit last.
LEMMA AllExecuted ==
  ASSUME NEW ops \in Batch, ops # <<>>
  PROVE  /\ Executed(ops, Len(ops)) = ops /\ ops[Len(ops)] = Last(ops)
         /\ Len(ops) \in 0 .. Len(ops) /\ Len(ops) # 0
  BY DEF Executed, Batch, Last

\* What a server that executes a part of a batch does to the counts.
LEMMA PushCounts ==
  ASSUME OutboxTypeOK, NEW ops \in Batch, NEW k \in 0 .. Len(ops), Push(ops, k)
  PROVE  /\ executed' \in [Number -> Nat] /\ effect' \in Nat
         /\ \A n \in Number : /\ executed'[n] \in {executed[n], executed[n] + 1}
                              /\ executed'[n] # executed[n] => Contains(ops, n)
<1>1. executed' = Counted(executed, Executed(ops, k)) /\ executed \in [Number -> Nat]
      /\ effect' = (IF k = 0 THEN effect ELSE ops[k]) /\ effect \in Nat
  BY DEF Push, OutboxTypeOK
<1>2. effect' \in Nat
  BY <1>1, PartExecuted DEF Number
<1>3. QED
  BY <1>1, <1>2, CountedFields, PartExecuted

-----------------------------------------------------------------------------
(* What each step does to the batches. *)

\* Every step of the outbox keeps its values.
LEMMA TypeKept == OutboxTypeOK /\ [OutboxNext]_outboxVars => OutboxTypeOK'
<1> SUFFICES ASSUME OutboxTypeOK, [OutboxNext]_outboxVars PROVE OutboxTypeOK'
  OBVIOUS
<1> USE DEF OutboxTypeOK
<1>0. <<>> \in Batch
  BY DEF Batch
<1>1. CASE Enqueue
  <2>1. edits + 1 \in Number
    BY <1>1, OutboxAssumption DEF Enqueue, Number
  <2>2. Queued(queue, edits + 1) \in Batch
    BY <2>1, LastQueued
  <2>3. QED
    BY <1>1, <2>1, <2>2 DEF Enqueue, Number
<1>2. ASSUME NEW f \in Flushers, FlushOutbox(f)
      PROVE  OutboxTypeOK'
  BY <1>2, CountedFields DEF FlushOutbox
<1>3. ASSUME NEW f \in Flushers, Answered(f)
      PROVE  OutboxTypeOK'
  <2>0. flush[f] \in Batch /\ flush[f] # <<>>
    BY <1>3 DEF Answered
  <2>1. executed' \in [Number -> Nat] /\ effect' \in Nat
    BY <1>3, <2>0, AllExecuted, PushCounts DEF Answered
  <2>2. queue' \in Batch
    BY <1>0, <1>3 DEF Answered, Settle, ClearOutbox
  <2>3. QED
    BY <1>0, <1>3, <2>1, <2>2 DEF Answered
<1>4. ASSUME NEW f \in Flushers, TurnedDown(f) \/ GiveUp(f)
      PROVE  OutboxTypeOK'
  <2>1. flush' \in [Flushers -> Batch] /\ failures' \in Nat
    BY <1>0, <1>4 DEF TurnedDown, GiveUp
  <2>2. queue' = queue /\ wire' \subseteq [ops : Batch \ {<<>>}, nth : Nat]
    BY <1>4 DEF TurnedDown, GiveUp, Settle
  <2>3. executed' \in [Number -> Nat] /\ effect' \in Nat
    BY <1>4, PushCounts DEF TurnedDown, GiveUp
  <2>4. QED
    BY <1>4, <2>1, <2>2, <2>3 DEF TurnedDown, GiveUp
<1>5. CASE ArriveLate
  <2>1. PICK late \in wire : /\ \E k \in 0 .. Len(late.ops) : Push(late.ops, k)
                             /\ wire' = wire \ {late}
    BY <1>5 DEF ArriveLate
  <2>2. executed' \in [Number -> Nat] /\ effect' \in Nat
    BY <2>1, PushCounts
  <2>3. QED
    BY <1>5, <2>1, <2>2 DEF ArriveLate
<1>6. CASE UNCHANGED outboxVars
  BY <1>6 DEF outboxVars
<1>7. QED
  BY <1>1, <1>2, <1>3, <1>4, <1>5, <1>6 DEF OutboxNext

\* A call of flushOutbox sends all that is queued.
LEMMA FlushMoves ==
  ASSUME OutboxTypeOK, NEW f \in Flushers, FlushOutbox(f)
  PROVE  /\ queue # <<>> /\ InFlight' = InFlight \union {f} /\ f \notin InFlight
         /\ flush'[f] = queue /\ \A g \in Flushers \ {f} : flush'[g] = flush[g]
         /\ UnderWay' = UnderWay \union {queue}
         /\ crossed' = (crossed \/ InFlight # {} \/ wire # {}) /\ sends' = Counted(sends, queue)
         /\ UNCHANGED <<queue, wire, failures, edits, executed, effect, hidden>>
<1>1. /\ flush[f] = <<>> /\ queue # <<>> /\ flush'[f] = queue
      /\ \A g \in Flushers \ {f} : flush'[g] = flush[g] /\ wire' = wire
  BY DEF FlushOutbox, OutboxTypeOK
<1>2. InFlight' = InFlight \union {f} /\ f \notin InFlight
  BY <1>1 DEF InFlight
<1>3. UnderWay' = UnderWay \union {queue}
  BY <1>1, <1>2 DEF UnderWay, FlushOutbox
<1>4. QED
  BY <1>1, <1>2, <1>3 DEF FlushOutbox

\* A call ends: its batch was executed, whole or in part, or may still arrive.
LEMMA EndMoves ==
  ASSUME OutboxTypeOK, NEW f \in Flushers, Answered(f) \/ TurnedDown(f) \/ GiveUp(f)
  PROVE  /\ f \in InFlight /\ InFlight' = InFlight \ {f} /\ flush[f] # <<>> /\ flush[f] \in UnderWay
         /\ flush'[f] = <<>> /\ \A g \in Flushers \ {f} : flush'[g] = flush[g]
         /\ UnderWay' \subseteq UnderWay
         /\ wire' = wire \/ (GiveUp(f) /\ wire' = wire \union {[ops |-> flush[f], nth |-> failures]})
         /\ UNCHANGED <<edits, hidden, sends, crossed>>
<1>1. /\ flush[f] # <<>> /\ flush'[f] = <<>>
      /\ \A g \in Flushers \ {f} : flush'[g] = flush[g]
      /\ UNCHANGED <<edits, hidden, sends, crossed>>
  BY DEF Answered, TurnedDown, GiveUp, OutboxTypeOK
<1>2. f \in InFlight /\ InFlight' = InFlight \ {f}
  BY <1>1 DEF InFlight
<1>3. flush[f] \in UnderWay
  BY <1>2 DEF UnderWay
<1>4. wire' = wire \/ (GiveUp(f) /\ wire' = wire \union {[ops |-> flush[f], nth |-> failures]})
  BY DEF Answered, TurnedDown, GiveUp
<1>5. \A g \in InFlight' : flush'[g] \in UnderWay
  BY <1>1, <1>2 DEF UnderWay, InFlight
<1>6. \A late \in wire' : late.ops \in UnderWay
  BY <1>3, <1>4 DEF UnderWay
<1>7. UnderWay' \subseteq UnderWay
  BY <1>5, <1>6 DEF UnderWay
<1>8. QED
  BY <1>1, <1>2, <1>3, <1>4, <1>7

\* A late request executes its batch, and nothing else on the device moves.
LEMMA LateMoves ==
  ASSUME OutboxTypeOK, ArriveLate
  PROVE  /\ \E late \in wire : /\ wire' = wire \ {late} /\ late.ops \in UnderWay
                               /\ \E k \in 0 .. Len(late.ops) : Push(late.ops, k)
         /\ UnderWay' \subseteq UnderWay /\ InFlight' = InFlight
         /\ UNCHANGED <<queue, flush, failures, edits, hidden, sends, crossed>>
<1>1. PICK late \in wire : /\ \E k \in 0 .. Len(late.ops) : Push(late.ops, k)
                           /\ wire' = wire \ {late}
  BY DEF ArriveLate
<1>2. late.ops \in UnderWay
  BY DEF UnderWay
<1>3. InFlight' = InFlight /\ UnderWay' \subseteq UnderWay
  BY <1>1 DEF ArriveLate, InFlight, UnderWay
<1>4. QED
  BY <1>1, <1>2, <1>3 DEF ArriveLate

\* Every step queues an edit, sends the queue, executes a part of a batch under way,
\* all of it when the queue goes, or moves none of the edits.
LEMMA OutboxMoves ==
  ASSUME OutboxTypeOK, [OutboxNext]_outboxVars
  PROVE  \/ Enqueue
         \/ \E f \in Flushers : FlushOutbox(f)
         \/ /\ \E ops \in UnderWay : \E k \in 0 .. Len(ops) :
                 /\ Push(ops, k)
                 /\ \/ queue' = queue
                    \/ /\ queue' = <<>> /\ k = Len(ops)
                       /\ \E f \in InFlight : Answered(f) /\ ops = flush[f]
            /\ UnderWay' \subseteq UnderWay /\ InFlight' \subseteq InFlight
            /\ UNCHANGED <<edits, hidden, sends, crossed>>
         \/ /\ UnderWay' \subseteq UnderWay /\ InFlight' \subseteq InFlight
            /\ UNCHANGED <<queue, edits, executed, effect, hidden, sends, crossed>>
<1>0. ASSUME NEW f \in Flushers, Answered(f) \/ TurnedDown(f) \/ GiveUp(f)
      PROVE  /\ f \in InFlight /\ flush[f] \in UnderWay
             /\ UnderWay' \subseteq UnderWay /\ InFlight' \subseteq InFlight
             /\ UNCHANGED <<edits, hidden, sends, crossed>>
  BY <1>0, EndMoves
<1>1. ASSUME NEW f \in Flushers, Answered(f)
      PROVE  /\ Push(flush[f], Len(flush[f])) /\ Len(flush[f]) \in 0 .. Len(flush[f])
             /\ queue' = <<>>
  BY <1>1, AllExecuted DEF Answered, Settle, ClearOutbox, OutboxTypeOK
<1>2. ASSUME NEW f \in Flushers, TurnedDown(f)
      PROVE  queue' = queue /\ \E k \in 0 .. Len(flush[f]) : Push(flush[f], k)
  BY <1>2 DEF TurnedDown, Settle
<1>3. ASSUME NEW f \in Flushers, GiveUp(f)
      PROVE  UNCHANGED <<queue, executed, effect>>
  BY <1>3 DEF GiveUp
<1>4. CASE UNCHANGED outboxVars
  BY <1>4 DEF outboxVars, UnderWay, InFlight
<1>5. CASE ArriveLate
  <2>1. PICK late \in wire : late.ops \in UnderWay /\ \E k \in 0 .. Len(late.ops) : Push(late.ops, k)
    BY <1>5, LateMoves
  <2>2. /\ UnderWay' \subseteq UnderWay /\ InFlight' \subseteq InFlight
        /\ UNCHANGED <<queue, edits, hidden, sends, crossed>>
    BY <1>5, LateMoves
  <2>3. QED
    BY <1>5, <2>1, <2>2
<1>6. QED
  BY <1>0, <1>1, <1>2, <1>3, <1>4, <1>5 DEF OutboxNext

\* A batch under way is made of edits, and is not empty.
LEMMA UnderWayBatch ==
  ASSUME OutboxTypeOK, NEW ops \in UnderWay
  PROVE  ops \in Batch /\ ops # <<>>
  BY DEF UnderWay, InFlight, OutboxTypeOK

\* Every step keeps the batches in the order of the edits.
LEMMA InTurnKept == OutboxTypeOK /\ InTurn /\ [OutboxNext]_outboxVars => InTurn'
<1> SUFFICES ASSUME OutboxTypeOK, InTurn, [OutboxNext]_outboxVars PROVE InTurn'
  OBVIOUS
<1>0. edits \in Nat /\ queue \in Batch /\ \A n : ~Contains(<<>>, n)
  BY NothingContained DEF OutboxTypeOK
<1>1. CASE Enqueue
  <2>1. edits + 1 \in Number /\ edits' = edits + 1 /\ queue' = Queued(queue, edits + 1)
        /\ executed' = executed
    BY <1>0, <1>1, OutboxAssumption DEF Enqueue, Number
  <2>2. UnderWay' = UnderWay
    BY <1>1 DEF Enqueue, UnderWay, InFlight
  <2>3. Last(queue') = edits'
    BY <1>0, <2>1, LastQueued
  <2>4. \A n \in Number : Contains(queue', n) \/ executed'[n] > 0 => n <= edits'
    BY <1>0, <2>1, ContainsQueued DEF InTurn, Number
  <2>5. \A ops \in UnderWay : Last(ops) \in Number
    BY LastIn DEF UnderWay, InFlight, OutboxTypeOK
  <2>6. \A ops \in UnderWay : Last(ops) <= edits'
    BY <1>0, <2>1, <2>5 DEF InTurn, Number
  <2>7. QED
    BY <2>2, <2>3, <2>4, <2>6 DEF InTurn, Ascends
<1>2. ASSUME NEW f \in Flushers, FlushOutbox(f)
      PROVE  InTurn'
  <2>1. /\ UnderWay' = UnderWay \union {queue} /\ queue # <<>>
        /\ UNCHANGED <<queue, edits, executed>>
    BY <1>2, FlushMoves
  <2>2. Ascends(queue) /\ Last(queue) <= edits
    BY <1>0, <2>1 DEF Ascends, InTurn
  <2>3. QED
    BY <2>1, <2>2 DEF InTurn, Ascends
<1>3. ASSUME NEW ops \in UnderWay, NEW k \in 0 .. Len(ops), Push(ops, k), UnderWay' \subseteq UnderWay,
             queue' = queue \/ queue' = <<>>, edits' = edits
      PROVE  InTurn'
  <2>1. Ascends(ops) /\ Last(ops) <= edits /\ ops \in Batch /\ ops # <<>>
    BY UnderWayBatch DEF InTurn
  <2>2. Last(ops) \in Nat
    BY <2>1, LastIn DEF Number
  <2>3. \A n \in Number : executed'[n] > 0 => executed[n] > 0 \/ Contains(ops, n)
    BY <1>3, <2>1, PushCounts
  <2>4. \A n \in Number : Contains(ops, n) => n <= edits
    BY <1>0, <2>1, <2>2 DEF Ascends, Number
  <2>5. \A n \in Number : executed'[n] > 0 => n <= edits
    BY <2>3, <2>4 DEF InTurn
  <2>6. QED
    BY <1>0, <1>3, <2>5 DEF InTurn, Ascends
<1>4. CASE UnderWay' \subseteq UnderWay /\ UNCHANGED <<queue, edits, executed>>
  BY <1>4 DEF InTurn, Ascends
<1>5. QED
  <2>1. CASE \E ops \in UnderWay : \E k \in 0 .. Len(ops) :
               /\ Push(ops, k) /\ UnderWay' \subseteq UnderWay
               /\ (queue' = queue \/ queue' = <<>>) /\ edits' = edits
    BY <1>3, <2>1
  <2>2. QED
    BY <1>1, <1>2, <1>4, <2>1, OutboxMoves

\* Every step keeps what is queued during a send among what is sent or hidden.
LEMMA SentKept == OutboxTypeOK /\ SentOrHidden /\ [OutboxNext]_outboxVars => SentOrHidden'
<1> SUFFICES ASSUME OutboxTypeOK, SentOrHidden, [OutboxNext]_outboxVars PROVE SentOrHidden'
  OBVIOUS
<1>0. \A n : ~Contains(<<>>, n)
  BY NothingContained
<1>1. CASE Enqueue
  <2>1. edits + 1 \in Number /\ queue' = Queued(queue, edits + 1) /\ flush' = flush
        /\ hidden \subseteq hidden' /\ (InFlight # {} => edits + 1 \in hidden')
    BY <1>1, OutboxAssumption DEF Enqueue, Number, OutboxTypeOK
  <2>2. InFlight' = InFlight
    BY <2>1 DEF InFlight
  <2>3. \A n \in Number : Contains(queue', n) <=> Contains(queue, n) \/ n = edits + 1
    BY <2>1, ContainsQueued DEF OutboxTypeOK
  <2>4. QED
    BY <2>1, <2>2, <2>3 DEF SentOrHidden
<1>2. ASSUME NEW f \in Flushers, FlushOutbox(f)
      PROVE  SentOrHidden'
  <2>1. /\ flush'[f] = queue /\ \A g \in Flushers \ {f} : flush'[g] = flush[g]
        /\ InFlight' = InFlight \union {f} /\ UNCHANGED <<queue, hidden>>
    BY <1>2, FlushMoves
  <2>2. InFlight \subseteq Flushers
    BY DEF InFlight
  <2>3. QED
    BY <2>1, <2>2 DEF SentOrHidden
<1>3. ASSUME NEW f \in Flushers, Answered(f) \/ TurnedDown(f) \/ GiveUp(f)
      PROVE  SentOrHidden'
  <2>1. /\ \A g \in Flushers \ {f} : flush'[g] = flush[g]
        /\ InFlight' = InFlight \ {f} /\ hidden' = hidden /\ InFlight \subseteq Flushers
    BY <1>3, EndMoves DEF InFlight
  <2>2. queue' \in {queue, <<>>}
    BY <1>3 DEF Answered, TurnedDown, GiveUp, Settle, ClearOutbox
  <2>3. QED
    BY <1>0, <2>1, <2>2 DEF SentOrHidden
<1>4. CASE ArriveLate \/ UNCHANGED outboxVars
  BY <1>4 DEF ArriveLate, outboxVars, InFlight, SentOrHidden
<1>5. QED
  BY <1>1, <1>2, <1>3, <1>4 DEF OutboxNext

\* An edit leaves the queue only executed or hidden.
LEMMA EditsStayKept ==
  OutboxTypeOK /\ SentOrHidden /\ EditsKept /\ [OutboxNext]_outboxVars => EditsKept'
<1> SUFFICES ASSUME OutboxTypeOK, SentOrHidden, EditsKept, [OutboxNext]_outboxVars,
                    NEW n \in 1 .. edits'
             PROVE  executed'[n] > 0 \/ Contains(queue', n) \/ n \in hidden'
  BY DEF EditsKept
<1>0. n \in Number
  <2>1. OutboxTypeOK'
    BY TypeKept
  <2>2. edits' \in 0 .. MaxEdits
    BY <2>1 DEF OutboxTypeOK
  <2>3. QED
    BY <2>2, OutboxAssumption DEF Number
<1>1. CASE Enqueue
  <2>1. edits + 1 \in Number /\ edits' = edits + 1 /\ queue' = Queued(queue, edits + 1)
        /\ executed' = executed /\ hidden \subseteq hidden' /\ edits \in Nat
    BY <1>1, OutboxAssumption DEF Enqueue, Number, OutboxTypeOK
  <2>2. Contains(queue', n) <=> Contains(queue, n) \/ n = edits + 1
    BY <1>0, <2>1, ContainsQueued DEF OutboxTypeOK
  <2>3. QED
    BY <2>1, <2>2 DEF EditsKept
<1>2. ASSUME NEW f \in Flushers, FlushOutbox(f)
      PROVE  executed'[n] > 0 \/ Contains(queue', n) \/ n \in hidden'
  BY <1>2, FlushMoves DEF EditsKept
<1>3. ASSUME NEW ops \in UnderWay, NEW k \in 0 .. Len(ops), Push(ops, k), edits' = edits,
             hidden' = hidden,
             queue' = queue \/ (k = Len(ops) /\ \E f \in InFlight : ops = flush[f])
      PROVE  executed'[n] > 0 \/ Contains(queue', n) \/ n \in hidden'
  <2>1. executed[n] > 0 => executed'[n] > 0
    <3>1. executed'[n] \in {executed[n], executed[n] + 1} /\ executed[n] \in Nat
      BY <1>0, <1>3, UnderWayBatch, PushCounts DEF OutboxTypeOK
    <3>2. QED
      BY <3>1
  <2>2. CASE queue' = queue
    BY <1>3, <2>1, <2>2 DEF EditsKept
  <2>3. CASE k = Len(ops) /\ \E f \in InFlight : ops = flush[f]
    <3>1. executed' = Counted(executed, ops)
      BY <1>3, <2>3, UnderWayBatch, AllExecuted DEF Push
    <3>2. Contains(ops, n) => executed'[n] > 0
      BY <1>0, <3>1, CountedFields DEF OutboxTypeOK
    <3>3. Contains(queue, n) => Contains(ops, n) \/ n \in hidden
      BY <1>0, <2>3 DEF SentOrHidden
    <3>4. QED
      BY <1>3, <2>1, <3>2, <3>3 DEF EditsKept
  <2>4. QED
    BY <1>3, <2>2, <2>3
<1>4. CASE UNCHANGED <<queue, edits, executed, hidden>>
  BY <1>4 DEF EditsKept
<1>5. QED
  BY <1>1, <1>2, <1>3, <1>4, OutboxMoves

\* Without two batches together, a batch is alone until it is answered or executed.
LEMMA AloneKept == OutboxTypeOK /\ Alone /\ [OutboxNext]_outboxVars => Alone'
<1> SUFFICES ASSUME OutboxTypeOK, Alone, [OutboxNext]_outboxVars PROVE Alone'
  OBVIOUS
<1>1. ASSUME NEW f \in Flushers, FlushOutbox(f)
      PROVE  Alone'
  BY <1>1, FlushMoves DEF Alone
<1>2. ASSUME NEW f \in Flushers, Answered(f) \/ TurnedDown(f) \/ GiveUp(f)
      PROVE  Alone'
  <2>1. /\ f \in InFlight /\ InFlight' = InFlight \ {f} /\ crossed' = crossed
        /\ wire' = wire \/ wire' = wire \union {[ops |-> flush[f], nth |-> failures]}
    BY <1>2, EndMoves
  <2>2. QED
    BY <2>1 DEF Alone
<1>3. CASE ArriveLate
  BY <1>3, LateMoves DEF Alone
<1>4. CASE Enqueue \/ UNCHANGED outboxVars
  BY <1>4 DEF Enqueue, outboxVars, Alone, InFlight
<1>5. QED
  BY <1>1, <1>2, <1>3, <1>4 DEF OutboxNext

\* No two batches under way differ, unless two calls met.
LEMMA OneUnderWay ==
  ASSUME Alone, ~crossed
  PROVE  \A ops, other \in UnderWay : ops = other
  BY DEF Alone, UnderWay

\* An answer that clears the queue leaves nothing under way.
LEMMA ClearedAlone ==
  ASSUME OutboxTypeOK, Alone, ~crossed, NEW f \in InFlight, Answered(f)
  PROVE  UnderWay' = {}
<1>1. f \in Flushers
  BY DEF InFlight
<1>2. InFlight' = InFlight \ {f} /\ wire' = wire
  BY <1>1, EndMoves DEF Answered
<1>3. InFlight' = {} /\ wire' = {}
  BY <1>2 DEF Alone
<1>4. QED
  BY <1>3 DEF UnderWay

\* Batches that are alone execute in the order of the edits, those that end half way
\* excepted, which are queued still.
LEMMA LastExecutedKept ==
  OutboxTypeOK /\ InTurn /\ Alone /\ LastExecuted /\ [OutboxNext]_outboxVars => LastExecuted'
<1> SUFFICES ASSUME OutboxTypeOK, InTurn, Alone, LastExecuted, [OutboxNext]_outboxVars, ~crossed'
             PROVE  LastExecuted'
  BY DEF LastExecuted
<1>0. executed \in [Number -> Nat] /\ edits \in Nat /\ effect \in Nat /\ queue \in Batch
      /\ (\A n : ~Contains(<<>>, n)) /\ Number \subseteq Nat
  BY NothingContained DEF OutboxTypeOK, Number
<1>1. CASE Enqueue
  <2>1. UnderWay' = UnderWay /\ UNCHANGED <<executed, effect, crossed>>
        /\ edits + 1 \in Number /\ queue' = Queued(queue, edits + 1)
    BY <1>0, <1>1, OutboxAssumption DEF Enqueue, UnderWay, InFlight, Number
  <2>2. \A n \in Number : Contains(queue', n) <=> Contains(queue, n) \/ n = edits + 1
    BY <1>0, <2>1, ContainsQueued
  <2>3. \A n \in Number : executed[n] > 0 => n < edits + 1
    BY <1>0 DEF InTurn
  <2>4. QED
    BY <2>1, <2>2, <2>3 DEF LastExecuted
<1>2. ASSUME NEW f \in Flushers, FlushOutbox(f)
      PROVE  LastExecuted'
  <2>1. /\ queue # <<>> /\ UnderWay' = UnderWay \union {queue} /\ ~crossed
        /\ UNCHANGED <<executed, effect, queue>>
    BY <1>2, FlushMoves
  <2>2. \A n \in Number : executed[n] > 0 => n <= Last(queue)
    BY <2>1 DEF InTurn
  <2>3. QED
    BY <2>1, <2>2 DEF LastExecuted
<1>3. ASSUME NEW ops \in UnderWay, NEW k \in 0 .. Len(ops), Push(ops, k), UnderWay' \subseteq UnderWay,
             crossed' = crossed, queue' = queue
      PROVE  LastExecuted'
  <2>0. ops \in Batch
    BY UnderWayBatch
  <2>1. \A n \in Number : executed'[n] > 0 => executed[n] > 0 \/ Contains(ops, n)
    BY <2>0, <1>3, PushCounts
  <2>2. \A n \in Number : Contains(ops, n) => Contains(queue, n)
    BY <1>3 DEF LastExecuted
  <2>3. \A n \in Number : executed'[n] > 0 => Contains(queue, n) \/ executed[n] > 0
    BY <2>1, <2>2
  <2>4. ASSUME NEW n \in Number, executed'[n] > 0, ~Contains(queue, n)
        PROVE  n <= effect'
    <3>1. executed[n] > 0
      BY <2>3, <2>4
    <3>2. CASE k = 0
      BY <1>3, <2>4, <3>1, <3>2 DEF Push, LastExecuted
    <3>3. CASE k # 0
      <4>1. effect' = ops[k] /\ ops[k] \in Number /\ Contains(queue, ops[k])
        BY <1>3, <2>0, <2>2, <3>3, PartExecuted DEF Push
      <4>2. n < ops[k]
        BY <1>3, <2>4, <3>1, <4>1 DEF LastExecuted
      <4>3. n \in Nat /\ ops[k] \in Nat
        BY <1>0, <4>1
      <4>4. QED
        BY <4>1, <4>2, <4>3
    <3>4. QED
      BY <3>2, <3>3
  <2>5. ASSUME NEW n \in Number, executed'[n] > 0, NEW other \in UnderWay'
        PROVE  n <= Last(other)
    <3>1. other = ops
      BY <1>3, <2>5, OneUnderWay
    <3>2. QED
      BY <1>3, <2>1, <2>5, <3>1 DEF LastExecuted, InTurn, Ascends
  <2>6. ASSUME NEW n \in Number, executed'[n] > 0, ~Contains(queue, n), NEW m \in Number, Contains(queue, m)
        PROVE  n < m
    BY <1>3, <2>3, <2>6 DEF LastExecuted
  <2>7. \A other \in UnderWay' : \A n \in Number : Contains(other, n) => Contains(queue, n)
    BY <1>3 DEF LastExecuted
  <2>8. QED
    BY <1>3, <2>4, <2>5, <2>6, <2>7 DEF LastExecuted
<1>4. ASSUME NEW f \in InFlight, Answered(f), Push(flush[f], Len(flush[f])), queue' = <<>>,
             crossed' = crossed
      PROVE  LastExecuted'
  <2>1. UnderWay' = {} /\ flush[f] \in UnderWay
    BY <1>4, ClearedAlone DEF UnderWay
  <2>2. flush[f] \in Batch /\ flush[f] # <<>>
    BY <2>1, UnderWayBatch
  <2>3. effect' = Last(flush[f])
    BY <1>4, <2>2, AllExecuted DEF Push
  <2>4. \A n \in Number : executed'[n] > 0 => executed[n] > 0 \/ Contains(flush[f], n)
    BY <1>4, <2>2, AllExecuted, PushCounts
  <2>5. \A n \in Number : executed'[n] > 0 => n <= effect'
    BY <1>4, <2>1, <2>3, <2>4 DEF LastExecuted, InTurn, Ascends
  <2>6. QED
    BY <1>0, <1>4, <2>1, <2>5 DEF LastExecuted
<1>5. CASE UnderWay' \subseteq UnderWay /\ UNCHANGED <<queue, executed, effect, crossed>>
  BY <1>5 DEF LastExecuted
<1>6. CASE \E ops \in UnderWay : \E k \in 0 .. Len(ops) :
             /\ Push(ops, k)
             /\ \/ queue' = queue
                \/ queue' = <<>> /\ k = Len(ops) /\ \E f \in InFlight : Answered(f) /\ ops = flush[f]
             /\ UnderWay' \subseteq UnderWay /\ crossed' = crossed
  BY <1>3, <1>4, <1>6
<1>7. QED
  BY <1>1, <1>2, <1>5, <1>6, OutboxMoves

\* Without a failure, a batch that is alone is executed once.
LEMMA ExecutedOnceKept ==
  OutboxTypeOK /\ InTurn /\ Alone /\ ExecutedOnce /\ [OutboxNext]_outboxVars => ExecutedOnce'
<1> SUFFICES ASSUME OutboxTypeOK, InTurn, Alone, ExecutedOnce, [OutboxNext]_outboxVars,
                    failures' = 0, ~crossed'
             PROVE  /\ wire' = {}
                    /\ \A n \in Number : executed'[n] <= 1
                    /\ \A n \in Number : Contains(queue', n) => executed'[n] = 0
                    /\ \A ops \in UnderWay' : \A n \in Number : Contains(ops, n) => executed'[n] = 0
  BY DEF ExecutedOnce
<1> DEFINE Goal == /\ wire' = {}
                   /\ \A n \in Number : executed'[n] <= 1
                   /\ \A n \in Number : Contains(queue', n) => executed'[n] = 0
                   /\ \A ops \in UnderWay' : \A n \in Number : Contains(ops, n) => executed'[n] = 0
<1>0. failures \in Nat /\ executed \in [Number -> Nat] /\ edits \in Nat
  BY DEF OutboxTypeOK
<1>1. CASE Enqueue
  <2>1. UnderWay' = UnderWay /\ UNCHANGED <<executed, crossed, failures, wire>>
        /\ edits + 1 \in Number /\ queue' = Queued(queue, edits + 1)
    BY <1>1, OutboxAssumption DEF Enqueue, UnderWay, InFlight, Number, OutboxTypeOK
  <2>2. \A n \in Number : Contains(queue', n) <=> Contains(queue, n) \/ n = edits + 1
    BY <2>1, ContainsQueued DEF OutboxTypeOK
  <2>3. executed[edits + 1] = 0
    <3>1. executed[edits + 1] \in Nat
      BY <1>0, <2>1
    <3>2. ~(executed[edits + 1] > 0)
      BY <1>0, <2>1 DEF InTurn
    <3>3. QED
      BY <3>1, <3>2
  <2>4. QED
    BY <2>1, <2>2, <2>3 DEF ExecutedOnce
<1>2. ASSUME NEW f \in Flushers, FlushOutbox(f)
      PROVE  Goal
  <2>1. /\ UnderWay' = UnderWay \union {queue} /\ ~crossed
        /\ UNCHANGED <<queue, wire, failures, executed>>
    BY <1>2, FlushMoves
  <2>2. QED
    BY <2>1 DEF ExecutedOnce
<1>3. ASSUME NEW f \in Flushers, Answered(f)
      PROVE  Goal
  <2>1. /\ f \in InFlight /\ InFlight' = InFlight \ {f} /\ flush[f] \in UnderWay /\ ~crossed
        /\ wire' = wire
    BY <1>3, EndMoves DEF Answered
  <2>2. failures = 0 /\ queue' = <<>> /\ executed' = Counted(executed, flush[f])
    BY <1>0, <1>3, AllExecuted DEF Answered, Settle, ClearOutbox, Push, OutboxTypeOK
  <2>3. wire' = {} /\ InFlight' = {}
    BY <2>1, <2>2 DEF Alone, ExecutedOnce
  <2>4. UnderWay' = {}
    BY <2>3 DEF UnderWay
  <2>5. \A n \in Number : executed'[n] <= 1
    BY <1>0, <2>1, <2>2, CountedFields DEF ExecutedOnce
  <2>6. QED
    BY <2>2, <2>3, <2>4, <2>5, NothingContained
<1>4. ASSUME NEW f \in Flushers, TurnedDown(f) \/ GiveUp(f)
      PROVE  Goal
  BY <1>0, <1>4 DEF TurnedDown, GiveUp
<1>5. CASE ArriveLate
  BY <1>5, LateMoves DEF ExecutedOnce
<1>6. CASE UNCHANGED outboxVars
  BY <1>6 DEF outboxVars, UnderWay, InFlight, ExecutedOnce
<1>7. QED
  BY <1>1, <1>2, <1>3, <1>4, <1>5, <1>6 DEF OutboxNext

\* The calls and the late batches that carry an edit are finitely many.
LEMMA CarriersFinite ==
  ASSUME SendsCounted, NEW n
  PROVE  /\ IsFiniteSet(Senders(n)) /\ IsFiniteSet(Lates(n))
         /\ Cardinality(Senders(n)) \in Nat /\ Cardinality(Lates(n)) \in Nat
  BY OutboxAssumption, FS_Subset, FS_CardinalityType DEF Senders, Lates, SendsCounted

\* No step executes an edit without a send of its own.
LEMMA SendsCountedKept ==
  OutboxTypeOK /\ SendsCounted /\ [OutboxNext]_outboxVars => SendsCounted'
<1> SUFFICES ASSUME OutboxTypeOK, SendsCounted, [OutboxNext]_outboxVars PROVE SendsCounted'
  OBVIOUS
<1> DEFINE SendersNext(n) == {f \in Flushers : Contains(flush'[f], n)}
           LatesNext(n) == {late \in wire' : Contains(late.ops, n)}
           Counts(n) == executed'[n] + Cardinality(SendersNext(n)) + Cardinality(LatesNext(n)) <= sends'[n]
<1>0. /\ failures \in Nat /\ executed \in [Number -> Nat] /\ sends \in [Number -> Nat]
      /\ IsFiniteSet(wire) /\ \A late \in wire : late.nth < failures /\ late.nth \in Nat
  BY DEF OutboxTypeOK, SendsCounted
<1>a. SUFFICES /\ IsFiniteSet(wire') /\ \A late \in wire' : late.nth < failures'
               /\ \A n \in Number : Counts(n)
  BY DEF SendsCounted, Senders, Lates
<1> HIDE DEF SendersNext, LatesNext
<1>b. \A n \in Number : /\ IsFiniteSet(Senders(n)) /\ IsFiniteSet(Lates(n))
                        /\ Cardinality(Senders(n)) \in Nat /\ Cardinality(Lates(n)) \in Nat
                        /\ executed[n] \in Nat /\ sends[n] \in Nat
                        /\ executed[n] + Cardinality(Senders(n)) + Cardinality(Lates(n)) <= sends[n]
  BY <1>0, CarriersFinite DEF SendsCounted
<1>c. \A n : wire' = wire => LatesNext(n) = Lates(n)
  BY DEF Lates, LatesNext
<1>1. CASE Enqueue \/ UNCHANGED outboxVars
  <2>1. UNCHANGED <<wire, flush, failures, executed, sends>>
    BY <1>1 DEF Enqueue, outboxVars
  <2>2. \A n : SendersNext(n) = Senders(n) /\ LatesNext(n) = Lates(n)
    BY <2>1 DEF Senders, Lates, SendersNext, LatesNext
  <2>3. QED
    BY <1>0, <1>b, <2>1, <2>2
<1>2. ASSUME NEW f \in Flushers, FlushOutbox(f)
      PROVE  /\ IsFiniteSet(wire') /\ \A late \in wire' : late.nth < failures'
             /\ \A n \in Number : Counts(n)
  <2>1. /\ flush'[f] = queue /\ \A g \in Flushers \ {f} : flush'[g] = flush[g]
        /\ sends' = Counted(sends, queue) /\ UNCHANGED <<wire, executed, failures>>
    BY <1>2, FlushMoves
  <2>2. \A n : ~Contains(flush[f], n)
    BY <1>2, NothingContained DEF FlushOutbox
  <2>3. ASSUME NEW n \in Number
        PROVE  Counts(n)
    <3>1. CASE Contains(queue, n)
      <4>1. SendersNext(n) = Senders(n) \union {f} /\ f \notin Senders(n)
        BY <2>1, <2>2, <3>1 DEF Senders, SendersNext
      <4>2. Cardinality(SendersNext(n)) = Cardinality(Senders(n)) + 1
        BY <1>b, <4>1, FS_AddElement
      <4>3. sends'[n] = sends[n] + 1
        BY <1>0, <2>1, <3>1, CountedFields
      <4>4. QED
        BY <1>b, <1>c, <2>1, <4>2, <4>3
    <3>2. CASE ~Contains(queue, n)
      <4>1. SendersNext(n) = Senders(n)
        BY <2>1, <2>2, <3>2 DEF Senders, SendersNext
      <4>2. sends'[n] = sends[n]
        BY <1>0, <2>1, <3>2, CountedFields
      <4>3. QED
        BY <1>b, <1>c, <2>1, <4>1, <4>2
    <3>3. QED
      BY <3>1, <3>2
  <2>4. QED
    BY <1>0, <2>1, <2>3
<1>3. ASSUME NEW f \in Flushers, flush'[f] = <<>>, \A g \in Flushers \ {f} : flush'[g] = flush[g]
      PROVE  \A n \in Number :
               /\ Contains(flush[f], n) => Cardinality(SendersNext(n)) = Cardinality(Senders(n)) - 1
               /\ ~Contains(flush[f], n) => SendersNext(n) = Senders(n)
  <2>1. SUFFICES ASSUME NEW n \in Number
                 PROVE  /\ Contains(flush[f], n) => Cardinality(SendersNext(n)) = Cardinality(Senders(n)) - 1
                        /\ ~Contains(flush[f], n) => SendersNext(n) = Senders(n)
    OBVIOUS
  <2>2. CASE Contains(flush[f], n)
    <3>1. SendersNext(n) = Senders(n) \ {f} /\ f \in Senders(n)
      BY <1>3, <2>2, NothingContained DEF Senders, SendersNext
    <3>2. QED
      BY <1>b, <2>2, <3>1, FS_RemoveElement
  <2>3. CASE ~Contains(flush[f], n)
    BY <1>3, <2>3, NothingContained DEF Senders, SendersNext
  <2>4. QED
    BY <2>2, <2>3
<1>4. ASSUME NEW f \in Flushers, Answered(f) \/ TurnedDown(f)
      PROVE  /\ IsFiniteSet(wire') /\ \A late \in wire' : late.nth < failures'
             /\ \A n \in Number : Counts(n)
  <2>1. /\ flush'[f] = <<>> /\ \A g \in Flushers \ {f} : flush'[g] = flush[g]
        /\ sends' = sends
    BY <1>4, EndMoves
  <2>2. wire' = wire /\ failures' \in Nat /\ failures' >= failures
    BY <1>0, <1>4 DEF Answered, TurnedDown
  <2>3. \E k \in 0 .. Len(flush[f]) : Push(flush[f], k)
    BY <1>4, AllExecuted DEF Answered, TurnedDown, OutboxTypeOK
  <2>x. \A n \in Number : /\ executed'[n] \in {executed[n], executed[n] + 1}
                          /\ executed'[n] # executed[n] => Contains(flush[f], n)
    BY <2>3, PushCounts DEF OutboxTypeOK
  <2>4. \A n \in Number : Counts(n)
    <3> SUFFICES ASSUME NEW n \in Number PROVE Counts(n)
      OBVIOUS
    <3>1. LatesNext(n) = Lates(n)
      BY <1>c, <2>2
    <3>2. CASE Contains(flush[f], n)
      <4>1. Cardinality(SendersNext(n)) = Cardinality(Senders(n)) - 1
        BY <1>3, <2>1, <3>2
      <4>2. executed'[n] \in {executed[n], executed[n] + 1}
        BY <2>x
      <4>3. QED
        BY <1>b, <2>1, <3>1, <4>1, <4>2
    <3>3. CASE ~Contains(flush[f], n)
      <4>1. SendersNext(n) = Senders(n)
        BY <1>3, <2>1, <3>3
      <4>2. executed'[n] = executed[n]
        BY <2>x, <3>3
      <4>3. QED
        BY <1>b, <2>1, <3>1, <4>1, <4>2
    <3>4. QED
      BY <3>2, <3>3
  <2>5. QED
    BY <1>0, <2>2, <2>4
<1>5. ASSUME NEW f \in Flushers, GiveUp(f)
      PROVE  /\ IsFiniteSet(wire') /\ \A late \in wire' : late.nth < failures'
             /\ \A n \in Number : Counts(n)
  <2> DEFINE late == [ops |-> flush[f], nth |-> failures]
  <2>1. /\ flush'[f] = <<>> /\ \A g \in Flushers \ {f} : flush'[g] = flush[g]
        /\ sends' = sends
    BY <1>5, EndMoves
  <2>2. wire' = wire \union {late} /\ failures' = failures + 1 /\ executed' = executed
    BY <1>5 DEF GiveUp
  <2>3. late.ops = flush[f] /\ late.nth = failures
    OBVIOUS
  <2>4. late \notin wire
    BY <1>0, <2>3
  <2> HIDE DEF late
  <2>5. IsFiniteSet(wire')
    BY <1>0, <2>2, FS_AddElement
  <2>6. \A other \in wire' : other.nth < failures'
    BY <1>0, <2>2, <2>3
  <2>7. \A n \in Number : Counts(n)
    <3> SUFFICES ASSUME NEW n \in Number PROVE Counts(n)
      OBVIOUS
    <3>1. CASE Contains(flush[f], n)
      <4>1. Cardinality(SendersNext(n)) = Cardinality(Senders(n)) - 1
        BY <1>3, <2>1, <3>1
      <4>2. LatesNext(n) = Lates(n) \union {late} /\ late \notin Lates(n)
        BY <2>2, <2>3, <2>4, <3>1 DEF Lates, LatesNext
      <4>3. Cardinality(LatesNext(n)) = Cardinality(Lates(n)) + 1
        BY <1>b, <4>2, FS_AddElement
      <4>4. QED
        BY <1>b, <2>1, <2>2, <4>1, <4>3
    <3>2. CASE ~Contains(flush[f], n)
      <4>1. SendersNext(n) = Senders(n)
        BY <1>3, <2>1, <3>2
      <4>2. LatesNext(n) = Lates(n)
        BY <2>2, <2>3, <3>2 DEF Lates, LatesNext
      <4>3. QED
        BY <1>b, <2>1, <2>2, <4>1, <4>2
    <3>3. QED
      BY <3>1, <3>2
  <2>8. QED
    BY <2>5, <2>6, <2>7
<1>6. CASE ArriveLate
  <2>1. PICK late \in wire : /\ wire' = wire \ {late} /\ UNCHANGED <<flush, failures, sends>>
                             /\ \E k \in 0 .. Len(late.ops) : Push(late.ops, k)
    BY <1>6, LateMoves
  <2>x. \A n \in Number : /\ executed'[n] \in {executed[n], executed[n] + 1}
                          /\ executed'[n] # executed[n] => Contains(late.ops, n)
    BY <2>1, PushCounts DEF OutboxTypeOK
  <2>2. IsFiniteSet(wire') /\ \A other \in wire' : other.nth < failures'
    BY <1>0, <2>1, FS_RemoveElement
  <2>3. \A n \in Number : Counts(n)
    <3> SUFFICES ASSUME NEW n \in Number PROVE Counts(n)
      OBVIOUS
    <3>1. SendersNext(n) = Senders(n)
      BY <2>1 DEF Senders, SendersNext
    <3>2. CASE Contains(late.ops, n)
      <4>1. LatesNext(n) = Lates(n) \ {late} /\ late \in Lates(n)
        BY <2>1, <3>2 DEF Lates, LatesNext
      <4>2. Cardinality(LatesNext(n)) = Cardinality(Lates(n)) - 1
        BY <1>b, <4>1, FS_RemoveElement
      <4>3. executed'[n] \in {executed[n], executed[n] + 1}
        BY <2>x
      <4>4. QED
        BY <1>b, <2>1, <3>1, <4>2, <4>3
    <3>3. CASE ~Contains(late.ops, n)
      <4>1. LatesNext(n) = Lates(n)
        BY <2>1, <3>3 DEF Lates, LatesNext
      <4>2. executed'[n] = executed[n]
        BY <2>x, <3>3
      <4>3. QED
        BY <1>b, <2>1, <3>1, <4>1, <4>2
    <3>4. QED
      BY <3>2, <3>3
  <2>4. QED
    BY <2>2, <2>3
<1>7. QED
  BY <1>1, <1>2, <1>4, <1>5, <1>6 DEF OutboxNext

-----------------------------------------------------------------------------
\* The outbox starts with its invariant.
LEMMA OutboxStarts == OutboxInit => OutboxInv
<1> SUFFICES ASSUME OutboxInit PROVE OutboxInv
  OBVIOUS
<1>1. /\ InFlight = {} /\ UnderWay = {} /\ wire = {} /\ edits = 0 /\ failures = 0
      /\ \A n \in Number : executed[n] = 0 /\ sends[n] = 0
      /\ queue = <<>> /\ \A n : ~Contains(queue, n)
  BY NothingContained DEF InFlight, UnderWay, Number, OutboxInit
<1>2. OutboxTypeOK
  <2>1. <<>> \in Batch /\ MaxEdits \in Nat
    BY OutboxAssumption DEF Batch
  <2>2. executed \in [Number -> Nat] /\ sends \in [Number -> Nat]
    BY DEF OutboxInit, Number
  <2>3. flush \in [Flushers -> Batch] /\ effect \in Nat /\ crossed \in BOOLEAN
    BY <2>1 DEF OutboxInit
  <2>4. QED
    BY <1>1, <2>1, <2>2, <2>3 DEF OutboxTypeOK
<1>3. InTurn /\ SentOrHidden /\ EditsKept /\ Alone /\ LastExecuted /\ ExecutedOnce
  <2>1. \A n \in Number : ~(executed[n] > 0) /\ executed[n] <= 1
    BY <1>1
  <2>2. 1 .. edits = {}
    BY <1>1
  <2>3. InTurn /\ SentOrHidden /\ EditsKept
    BY <1>1, <2>1, <2>2 DEF InTurn, SentOrHidden, EditsKept
  <2>4. QED
    BY <1>1, <2>1, <2>3 DEF Alone, LastExecuted, ExecutedOnce
<1>4. SendsCounted
  <2>1. \A n \in Number : Senders(n) = {} /\ Lates(n) = {}
    BY <1>1, NothingContained DEF Senders, Lates, InFlight
  <2>2. Cardinality({}) = 0 /\ IsFiniteSet({})
    BY FS_EmptySet
  <2>3. \A n \in Number : executed[n] + Cardinality(Senders(n)) + Cardinality(Lates(n)) <= sends[n]
    <3> SUFFICES ASSUME NEW n \in Number
                 PROVE  executed[n] + Cardinality(Senders(n)) + Cardinality(Lates(n)) <= sends[n]
      OBVIOUS
    <3>1. executed[n] = 0 /\ sends[n] = 0 /\ Cardinality(Senders(n)) = 0 /\ Cardinality(Lates(n)) = 0
      BY <1>1, <2>1, <2>2
    <3>2. QED
      BY <3>1
  <2>4. QED
    BY <1>1, <2>2, <2>3 DEF SendsCounted
<1>5. QED
  BY <1>2, <1>3, <1>4 DEF OutboxInv

\* Every step of the outbox keeps it.
LEMMA OutboxInvKept == OutboxInv /\ [OutboxNext]_outboxVars => OutboxInv'
  BY TypeKept, InTurnKept, SentKept, EditsStayKept, AloneKept, LastExecutedKept, ExecutedOnceKept,
     SendsCountedKept
     DEF OutboxInv

\* What the run of the domain asks of the outbox.
LEMMA OutboxSafe == OutboxInv => EditsKept /\ SendsExplained
<1> SUFFICES ASSUME OutboxInv PROVE EditsKept /\ SendsExplained
  OBVIOUS
<1>0. \A n \in 1 .. edits : n \in Number
  BY OutboxAssumption DEF OutboxInv, OutboxTypeOK, Number
<1>1. RepeatsExplained
  <2>1. SUFFICES ASSUME NEW n \in Number
                 PROVE  /\ executed[n] <= sends[n]
                        /\ failures = 0 /\ ~crossed => executed[n] <= 1
    BY <1>0 DEF RepeatsExplained
  <2>2. executed[n] \in Nat /\ sends[n] \in Nat
    BY DEF OutboxInv, OutboxTypeOK
  <2>3. Cardinality(Senders(n)) \in Nat /\ Cardinality(Lates(n)) \in Nat
    BY CarriersFinite DEF OutboxInv
  <2>4. executed[n] + Cardinality(Senders(n)) + Cardinality(Lates(n)) <= sends[n]
    BY DEF OutboxInv, SendsCounted
  <2>5. executed[n] <= sends[n]
    BY <2>2, <2>3, <2>4
  <2>6. QED
    BY <2>5 DEF OutboxInv, ExecutedOnce
<1>2. LatestEditWins
  BY <1>0 DEF LatestEditWins, OutboxInv, LastExecuted
<1>3. QED
  BY <1>1, <1>2 DEF OutboxInv, SendsExplained

\* For any number of flushes, edits and failures: an edit made on the device was
\* executed, is queued, or was queued while a batch was under way (outbox.ts,
\* flushOutbox and clearOutbox).
THEOREM EditsAreKept == OutboxSpec => []EditsKept
<1>1. OutboxSpec => []OutboxInv
  BY OutboxStarts, OutboxInvKept, PTL DEF OutboxSpec
<1>2. QED
  BY <1>1, OutboxSafe, PTL

\* For any number of flushes, edits and failures: an edit is executed no more often
\* than it was sent, once without a failure nor two batches together; unless two
\* batches were together, an edit newer than the last one executed is still queued
\* when the server executed it before.
THEOREM SendsAreExplained == OutboxSpec => []SendsExplained
<1>1. OutboxSpec => []OutboxInv
  BY OutboxStarts, OutboxInvKept, PTL DEF OutboxSpec
<1>2. QED
  BY <1>1, OutboxSafe, PTL

-----------------------------------------------------------------------------
(* Places of changes: the order of a set of changes and its positions.       *)

Place == [ts : Nat, id : Nat]

\* A set of changes with no two at one place.
Stamped(S) ==
  /\ IsFiniteSet(S) /\ \A c \in S : c.ts \in Nat /\ c.id \in Nat
  /\ \A c, d \in S : c.ts = d.ts /\ c.id = d.id => c = d

\* How many changes come before c.
PlaceIn(S, c) == Cardinality({d \in S : After(c, d)})

\* The order of (updated_at, entity_id) is strict, and total between places.
LEMMA AfterIsStrict ==
  ASSUME NEW S, \A c \in S : c.ts \in Nat /\ c.id \in Nat
  PROVE  /\ \A c \in S : ~After(c, c)
         /\ \A c, d \in S : After(c, d) => ~After(d, c)
         /\ \A c, d, e \in S : After(c, d) /\ After(d, e) => After(c, e)
         /\ \A c, d \in S : After(c, d) \/ After(d, c) \/ (c.ts = d.ts /\ c.id = d.id)
<1>1. \A c \in S : ~After(c, c)
  BY DEF After
<1>2. \A c, d \in S : After(c, d) => ~After(d, c)
  BY DEF After
<1>3. \A c, d, e \in S : After(c, d) /\ After(d, e) => After(c, e)
  BY DEF After
<1>4. \A c, d \in S : After(c, d) \/ After(d, c) \/ (c.ts = d.ts /\ c.id = d.id)
  BY DEF After
<1>5. QED
  BY <1>1, <1>2, <1>3, <1>4

\* A later change has a higher rank, and the ranks are those of the positions.
LEMMA RankGrows ==
  ASSUME NEW S, Stamped(S)
  PROVE  /\ Cardinality(S) \in Nat
         /\ \A c \in S : PlaceIn(S, c) \in Nat /\ PlaceIn(S, c) < Cardinality(S)
         /\ \A c, d \in S : After(c, d) => PlaceIn(S, d) < PlaceIn(S, c)
<1> DEFINE Sooner(c) == {d \in S : After(c, d)}
<1>0. IsFiniteSet(S) /\ Cardinality(S) \in Nat
  BY FS_CardinalityType DEF Stamped
<1>1. \A c \in S : IsFiniteSet(Sooner(c)) /\ Cardinality(Sooner(c)) \in Nat
  BY <1>0, FS_Subset, FS_CardinalityType
<1>2. ASSUME NEW c \in S
      PROVE  PlaceIn(S, c) < Cardinality(S)
  <2>1. Sooner(c) \in SUBSET S /\ c \notin Sooner(c)
    BY AfterIsStrict DEF Stamped
  <2>2. Cardinality(Sooner(c)) <= Cardinality(S) /\ Cardinality(S) # Cardinality(Sooner(c))
    BY <1>0, <2>1, FS_Subset
  <2>3. QED
    BY <1>0, <1>1, <2>2 DEF PlaceIn
<1>3. ASSUME NEW c \in S, NEW d \in S, After(c, d)
      PROVE  PlaceIn(S, d) < PlaceIn(S, c)
  <2>1. Sooner(d) \in SUBSET Sooner(c) /\ d \in Sooner(c) /\ d \notin Sooner(d)
    BY <1>3, AfterIsStrict DEF Stamped
  <2>2. Cardinality(Sooner(d)) <= Cardinality(Sooner(c)) /\ Cardinality(Sooner(c)) # Cardinality(Sooner(d))
    BY <1>1, <2>1, FS_Subset
  <2>3. QED
    BY <1>1, <2>2 DEF PlaceIn
<1>4. QED
  BY <1>0, <1>1, <1>2, <1>3 DEF PlaceIn

\* Every position has its change.
LEMMA RankReached ==
  ASSUME NEW S, Stamped(S), NEW k \in 1 .. Cardinality(S)
  PROVE  \E c \in S : PlaceIn(S, c) = k - 1
<1> DEFINE n == Cardinality(S)
           f == [c \in S |-> PlaceIn(S, c)]
<1>1. n \in Nat /\ n >= 1
  BY RankGrows
<1>2. \A c \in S : PlaceIn(S, c) \in 0 .. n - 1
  BY <1>1, RankGrows
<1>3. f \in [S -> 0 .. n - 1]
  BY <1>2
<1>4. ASSUME NEW c \in S, NEW d \in S, f[c] = f[d]
      PROVE  c = d
  <2>1. PlaceIn(S, c) = PlaceIn(S, d)
    BY <1>4
  <2>2. ~After(c, d) /\ ~After(d, c)
    BY <1>2, <2>1, RankGrows
  <2>3. QED
    BY <2>2, AfterIsStrict DEF Stamped
<1>5. f \in Injection(S, 0 .. n - 1)
  BY <1>3, <1>4 DEF Injection, IsInjective
<1>6. IsFiniteSet(0 .. n - 1) /\ Cardinality(0 .. n - 1) = n
  <2> HIDE DEF n
  <2>1. /\ IsFiniteSet(0 .. n - 1)
        /\ Cardinality(0 .. n - 1) = IF 0 > n - 1 THEN 0 ELSE (n - 1) - 0 + 1
    BY <1>1, FS_Interval
  <2>2. QED
    BY <1>1, <2>1
<1>7. f \in Surjection(S, 0 .. n - 1)
  BY <1>5, <1>6, FS_Injection
<1>8. k - 1 \in 0 .. n - 1
  BY <1>1
<1>9. PICK c \in S : f[c] = k - 1
  BY <1>7, <1>8 DEF Surjection
<1>10. QED
  BY <1>9

\* Two changes with as many before them are one change.
LEMMA SameRank ==
  ASSUME NEW S, Stamped(S), NEW c \in S, NEW d \in S, PlaceIn(S, c) = PlaceIn(S, d)
  PROVE  c = d
<1>1. PlaceIn(S, c) \in Nat
  BY RankGrows
<1>2. ~After(c, d) /\ ~After(d, c)
  BY <1>1, RankGrows
<1>3. QED
  BY <1>2, AfterIsStrict DEF Stamped

\* InOrder enumerates the changes by rank.
LEMMA InOrderRanks ==
  ASSUME NEW S, Stamped(S)
  PROVE  /\ InOrder(S) \in Seq(S) /\ Len(InOrder(S)) = Cardinality(S)
         /\ \A k \in 1 .. Cardinality(S) : InOrder(S)[k] \in S /\ PlaceIn(S, InOrder(S)[k]) = k - 1
         /\ \A c \in S : PlaceIn(S, c) + 1 \in 1 .. Cardinality(S) /\ InOrder(S)[PlaceIn(S, c) + 1] = c
<1> DEFINE n == Cardinality(S)
<1>0. n \in Nat
  BY RankGrows
<1>1. ASSUME NEW k \in 1 .. n
      PROVE  InOrder(S)[k] \in S /\ PlaceIn(S, InOrder(S)[k]) = k - 1
  <2>0. InOrder(S) = [i \in 1 .. n |-> CHOOSE c \in S : PlaceIn(S, c) = i - 1]
    BY DEF InOrder, PlaceIn
  <2>1. InOrder(S)[k] = CHOOSE c \in S : PlaceIn(S, c) = k - 1
    BY <2>0
  <2>2. \E c \in S : PlaceIn(S, c) = k - 1
    BY RankReached
  <2>3. QED
    BY <2>1, <2>2
<1>2. InOrder(S) = [k \in 1 .. n |-> InOrder(S)[k]]
  <2> DEFINE At(i) == CHOOSE c \in S : PlaceIn(S, c) = i - 1
  <2>1. InOrder(S) = [i \in 1 .. n |-> At(i)]
    BY DEF InOrder, PlaceIn
  <2> HIDE DEF At
  <2>2. QED
    BY <2>1
<1>3. InOrder(S) \in Seq(S) /\ Len(InOrder(S)) = n
  BY <1>0, <1>1, <1>2
<1>4. ASSUME NEW c \in S
      PROVE  PlaceIn(S, c) + 1 \in 1 .. n /\ InOrder(S)[PlaceIn(S, c) + 1] = c
  <2>1. PlaceIn(S, c) + 1 \in 1 .. n
    BY <1>0, RankGrows
  <2>2. PlaceIn(S, InOrder(S)[PlaceIn(S, c) + 1]) = PlaceIn(S, c) /\ InOrder(S)[PlaceIn(S, c) + 1] \in S
    BY <1>0, <1>1, <2>1, RankGrows
  <2>3. QED
    BY <2>1, <2>2, SameRank
<1>5. QED
  BY <1>1, <1>3, <1>4

-----------------------------------------------------------------------------
(* Pages.                                                                    *)

\* The changes that the feed holds.
Current == Upserts \union Deletes

\* The first changes after a cursor, as many as the page takes.
Taken(at, limit) ==
  IF Cardinality(Changes(at)) > limit THEN limit ELSE Cardinality(Changes(at))

\* What is after a cursor has no two changes at one place either.
LEMMA ChangesStamped ==
  ASSUME Stamped(Current), NEW at
  PROVE  Stamped(Changes(at))
<1>1. Changes(at) \in SUBSET Current
  BY DEF Changes, Current
<1>2. IsFiniteSet(Changes(at))
  BY <1>1, FS_Subset DEF Stamped
<1>3. QED
  BY <1>1, <1>2 DEF Stamped

\* A page holds the first changes after the cursor, and ends where the last one is.
PageAsTaken(at, limit) ==
  LET S == Changes(at)
      n == Taken(at, limit)
      page == GetSyncChanges(at, limit)
  IN /\ n \in 0 .. Cardinality(S) /\ n <= limit /\ Cardinality(S) \in Nat
     /\ page.changes \in Seq(S) /\ Len(page.changes) = n
     /\ \A i \in 1 .. n : page.changes[i] = InOrder(S)[i]
     /\ page.more <=> Cardinality(S) > limit
     /\ n = 0 => S = {} /\ page.next = at
     /\ n > 0 => page.next = [ts |-> InOrder(S)[n].ts, id |-> InOrder(S)[n].id]
     /\ page.next \in Place
     /\ page.full = RequiresFullResync(at.ts, clock)
     /\ page \in [changes : Seq(S), next : Place, more : BOOLEAN, full : BOOLEAN]

\* Every page is such a page.
LEMMA PageTaken ==
  ASSUME Stamped(Current), NEW at \in Place, NEW limit \in Nat \ {0}
  PROVE  PageAsTaken(at, limit)
<1> DEFINE S == Changes(at)
           n == Taken(at, limit)
           all == InOrder(S)
           taken == SubSeq(all, 1, n)
           next == IF taken = <<>> THEN at ELSE [ts |-> Last(taken).ts, id |-> Last(taken).id]
<1>1. Stamped(S) /\ IsFiniteSet(S)
  BY ChangesStamped DEF Stamped
<1>2. /\ all \in Seq(S) /\ Len(all) = Cardinality(S) /\ Cardinality(S) \in Nat
      /\ \A k \in 1 .. Cardinality(S) : all[k] \in S
  BY <1>1, InOrderRanks, RankGrows
<1>3. n \in 0 .. Cardinality(S) /\ n <= limit
  BY <1>2 DEF Taken
<1>4. GetSyncChanges(at, limit) =
        [changes |-> taken, next |-> next, more |-> Cardinality(S) > limit, full |-> RequiresFullResync(at.ts, clock)]
  <2>1. n = IF Len(all) > limit THEN limit ELSE Len(all)
    BY <1>2 DEF Taken
  <2>2. QED
    BY <1>2, <2>1 DEF GetSyncChanges
<1> HIDE DEF all, n, S
<1>5. taken \in Seq(S) /\ Len(taken) = n /\ \A i \in 1 .. n : taken[i] = all[i]
  BY <1>2, <1>3
<1>6. n = 0 => S = {} /\ next = at
  <2>1. SUFFICES ASSUME n = 0 PROVE S = {} /\ next = at
    OBVIOUS
  <2>2. Cardinality(S) = 0
    BY <1>2, <2>1 DEF n, Taken, S
  <2>3. taken = <<>>
    BY <1>5, <2>1
  <2>4. QED
    BY <1>1, <2>2, <2>3, FS_EmptySet
<1>7. n > 0 => next = [ts |-> all[n].ts, id |-> all[n].id]
  <2>1. SUFFICES ASSUME n > 0 PROVE next = [ts |-> all[n].ts, id |-> all[n].id]
    OBVIOUS
  <2>2. taken # <<>> /\ Last(taken) = all[n]
    <3> HIDE DEF taken
    <3>1. n \in 1 .. n
      BY <1>2, <1>3, <2>1
    <3>2. taken[n] = all[n] /\ Len(taken) = n
      BY <1>5, <3>1
    <3>3. taken # <<>>
      BY <2>1, <3>2
    <3>4. QED
      BY <3>2, <3>3 DEF Last
  <2>3. QED
    BY <2>2
<1>8. next \in Place
  <2>1. CASE n = 0
    BY <1>6, <2>1
  <2>2. CASE n > 0
    <3>1. all[n] \in S
      BY <1>2, <1>3, <2>2
    <3>2. QED
      BY <1>1, <1>7, <2>2, <3>1 DEF Stamped, Place
  <2>3. QED
    BY <1>2, <1>3, <2>1, <2>2
<1> HIDE DEF taken, next
<1>9. /\ GetSyncChanges(at, limit).changes = taken /\ GetSyncChanges(at, limit).next = next
      /\ GetSyncChanges(at, limit).more = (Cardinality(S) > limit)
      /\ GetSyncChanges(at, limit).full = RequiresFullResync(at.ts, clock)
      /\ GetSyncChanges(at, limit) \in [changes : Seq(S), next : Place, more : BOOLEAN, full : BOOLEAN]
  <2>1. RequiresFullResync(at.ts, clock) \in BOOLEAN
    BY DEF RequiresFullResync
  <2>2. QED
    BY <1>4, <1>5, <1>8, <2>1
<1>10. QED
  BY <1>2, <1>3, <1>5, <1>6, <1>7, <1>8, <1>9 DEF PageAsTaken, all, n, S

\* A page takes the changes up to its next cursor, and leaves the others.
LEMMA PageSplits ==
  ASSUME Stamped(Current), NEW at \in Place, NEW limit \in Nat \ {0}
  PROVE  LET S == Changes(at)
             n == Taken(at, limit)
             next == GetSyncChanges(at, limit).next
         IN /\ Changes(next) = {c \in S : PlaceIn(S, c) >= n}
            /\ n > 0 => After(next, at)
<1> DEFINE S == Changes(at)
           n == Taken(at, limit)
           next == GetSyncChanges(at, limit).next
<1>1. /\ n \in 0 .. Cardinality(S) /\ Cardinality(S) \in Nat /\ next \in Place
      /\ n = 0 => S = {} /\ next = at
      /\ n > 0 => next = [ts |-> InOrder(S)[n].ts, id |-> InOrder(S)[n].id]
  BY PageTaken DEF PageAsTaken
<1>2. Stamped(S)
  BY ChangesStamped
<1>3. Changes(next) = {c \in Current : After(c, next)} /\ S = {c \in Current : After(c, at)}
  BY DEF Changes, Current
<1> HIDE DEF next, n, S
<1>4. CASE n = 0
  <2>1. Changes(next) = S /\ S = {}
    BY <1>1, <1>4 DEF S
  <2>2. QED
    BY <1>4, <2>1 DEF S, n, next
<1>5. CASE n > 0
  <2> DEFINE last == InOrder(S)[n]
  <2>1. last \in S /\ PlaceIn(S, last) = n - 1
    BY <1>1, <1>2, <1>5, InOrderRanks
  <2>2. next.ts = last.ts /\ next.id = last.id
    BY <1>1, <1>5
  <2> HIDE DEF last
  <2>3. \A c : After(c, next) <=> After(c, last)
    BY <2>2 DEF After
  <2>4. After(next, at)
    BY <1>3, <2>1, <2>2 DEF After
  <2>5. ASSUME NEW c \in S
        PROVE  After(c, last) <=> PlaceIn(S, c) >= n
    <3>1. PlaceIn(S, c) \in Nat
      BY <1>2, RankGrows
    <3>2. After(c, last) => PlaceIn(S, c) > n - 1
      BY <1>2, <2>1, RankGrows
    <3>3. After(last, c) => PlaceIn(S, c) < n - 1
      BY <1>2, <2>1, RankGrows
    <3>4. c = last => PlaceIn(S, c) = n - 1
      BY <2>1
    <3>5. After(c, last) \/ After(last, c) \/ c = last
      BY <1>2, <2>1, AfterIsStrict DEF Stamped
    <3>6. QED
      BY <1>1, <3>1, <3>2, <3>3, <3>4, <3>5
  <2>6. ASSUME NEW c \in Current, After(c, next)
        PROVE  After(c, at)
    <3>1. /\ c.ts \in Nat /\ c.id \in Nat /\ next.ts \in Nat /\ next.id \in Nat
          /\ at.ts \in Nat /\ at.id \in Nat
      BY <1>1 DEF Stamped, Place
    <3>2. QED
      BY <2>4, <2>6, <3>1 DEF After
  <2>7. Changes(next) = {c \in S : PlaceIn(S, c) >= n}
    BY <1>3, <2>3, <2>5, <2>6
  <2>8. QED
    BY <2>4, <2>7 DEF S, n, next
<1>6. QED
  BY <1>1, <1>4, <1>5

\* What a page leaves has the same order, counted from the end of the page.
LEMMA TailInOrder ==
  ASSUME NEW S, Stamped(S), NEW n \in 0 .. Cardinality(S)
  PROVE  LET T == {c \in S : PlaceIn(S, c) >= n}
         IN /\ Stamped(T) /\ Cardinality(T) = Cardinality(S) - n
            /\ \A k \in 1 .. Cardinality(T) : InOrder(T)[k] = InOrder(S)[n + k]
<1> DEFINE T == {c \in S : PlaceIn(S, c) >= n}
           Opening == S \ T
           f == [k \in 1 .. n |-> InOrder(S)[k]]
<1>0. Cardinality(S) \in Nat /\ IsFiniteSet(S) /\ \A c \in S : PlaceIn(S, c) \in Nat
  BY RankGrows DEF Stamped
<1>1. \A c \in Opening : PlaceIn(S, c) < n
  BY <1>0
<1>2. f \in Bijection(1 .. n, Opening)
  <2>1. \A k \in 1 .. n : InOrder(S)[k] \in Opening /\ PlaceIn(S, InOrder(S)[k]) = k - 1
    BY <1>0, InOrderRanks
  <2>2. f \in [1 .. n -> Opening]
    BY <2>1
  <2>3. \A k, l \in 1 .. n : f[k] = f[l] => k = l
    BY <2>1
  <2>4. ASSUME NEW c \in Opening
        PROVE  \E k \in 1 .. n : f[k] = c
    <3>1. PlaceIn(S, c) + 1 \in 1 .. n /\ InOrder(S)[PlaceIn(S, c) + 1] = c
      BY <1>0, <1>1, InOrderRanks
    <3>2. QED
      BY <3>1
  <2> HIDE DEF f, Opening
  <2>5. f \in Injection(1 .. n, Opening) /\ f \in Surjection(1 .. n, Opening)
    BY <2>2, <2>3, <2>4 DEF Injection, IsInjective, Surjection
  <2>6. QED
    BY <2>5 DEF Bijection
<1>3. IsFiniteSet(Opening) /\ Cardinality(Opening) = n
  <2>1. IsFiniteSet(1 .. n) /\ Cardinality(1 .. n) = n
    BY <1>0, FS_Interval
  <2>2. QED
    BY <1>2, <2>1, FS_Bijection DEF ExistsBijection
<1>4. Stamped(T)
  BY FS_Subset DEF Stamped
<1>5. Cardinality(T) = Cardinality(S) - n
  <2>1. S \ Opening = T /\ S \cap Opening = Opening
    OBVIOUS
  <2>2. Cardinality(S \ Opening) = Cardinality(S) - Cardinality(S \cap Opening)
    BY <1>0, FS_Difference
  <2>3. QED
    BY <1>3, <2>1, <2>2
<1>6. ASSUME NEW c \in T
      PROVE  PlaceIn(S, c) = n + PlaceIn(T, c)
  <2> DEFINE after == {d \in T : After(c, d)}
  <2>1. \A d \in Opening : After(c, d)
    <3> SUFFICES ASSUME NEW d \in Opening PROVE After(c, d)
      OBVIOUS
    <3>1. PlaceIn(S, d) < PlaceIn(S, c)
      BY <1>0, <1>1
    <3>2. ~After(d, c) /\ c # d
      BY <1>0, <3>1, RankGrows
    <3>3. QED
      BY <3>2, AfterIsStrict DEF Stamped
  <2>2. {d \in S : After(c, d)} = Opening \union after /\ Opening \cap after = {}
    BY <2>1
  <2>3. IsFiniteSet(after)
    BY <1>0, FS_Subset
  <2>4. Cardinality(Opening \union after) = Cardinality(Opening) + Cardinality(after) - Cardinality(Opening \cap after)
    BY <1>3, <2>3, FS_Union
  <2>5. Cardinality(Opening \cap after) = 0 /\ Cardinality(after) \in Nat
    BY <2>2, <2>3, FS_EmptySet, FS_CardinalityType
  <2>6. PlaceIn(S, c) = Cardinality(Opening \union after) /\ PlaceIn(T, c) = Cardinality(after)
    BY <2>2 DEF PlaceIn
  <2> HIDE DEF after, Opening, T
  <2>7. QED
    BY <1>3, <2>4, <2>5, <2>6
<1>7. ASSUME NEW k \in 1 .. Cardinality(T)
      PROVE  InOrder(T)[k] = InOrder(S)[n + k]
  <2> DEFINE c == InOrder(T)[k]
  <2>1. c \in T /\ PlaceIn(T, c) = k - 1
    BY <1>4, <1>7, InOrderRanks
  <2> HIDE DEF c
  <2>2. c \in S /\ PlaceIn(S, c) = n + (k - 1)
    BY <1>6, <2>1
  <2>3. InOrder(S)[PlaceIn(S, c) + 1] = c
    BY <2>2, InOrderRanks
  <2>4. PlaceIn(S, c) + 1 = n + k
    BY <1>0, <1>5, <2>2
  <2>5. QED
    BY <2>3, <2>4 DEF c
<1>8. QED
  BY <1>4, <1>5, <1>7

\* Two sequences that copy the parts of a third copy it together.
LEMMA Joined ==
  ASSUME NEW S, NEW s \in Seq(S), NEW t \in Seq(S), NEW all,
         \A i \in 1 .. Len(s) : s[i] = all[i],
         \A i \in 1 .. Len(t) : t[i] = all[Len(s) + i]
  PROVE  /\ s \o t \in Seq(S) /\ Len(s \o t) = Len(s) + Len(t)
         /\ \A i \in 1 .. Len(s) + Len(t) : (s \o t)[i] = all[i]
<1>1. /\ s \o t \in Seq(S) /\ Len(s \o t) = Len(s) + Len(t)
      /\ \A i \in 1 .. Len(s) + Len(t) : (s \o t)[i] = IF i <= Len(s) THEN s[i] ELSE t[i - Len(s)]
  OBVIOUS
<1>2. ASSUME NEW i \in 1 .. Len(s) + Len(t), i > Len(s)
      PROVE  t[i - Len(s)] = all[i]
  <2>1. i - Len(s) \in 1 .. Len(t) /\ Len(s) + (i - Len(s)) = i
    BY <1>2
  <2>2. QED
    BY <2>1
<1>3. \A i \in 1 .. Len(s) + Len(t) : i <= Len(s) => i \in 1 .. Len(s)
  OBVIOUS
<1>4. QED
  BY <1>1, <1>2, <1>3

\* Two pages of any size are the page of twice the size.
Tiles(at, limit) ==
  LET first == GetSyncChanges(at, limit)
      second == GetSyncChanges(first.next, limit)
  IN /\ first.changes \o second.changes = GetSyncChanges(at, 2 * limit).changes
     /\ first.more <=> second.changes # <<>>

\* With no two changes at one place, two pages are the page of twice the size.
LEMMA TilesWhenStamped ==
  ASSUME Stamped(Current), NEW at \in Cursors, NEW limit \in Nat \ {0}
  PROVE  Tiles(at, limit)
<1> DEFINE S == Changes(at)
           N == Cardinality(S)
           n == Taken(at, limit)
           first == GetSyncChanges(at, limit)
           T == Changes(first.next)
           M == Cardinality(T)
           m == Taken(first.next, limit)
           second == GetSyncChanges(first.next, limit)
           both == GetSyncChanges(at, 2 * limit)
           l == Taken(at, 2 * limit)
<1>1. at \in Place
  BY DEF Cursors, Place, Beginning, Stamped, Current
<1>2. limit \in Nat \ {0} /\ 2 * limit \in Nat \ {0}
  OBVIOUS
<1>3. first.next \in Place
  BY <1>1, <1>2, PageTaken DEF PageAsTaken
<1>4. T = {c \in S : PlaceIn(S, c) >= n}
  BY <1>1, <1>2, PageSplits
<1>5. Stamped(S)
  BY ChangesStamped
<1>a. PageAsTaken(at, limit) /\ PageAsTaken(first.next, limit) /\ PageAsTaken(at, 2 * limit)
  BY <1>1, <1>2, <1>3, PageTaken
<1>b. /\ n \in 0 .. N /\ n <= limit /\ N \in Nat /\ first.changes \in Seq(S) /\ Len(first.changes) = n
      /\ \A i \in 1 .. n : first.changes[i] = InOrder(S)[i]
      /\ first.more <=> N > limit
  BY <1>a, Zenon DEF PageAsTaken
<1>7. /\ m \in 0 .. M /\ second.changes \in Seq(T) /\ Len(second.changes) = m
      /\ \A i \in 1 .. m : second.changes[i] = InOrder(T)[i]
  BY <1>a, Zenon DEF PageAsTaken
<1>8. /\ l \in 0 .. N /\ both.changes \in Seq(S) /\ Len(both.changes) = l
      /\ \A i \in 1 .. l : both.changes[i] = InOrder(S)[i]
  BY <1>a, Zenon DEF PageAsTaken
<1>9. /\ n = IF N > limit THEN limit ELSE N
      /\ m = IF M > limit THEN limit ELSE M
      /\ l = IF N > 2 * limit THEN 2 * limit ELSE N
  BY DEF Taken
<1> HIDE DEF N, n, first, M, m, second, both, l
<1>6. M = N - n /\ \A k \in 1 .. M : InOrder(T)[k] = InOrder(S)[n + k]
  <2> HIDE DEF S, T
  <2>1. n \in 0 .. Cardinality(S)
    BY <1>b DEF N
  <2>2. QED
    BY <1>4, <1>5, <2>1, TailInOrder, Zenon DEF N, M
<1> HIDE DEF S, T
<1>10. l = n + m /\ (N > limit <=> m > 0)
  BY <1>b, <1>6, <1>7, <1>8, <1>9
<1>11. second.changes # <<>> <=> m > 0
  BY <1>7
<1>12. first.changes \o second.changes = both.changes
  <2> DEFINE joined == first.changes \o second.changes
  <2>1. second.changes \in Seq(S)
    BY <1>4, <1>7
  <2>2. \A i \in 1 .. m : second.changes[i] = InOrder(S)[n + i]
    <3> SUFFICES ASSUME NEW i \in 1 .. m PROVE second.changes[i] = InOrder(S)[n + i]
      OBVIOUS
    <3>1. i \in 1 .. M
      BY <1>b, <1>6, <1>7
    <3>2. second.changes[i] = InOrder(T)[i] /\ InOrder(T)[i] = InOrder(S)[n + i]
      BY <3>1, <1>6, <1>7, Zenon
    <3>3. QED
      BY <3>2
  <2>3. \A i \in 1 .. Len(first.changes) : first.changes[i] = InOrder(S)[i]
    BY <1>b
  <2>4. \A i \in 1 .. Len(second.changes) : second.changes[i] = InOrder(S)[Len(first.changes) + i]
    BY <1>b, <1>7, <2>2
  <2>5. /\ joined \in Seq(S) /\ Len(joined) = l
        /\ \A i \in 1 .. l : joined[i] = both.changes[i]
    <3>1. /\ joined \in Seq(S) /\ Len(joined) = Len(first.changes) + Len(second.changes)
          /\ \A i \in 1 .. Len(first.changes) + Len(second.changes) : joined[i] = InOrder(S)[i]
      <4> DEFINE s == first.changes
                 t == second.changes
                 all == InOrder(S)
      <4>1. s \in Seq(S) /\ t \in Seq(S)
        BY <1>b, <2>1
      <4>2. /\ \A i \in 1 .. Len(s) : s[i] = all[i]
            /\ \A i \in 1 .. Len(t) : t[i] = all[Len(s) + i]
        BY <2>3, <2>4
      <4> HIDE DEF s, t, all
      <4>3. /\ s \o t \in Seq(S) /\ Len(s \o t) = Len(s) + Len(t)
            /\ \A i \in 1 .. Len(s) + Len(t) : (s \o t)[i] = all[i]
        BY <4>1, <4>2, Joined
      <4>4. QED
        BY <4>3 DEF s, t, all
    <3> HIDE DEF joined
    <3>2. QED
      BY <1>b, <1>7, <1>8, <1>10, <3>1
  <2> HIDE DEF joined
  <2>6. joined = both.changes
    BY <1>8, <2>5
  <2>7. QED
    BY <2>6 DEF joined
<1>13. QED
  BY <1>b, <1>10, <1>11, <1>12 DEF Tiles, first, second, both

-----------------------------------------------------------------------------
(* The feed.                                                                 *)

StampedRow == [ver : 0 .. MaxVersion, ts : 0 .. MaxTime]
OpenTx == [kind : {"create", "update", "delete"}, e : Entities, ts : 0 .. MaxTime]

\* The values of the feed.
FeedValues ==
  /\ rows \in [Entities -> StampedRow] /\ stones \in [Entities -> StampedRow]
  /\ tx \in [Writers -> OpenTx \union {NoTx}]
  /\ clock \in 1 .. MaxTime /\ version \in [Entities -> 0 .. MaxVersion]

\* No two transactions have one stamp, and each wrote at most one of the rows and records
\* of an entity.
StampsDiffer ==
  /\ \A e \in Entities :
       /\ rows[e] # NoRow => rows[e].ts > 0 /\ rows[e].ts < clock
       /\ stones[e] # NoRow => stones[e].ts > 0 /\ stones[e].ts < clock
       /\ rows[e] # NoRow /\ stones[e] # NoRow => rows[e].ts # stones[e].ts
  /\ \A w \in Writers : tx[w] # NoTx =>
       /\ tx[w].ts > 0 /\ tx[w].ts < clock
       /\ \A e \in Entities : tx[w].ts # rows[e].ts /\ tx[w].ts # stones[e].ts
       /\ \A v \in Writers \ {w} : tx[v] # NoTx => tx[v].ts # tx[w].ts

\* A row is the last change of its entity, later than the last deletion.
Versions ==
  \A e \in Entities :
    /\ rows[e] # NoRow => rows[e].ver = version[e] /\ stones[e].ver < version[e]
    /\ rows[e] = NoRow => version[e] = 0 \/ stones[e].ver = version[e] \/ \E p \in purged : p.id = e
    /\ stones[e].ver <= version[e] /\ (stones[e] # NoRow => stones[e].ver > 0)

\* A request took its now before it goes on, and what was purged was older than the
\* retention of the request that did.
AskValues ==
  /\ ask \in [pc : {"idle", "purge", "list"}, now : 0 .. clock]
  /\ purged \subseteq [ts : 0 .. MaxTime, id : Entities, by : 0 .. clock]
  /\ \A p \in purged : p.ts < RetentionCutoff(p.by)

\* The invariant of the feed.
FeedInv == FeedValues /\ StampsDiffer /\ Versions /\ AskValues

\* The purge of a request, whichever, and the steps that move a request alone.
PurgeStep == (\E now \in 0 .. clock : PurgeExpired(now)) /\ UNCHANGED <<rows, tx, clock, version>>
StoreStays == UNCHANGED <<rows, stones, tx, clock, version, purged>>

\* The feed starts with its invariant.
LEMMA FeedStarts == FeedInit => FeedInv
<1> SUFFICES ASSUME FeedInit PROVE FeedInv
  OBVIOUS
<1>1. PICK seeded \in Seeds : rows = [e \in Entities |-> IF e \in seeded THEN [ver |-> 1, ts |-> 1] ELSE NoRow]
  BY DEF FeedInit
<1>2. MaxTime \in Nat /\ MaxTime >= 2 /\ MaxVersion \in Nat /\ MaxVersion >= 1
  BY FeedAssumption
<1>3. /\ stones = [e \in Entities |-> NoRow] /\ tx = [w \in Writers |-> NoTx] /\ clock = 2
      /\ version = [e \in Entities |-> rows[e].ver] /\ purged = {} /\ ask = NoAsk
  BY DEF FeedInit
<1>4. /\ [ver |-> 1, ts |-> 1] \in StampedRow /\ NoRow \in StampedRow /\ NoRow.ver = 0 /\ NoRow.ts = 0
      /\ [ver |-> 1, ts |-> 1].ver = 1 /\ [ver |-> 1, ts |-> 1].ts = 1
  BY <1>2 DEF StampedRow, NoRow
<1>5. \A e \in Entities :
        \/ rows[e] = NoRow /\ rows[e].ver = 0
        \/ rows[e] # NoRow /\ rows[e].ver = 1 /\ rows[e].ts = 1
  BY <1>1, <1>4
<1>6. rows \in [Entities -> StampedRow] /\ stones \in [Entities -> StampedRow]
  BY <1>1, <1>3, <1>4
<1> HIDE DEF StampedRow, NoRow
<1>7. version \in [Entities -> 0 .. MaxVersion]
  BY <1>2, <1>3, <1>5
<1>8. FeedValues
  BY <1>2, <1>3, <1>6, <1>7 DEF FeedValues
<1>9. StampsDiffer
  BY <1>3, <1>5 DEF StampsDiffer
<1>10. Versions
  BY <1>3, <1>4, <1>5 DEF Versions
<1>11. AskValues
  BY <1>3 DEF AskValues, NoAsk
<1>12. QED
  BY <1>8, <1>9, <1>10, <1>11 DEF FeedInv

\* What the steps of the feed do to what it stores.
LEMMA FeedCases ==
  ASSUME FeedInv, FeedStep
  PROVE  \/ Begin \/ PassTime \/ PurgeStep \/ StoreStays
         \/ \E w \in Writers : Commit(w) \/ Rollback(w)
<1>1. clock \in Nat /\ ask.now \in 0 .. clock /\ \A now \in 1 .. clock : now \in 0 .. clock
  BY FeedAssumption DEF FeedInv, FeedValues, AskValues
<1>2. CASE Purge
  BY <1>1, <1>2 DEF Purge, PurgeStep
<1>3. CASE PurgeFirst
  BY <1>1, <1>3 DEF PurgeFirst, PurgeStep
<1>4. CASE AskTombstones \/ EndAsk
  BY <1>4 DEF AskTombstones, EndAsk, StoreStays
<1>5. QED
  BY <1>2, <1>3, <1>4 DEF FeedStep

\* The places of the changes are apart.
LEMMA FeedStamped == FeedInv => Stamped(Current)
<1> SUFFICES ASSUME FeedInv PROVE Stamped(Current)
  OBVIOUS
<1> DEFINE up(e) == [ts |-> rows[e].ts, id |-> e, kind |-> "upsert", ver |-> rows[e].ver]
           del(e) == [ts |-> stones[e].ts, id |-> e, kind |-> "delete", ver |-> stones[e].ver]
           With == {x \in Entities : rows[x] # NoRow}
           Without == {x \in Entities : stones[x] # NoRow}
<1>1. IsFiniteSet(With) /\ IsFiniteSet(Without)
  BY FeedAssumption, FS_Subset
<1>2. Upserts = {up(e) : e \in With} /\ Deletes = {del(e) : e \in Without}
  BY DEF Upserts, Deletes
<1>3. IsFiniteSet(Upserts)
  <2> DEFINE f == [e \in With |-> up(e)]
  <2>1. f \in Surjection(With, Upserts)
    BY <1>2 DEF Surjection
  <2>2. QED
    BY <1>1, <2>1, FS_Surjection
<1>4. IsFiniteSet(Deletes)
  <2> DEFINE f == [e \in Without |-> del(e)]
  <2>1. f \in Surjection(Without, Deletes)
    BY <1>2 DEF Surjection
  <2>2. QED
    BY <1>1, <2>1, FS_Surjection
<1>5. IsFiniteSet(Current)
  BY <1>3, <1>4, FS_Union DEF Current
<1>6. \A e \in Entities : rows[e].ts \in Nat /\ stones[e].ts \in Nat /\ e \in Nat
  BY FeedAssumption DEF FeedInv, FeedValues, StampedRow
<1>7. \A c \in Current : \E e \in Entities :
        \/ c = up(e) /\ rows[e] # NoRow
        \/ c = del(e) /\ stones[e] # NoRow
  BY <1>2 DEF Current
<1>8. \A e \in Entities : /\ up(e).ts = rows[e].ts /\ up(e).id = e
                          /\ del(e).ts = stones[e].ts /\ del(e).id = e
  OBVIOUS
<1> HIDE DEF up, del
<1>9. \A c \in Current : c.ts \in Nat /\ c.id \in Nat
  BY <1>6, <1>7, <1>8
<1>10. \A e \in Entities : rows[e] # NoRow /\ stones[e] # NoRow => rows[e].ts # stones[e].ts
  BY DEF FeedInv, StampsDiffer
<1>11. \A c, d \in Current : c.ts = d.ts /\ c.id = d.id => c = d
  BY <1>7, <1>8, <1>10
<1>12. QED
  BY <1>5, <1>9, <1>11 DEF Stamped

\* What a commit writes: the last change of its entity, or the record of its deletion.
LEMMA CommitMoves ==
  ASSUME FeedInv, NEW w \in Writers, Commit(w)
  PROVE  LET t == tx[w]
             new == [ver |-> version[t.e] + 1, ts |-> t.ts]
         IN /\ t \in OpenTx /\ t # NoTx /\ t.e \in Entities /\ version[t.e] + 1 \in 1 .. MaxVersion
            /\ version' = [version EXCEPT ![t.e] = version[t.e] + 1]
            /\ \/ /\ t.kind = "delete" /\ rows[t.e] # NoRow
                  /\ rows' = [rows EXCEPT ![t.e] = NoRow] /\ stones' = [stones EXCEPT ![t.e] = new]
               \/ /\ t.kind # "delete" /\ stones' = stones
                  /\ rows' = [rows EXCEPT ![t.e] = new]
            /\ tx' = [tx EXCEPT ![w] = NoTx] /\ UNCHANGED <<clock, ask, purged>>
<1> DEFINE t == tx[w]
<1>1. t # NoTx /\ t \in OpenTx /\ t.e \in Entities /\ t.ts \in 0 .. MaxTime
  BY DEF Commit, FeedInv, FeedValues, OpenTx
<1>2. version[t.e] \in 0 .. MaxVersion /\ MaxVersion \in Nat /\ version[t.e] < MaxVersion
  BY <1>1, FeedAssumption DEF Commit, FeedInv, FeedValues
<1>3. version[t.e] + 1 \in 1 .. MaxVersion
  BY <1>2
<1>4. \/ t.kind = "delete" /\ rows[t.e] # NoRow
      \/ t.kind # "delete"
  BY DEF Commit
<1>5. QED
  BY <1>1, <1>3, <1>4 DEF Commit, Record

\* Every step of the feed keeps its values.
LEMMA FeedValuesKept == FeedInv /\ [FeedStep]_feedVars => FeedValues'
<1> SUFFICES ASSUME FeedInv, [FeedStep]_feedVars PROVE FeedValues'
  OBVIOUS
<1>0. /\ rows \in [Entities -> StampedRow] /\ stones \in [Entities -> StampedRow]
      /\ tx \in [Writers -> OpenTx \union {NoTx}]
      /\ clock \in 1 .. MaxTime /\ version \in [Entities -> 0 .. MaxVersion]
      /\ MaxTime \in Nat /\ MaxVersion \in Nat
  BY FeedAssumption DEF FeedInv, FeedValues
<1>1. NoRow \in StampedRow
  BY <1>0 DEF NoRow, StampedRow
<1>2. CASE Begin
  <2>1. PICK kind \in {"create", "update", "delete"}, e \in Entities :
          tx' = [tx EXCEPT ![CHOOSE w \in Free : TRUE] = [kind |-> kind, e |-> e, ts |-> clock]]
    BY <1>2 DEF Begin
  <2>2. [kind |-> kind, e |-> e, ts |-> clock] \in OpenTx
    BY <1>0 DEF OpenTx
  <2>3. clock' \in 1 .. MaxTime
    BY <1>0, <1>2 DEF Begin
  <2>4. QED
    BY <1>0, <1>2, <2>1, <2>2, <2>3 DEF Begin, FeedValues
<1>3. ASSUME NEW w \in Writers, Commit(w)
      PROVE  FeedValues'
  <2> DEFINE t == tx[w]
             new == [ver |-> version[t.e] + 1, ts |-> t.ts]
  <2>1. t.e \in Entities /\ version[t.e] + 1 \in 1 .. MaxVersion /\ t.ts \in 0 .. MaxTime
    BY <1>3, CommitMoves DEF OpenTx
  <2>2. new \in StampedRow
    BY <1>0, <2>1 DEF StampedRow
  <2> HIDE DEF new
  <2>3. rows' \in [Entities -> StampedRow] /\ stones' \in [Entities -> StampedRow]
    BY <1>0, <1>1, <1>3, <2>2, CommitMoves DEF new
  <2>4. version' \in [Entities -> 0 .. MaxVersion]
    <3>1. version' = [version EXCEPT ![t.e] = version[t.e] + 1]
      BY <1>3, CommitMoves
    <3>2. version[t.e] + 1 \in 0 .. MaxVersion
      BY <1>0, <2>1
    <3>3. QED
      BY <1>0, <2>1, <3>1, <3>2
  <2>5. tx' \in [Writers -> OpenTx \union {NoTx}] /\ UNCHANGED clock
    BY <1>0, <1>3, CommitMoves
  <2>6. QED
    BY <1>0, <2>3, <2>4, <2>5 DEF FeedValues
<1>4. ASSUME NEW w \in Writers, Rollback(w)
      PROVE  FeedValues'
  BY <1>0, <1>4 DEF Rollback, FeedValues
<1>5. CASE PurgeStep
  <2>1. stones' \in [Entities -> StampedRow]
    BY <1>0, <1>1, <1>5 DEF PurgeStep, PurgeExpired
  <2>2. QED
    BY <1>0, <1>5, <2>1 DEF PurgeStep, FeedValues
<1>6. CASE PassTime \/ StoreStays \/ UNCHANGED feedVars
  BY <1>0, <1>6 DEF PassTime, StoreStays, feedVars, FeedValues
<1>7. QED
  BY <1>2, <1>3, <1>4, <1>5, <1>6, FeedCases

\* Every step keeps the stamps apart.
LEMMA StampsStayApart == FeedInv /\ [FeedStep]_feedVars => StampsDiffer'
<1> SUFFICES ASSUME FeedInv, [FeedStep]_feedVars PROVE StampsDiffer'
  OBVIOUS
<1>0. /\ rows \in [Entities -> StampedRow] /\ stones \in [Entities -> StampedRow]
      /\ tx \in [Writers -> OpenTx \union {NoTx}] /\ clock \in Nat /\ clock > 0
      /\ \A e \in Entities : rows[e].ts \in Nat /\ stones[e].ts \in Nat
      /\ StampsDiffer
  BY DEF FeedInv, FeedValues, StampedRow
<1>1. NoRow.ts = 0
  BY DEF NoRow
<1>2. CASE Begin
  <2> DEFINE free == CHOOSE w \in Free : TRUE
  <2>1. PICK kind \in {"create", "update", "delete"}, e \in Entities :
          tx' = [tx EXCEPT ![free] = [kind |-> kind, e |-> e, ts |-> clock]]
    BY <1>2 DEF Begin
  <2>2. free \in Writers /\ clock' = clock + 1 /\ UNCHANGED <<rows, stones>>
    BY <1>2 DEF Begin, Free
  <2>3. tx'[free].ts = clock /\ \A w \in Writers \ {free} : tx'[w] = tx[w]
    BY <1>0, <2>1, <2>2
  <2>4. \A e1 \in Entities : clock # rows[e1].ts /\ clock # stones[e1].ts
    BY <1>0, <1>1 DEF StampsDiffer
  <2>5. \A e1 \in Entities :
          /\ rows[e1] # NoRow => rows[e1].ts > 0 /\ rows[e1].ts < clock + 1
          /\ stones[e1] # NoRow => stones[e1].ts > 0 /\ stones[e1].ts < clock + 1
    BY <1>0 DEF StampsDiffer
  <2>6. \A w \in Writers \ {free} : tx[w] # NoTx => tx[w].ts > 0 /\ tx[w].ts < clock + 1 /\ tx[w].ts # clock
    <3> SUFFICES ASSUME NEW w \in Writers \ {free}, tx[w] # NoTx
                 PROVE  tx[w].ts > 0 /\ tx[w].ts < clock + 1 /\ tx[w].ts # clock
      OBVIOUS
    <3>1. tx[w].ts \in Nat /\ tx[w].ts > 0 /\ tx[w].ts < clock
      BY <1>0 DEF StampsDiffer, OpenTx
    <3>2. QED
      BY <1>0, <3>1
  <2> HIDE DEF free
  <2>7. QED
    BY <1>0, <2>2, <2>3, <2>4, <2>5, <2>6 DEF StampsDiffer
<1>3. ASSUME NEW w \in Writers, Commit(w)
      PROVE  StampsDiffer'
  <2> DEFINE t == tx[w]
             new == [ver |-> version[t.e] + 1, ts |-> t.ts]
  <2>1. t # NoTx /\ t.e \in Entities /\ new.ts = t.ts
    BY <1>3, CommitMoves
  <2> HIDE DEF new
  <2>2. \/ rows' = [rows EXCEPT ![t.e] = NoRow] /\ stones' = [stones EXCEPT ![t.e] = new]
        \/ stones' = stones /\ rows' = [rows EXCEPT ![t.e] = new]
    BY <1>3, CommitMoves DEF new
  <2>3. tx'[w] = NoTx /\ clock' = clock /\ \A v \in Writers \ {w} : tx'[v] = tx[v]
    BY <1>0, <1>3, CommitMoves
  <2>4. \A e \in Entities :
          /\ rows'[e] = rows[e] \/ rows'[e] = NoRow \/ (e = t.e /\ rows'[e] = new /\ stones'[e] = stones[e])
          /\ stones'[e] = stones[e] \/ (e = t.e /\ stones'[e] = new /\ rows'[e] = NoRow)
    BY <1>0, <2>1, <2>2
  <2>5. \A e \in Entities :
          /\ rows'[e] # NoRow => rows'[e].ts > 0 /\ rows'[e].ts < clock
          /\ stones'[e] # NoRow => stones'[e].ts > 0 /\ stones'[e].ts < clock
          /\ rows'[e] # NoRow /\ stones'[e] # NoRow => rows'[e].ts # stones'[e].ts
    BY <1>0, <2>1, <2>4 DEF StampsDiffer
  <2>6. \A v \in Writers \ {w} : tx[v] # NoTx =>
          \A e \in Entities : tx[v].ts # rows'[e].ts /\ tx[v].ts # stones'[e].ts
    BY <1>0, <1>1, <2>1, <2>4 DEF StampsDiffer
  <2>7. QED
    BY <1>0, <2>3, <2>5, <2>6 DEF StampsDiffer
<1>4. ASSUME NEW w \in Writers, Rollback(w)
      PROVE  StampsDiffer'
  <2>1. tx'[w] = NoTx /\ UNCHANGED <<rows, stones, clock>> /\ \A v \in Writers \ {w} : tx'[v] = tx[v]
    BY <1>0, <1>4 DEF Rollback
  <2>2. QED
    BY <1>0, <2>1 DEF StampsDiffer
<1>5. CASE PurgeStep
  <2>1. UNCHANGED <<rows, tx, clock>> /\ \A e \in Entities : stones'[e] \in {stones[e], NoRow}
    BY <1>0, <1>5 DEF PurgeStep, PurgeExpired
  <2>2. \A w \in Writers : tx[w] # NoTx => tx[w].ts > 0
    BY <1>0 DEF StampsDiffer
  <2>3. QED
    BY <1>0, <1>1, <2>1, <2>2 DEF StampsDiffer
<1>6. CASE PassTime
  <2>1. UNCHANGED <<rows, stones, tx>> /\ clock' = clock + 1
    BY <1>6 DEF PassTime
  <2>2. \A w \in Writers : tx[w] # NoTx => tx[w].ts \in Nat
    BY <1>0 DEF OpenTx
  <2>3. QED
    BY <1>0, <2>1, <2>2 DEF StampsDiffer
<1>7. CASE StoreStays \/ UNCHANGED feedVars
  BY <1>0, <1>7 DEF StoreStays, feedVars, StampsDiffer
<1>8. QED
  BY <1>2, <1>3, <1>4, <1>5, <1>6, <1>7, FeedCases

\* Every step keeps a row later than its record of deletion.
LEMMA VersionsKept == FeedInv /\ [FeedStep]_feedVars => Versions'
<1> SUFFICES ASSUME FeedInv, [FeedStep]_feedVars PROVE Versions'
  OBVIOUS
<1>0. /\ rows \in [Entities -> StampedRow] /\ stones \in [Entities -> StampedRow]
      /\ version \in [Entities -> 0 .. MaxVersion]
      /\ \A e \in Entities : rows[e].ver \in Nat /\ stones[e].ver \in Nat /\ version[e] \in Nat
      /\ Versions
  BY DEF FeedInv, FeedValues, StampedRow
<1>1. NoRow.ver = 0
  BY DEF NoRow
<1>2. CASE Begin \/ PassTime \/ StoreStays \/ UNCHANGED feedVars
  BY <1>0, <1>2 DEF Begin, PassTime, StoreStays, feedVars, Versions
<1>3. ASSUME NEW w \in Writers, Commit(w)
      PROVE  Versions'
  <2> DEFINE t == tx[w]
             new == [ver |-> version[t.e] + 1, ts |-> t.ts]
  <2>1. /\ t.e \in Entities /\ new.ver = version[t.e] + 1 /\ purged' = purged
        /\ version' = [version EXCEPT ![t.e] = version[t.e] + 1]
    BY <1>3, CommitMoves
  <2>2. new # NoRow
    BY <1>0, <1>1, <2>1
  <2> HIDE DEF new
  <2>3. \/ rows[t.e] # NoRow /\ rows' = [rows EXCEPT ![t.e] = NoRow] /\ stones' = [stones EXCEPT ![t.e] = new]
        \/ stones' = stones /\ rows' = [rows EXCEPT ![t.e] = new]
    BY <1>3, CommitMoves DEF new
  <2>4. version'[t.e] = version[t.e] + 1
    BY <1>0, <2>1
  <2>5. \A e \in Entities \ {t.e} : rows'[e] = rows[e] /\ stones'[e] = stones[e] /\ version'[e] = version[e]
    BY <1>0, <2>1, <2>3
  <2>6. \/ rows'[t.e] = NoRow /\ stones'[t.e] = new
        \/ rows'[t.e] = new /\ stones'[t.e] = stones[t.e]
    BY <1>0, <2>1, <2>3
  <2>7. \A e \in Entities \ {t.e} :
          /\ rows'[e] # NoRow => rows'[e].ver = version'[e] /\ stones'[e].ver < version'[e]
          /\ rows'[e] = NoRow => version'[e] = 0 \/ stones'[e].ver = version'[e] \/ \E p \in purged' : p.id = e
          /\ stones'[e].ver <= version'[e] /\ (stones'[e] # NoRow => stones'[e].ver > 0)
    BY <1>0, <2>1, <2>5 DEF Versions
  <2>8. stones[t.e].ver <= version[t.e] /\ (stones[t.e] # NoRow => stones[t.e].ver > 0)
    BY <2>1, <1>0 DEF Versions
  <2>9. /\ rows'[t.e] # NoRow => rows'[t.e].ver = version'[t.e] /\ stones'[t.e].ver < version'[t.e]
        /\ rows'[t.e] = NoRow => stones'[t.e].ver = version'[t.e]
        /\ stones'[t.e].ver <= version'[t.e] /\ (stones'[t.e] # NoRow => stones'[t.e].ver > 0)
    BY <1>0, <2>1, <2>2, <2>4, <2>6, <2>8
  <2>10. QED
    BY <2>7, <2>9 DEF Versions
<1>4. ASSUME NEW w \in Writers, Rollback(w)
      PROVE  Versions'
  BY <1>0, <1>4 DEF Rollback, Versions
<1>5. CASE PurgeStep
  <2>0. PICK now \in 0 .. clock : PurgeExpired(now)
    BY <1>5 DEF PurgeStep
  <2>1. /\ UNCHANGED <<rows, version>>
        /\ stones' = [e \in Entities |-> IF \E c \in Expired(now) : c.id = e THEN NoRow ELSE stones[e]]
        /\ purged' = purged \union {[ts |-> c.ts, id |-> c.id, by |-> now] : c \in Expired(now)}
    BY <1>5, <2>0 DEF PurgeStep, PurgeExpired
  <2>2. \A e \in Entities :
          \/ stones'[e] = stones[e]
          \/ stones'[e] = NoRow /\ \E p \in purged' : p.id = e
    <3> SUFFICES ASSUME NEW e \in Entities, NEW c \in Expired(now), c.id = e
                 PROVE  stones'[e] = NoRow /\ \E p \in purged' : p.id = e
      BY <2>1
    <3>1. [ts |-> c.ts, id |-> c.id, by |-> now] \in purged'
          /\ [ts |-> c.ts, id |-> c.id, by |-> now].id = e
      BY <2>1
    <3>2. stones'[e] = NoRow
      BY <2>1
    <3>3. QED
      BY <3>1, <3>2
  <2>3. purged \subseteq purged'
    BY <2>1
  <2>4. \A e \in Entities : rows[e] # NoRow => NoRow.ver < version[e]
    BY <1>0, <1>1 DEF Versions
  <2>5. QED
    BY <1>0, <1>1, <2>1, <2>2, <2>3, <2>4 DEF Versions
<1>6. QED
  BY <1>2, <1>3, <1>4, <1>5, FeedCases

\* Every step leaves a request with a now that is past, and purges no more than the
\* retention of its request.
LEMMA AskValuesKept == FeedInv /\ [FeedStep]_feedVars => AskValues'
<1> SUFFICES ASSUME FeedInv, [FeedStep]_feedVars PROVE AskValues'
  OBVIOUS
<1>0. /\ clock \in Nat /\ ask \in [pc : {"idle", "purge", "list"}, now : 0 .. clock]
      /\ purged \subseteq [ts : 0 .. MaxTime, id : Entities, by : 0 .. clock]
      /\ \A p \in purged : p.ts < RetentionCutoff(p.by)
  BY FeedAssumption DEF FeedInv, FeedValues, AskValues
<1>1. ASSUME NEW now \in 0 .. clock, PurgeExpired(now), clock' = clock,
             ask' \in [pc : {"idle", "purge", "list"}, now : 0 .. clock]
      PROVE  AskValues'
  <2>1. \A c \in Expired(now) : c.ts \in 0 .. MaxTime /\ c.id \in Entities /\ c.ts < RetentionCutoff(now)
    BY DEF Expired, Deletes, FeedInv, FeedValues, StampedRow
  <2>2. ASSUME NEW p \in purged'
        PROVE  p \in [ts : 0 .. MaxTime, id : Entities, by : 0 .. clock] /\ p.ts < RetentionCutoff(p.by)
    <3>1. CASE p \in purged
      BY <1>0, <3>1
    <3>2. CASE p \notin purged
      <4>1. PICK c \in Expired(now) : p = [ts |-> c.ts, id |-> c.id, by |-> now]
        BY <1>1, <2>2, <3>2 DEF PurgeExpired
      <4>2. QED
        BY <2>1, <4>1
    <3>3. QED
      BY <3>1, <3>2
  <2>3. QED
    BY <1>1, <2>2 DEF AskValues
<1>2. CASE Purge
  BY <1>0, <1>1, <1>2 DEF Purge
<1>3. CASE PurgeFirst
  <2>1. ask.now \in 0 .. clock /\ ask' \in [pc : {"idle", "purge", "list"}, now : 0 .. clock]
    BY <1>0, <1>3 DEF PurgeFirst
  <2>2. QED
    BY <1>1, <1>3, <2>1 DEF PurgeFirst
<1>4. CASE AskTombstones \/ EndAsk
  BY <1>0, <1>4 DEF AskTombstones, EndAsk, AskValues, NoAsk
<1>5. ASSUME clock' \in {clock, clock + 1}, UNCHANGED <<ask, purged>>
      PROVE  AskValues'
  <2>1. 0 .. clock \subseteq 0 .. clock'
    BY <1>0, <1>5
  <2>2. QED
    BY <1>0, <1>5, <2>1 DEF AskValues
<1>6. CASE Begin \/ PassTime \/ UNCHANGED feedVars
  BY <1>5, <1>6 DEF Begin, PassTime, feedVars
<1>7. CASE \E w \in Writers : Commit(w) \/ Rollback(w)
  BY <1>5, <1>7 DEF Commit, Rollback
<1>8. QED
  BY <1>2, <1>3, <1>4, <1>6, <1>7 DEF FeedStep

\* Every step of the feed keeps its invariant.
LEMMA FeedKept == FeedInv /\ [FeedStep]_feedVars => FeedInv'
  BY FeedValuesKept, StampsStayApart, VersionsKept, AskValuesKept DEF FeedInv

\* What the run of the domain asks of the feed.
LEMMA FeedSafe == FeedInv => PagesTile /\ DeletionsTold
<1> SUFFICES ASSUME FeedInv PROVE PagesTile /\ DeletionsTold
  OBVIOUS
<1>1. PagesTile
  <2>1. \A limit \in 1 .. 2 : limit \in Nat \ {0}
    OBVIOUS
  <2>2. \A at \in Cursors, limit \in 1 .. 2 : Tiles(at, limit)
    BY <2>1, FeedStamped, TilesWhenStamped
  <2>3. QED
    BY <2>2, Zenon DEF PagesTile, Tiles
<1>2. FeedTypeOK
  <2>1. NoTx \in [kind : {"none", "create", "update", "delete"}, e : Entities \union {0}, ts : 0 .. MaxTime]
    BY FeedAssumption DEF NoTx
  <2>2. OpenTx \subseteq [kind : {"none", "create", "update", "delete"}, e : Entities \union {0}, ts : 0 .. MaxTime]
    BY DEF OpenTx
  <2>3. tx \in [Writers -> [kind : {"none", "create", "update", "delete"},
                            e : Entities \union {0}, ts : 0 .. MaxTime]]
    BY <2>1, <2>2 DEF FeedInv, FeedValues
  <2>4. /\ ask \in [pc : {"idle", "purge", "list"}, now : 0 .. MaxTime]
        /\ purged \subseteq [ts : 0 .. MaxTime, id : Entities, by : 0 .. MaxTime]
    <3>1. 0 .. clock \subseteq 0 .. MaxTime
      BY FeedAssumption DEF FeedInv, FeedValues
    <3>2. QED
      BY <3>1 DEF FeedInv, AskValues
  <2>5. QED
    BY <2>3, <2>4 DEF FeedTypeOK, FeedInv, FeedValues, Versions, StampedRow
<1>3. PurgeIsAnnounced
  <2> SUFFICES ASSUME NEW p \in purged, NEW since \in 0 .. clock
               PROVE  /\ After(p, [ts |-> since, id |-> 0]) => GetSyncChanges([ts |-> since, id |-> 0], 1).full
                      /\ ask.pc = "list" /\ p.ts > since /\ p.by <= ask.now => GetTombstones(since, ask.now).full
    BY DEF PurgeIsAnnounced
  <2> DEFINE at == [ts |-> since, id |-> 0]
  <2>1. /\ p.ts \in Nat /\ p.ts < RetentionCutoff(p.by) /\ clock \in Nat
        /\ p.by \in Nat /\ p.by <= clock /\ ask.now \in Nat
        /\ since \in Nat /\ at \in Place /\ at.ts = since
    BY FeedAssumption DEF FeedInv, FeedValues, AskValues, Place
  <2> HIDE DEF at
  <2>2. \A now \in Nat : p.by <= now /\ p.ts >= since => RequiresFullResync(since, now)
    <3> SUFFICES ASSUME NEW now \in Nat, p.by <= now, p.ts >= since
                 PROVE  RequiresFullResync(since, now)
      OBVIOUS
    <3>1. RetentionCutoff(p.by) <= RetentionCutoff(now) /\ RetentionCutoff(p.by) \in Nat
          /\ RetentionCutoff(now) \in Nat
      BY <2>1, FeedAssumption DEF RetentionCutoff
    <3>2. QED
      BY <2>1, <3>1 DEF RequiresFullResync
  <2>3. GetSyncChanges(at, 1).full = RequiresFullResync(since, clock)
    <3>1. 1 \in Nat \ {0}
      OBVIOUS
    <3>2. PageAsTaken(at, 1)
      BY <2>1, <3>1, FeedStamped, PageTaken
    <3>3. QED
      BY <2>1, <3>2, Zenon DEF PageAsTaken
  <2>4. After(p, at) => p.ts >= since
    BY <2>1 DEF After
  <2>5. p.ts > since => p.ts >= since
    BY <2>1
  <2>6. After(p, at) => GetSyncChanges(at, 1).full
    BY <2>1, <2>2, <2>3, <2>4
  <2>7. p.ts > since /\ p.by <= ask.now => GetTombstones(since, ask.now).full
    BY <2>1, <2>2, <2>5 DEF GetTombstones
  <2>8. QED
    BY <2>6, <2>7 DEF at
<1>4. QED
  BY <1>1, <1>2, <1>3 DEF DeletionsTold

-----------------------------------------------------------------------------

(* The device. *)

ServedChange == [ts : Nat, id : Entities, kind : {"upsert", "delete"}, ver : 0 .. MaxVersion]
Pages == [changes : Seq(ServedChange), next : Place, more : BOOLEAN, full : BOOLEAN]
\* The values of the device.
DeviceValues ==
  /\ cursor \in Place /\ astray \subseteq Entities
  /\ delivered \in [Entities -> 0 .. MaxVersion] /\ acknowledged \in [Entities -> 0 .. MaxVersion]
  /\ drain \in [pc : {"idle", "ask", "apply", "persist", "finish"}, at : Place, page : Pages]

\* The entities that the feed shows in order.
Here == Entities \ astray
InStep == \A e \in Here : rows[e] # NoRow => stones[e].ts < rows[e].ts

\* The cursor parts what was acknowledged from what is new.
AckedToCursor ==
  \A c \in Current : c.id \in Here =>
    IF After(c, cursor) THEN c.ver > acknowledged[c.id] ELSE c.ver <= acknowledged[c.id]
\* What was acknowledged was applied, and the server had it.
AckedApplied ==
  \A e \in Entities :
    acknowledged[e] <= version[e] /\ (e \in Here => acknowledged[e] <= delivered[e])

\* A drain that asks, applies or keeps a cursor stands at the persisted one.
DrainPlaced ==
  /\ drain.pc = "idle" => drain = Idle
  /\ drain.pc \in {"ask", "finish"} => drain.page = NoPage
  /\ drain.pc \in {"ask", "apply", "persist"} => drain.at = cursor

\* A page under way has new changes, in the order of their versions, up to its next
\* cursor all those that still stand, and beyond it there are only newer ones.
Carried == drain.page.changes
PageIsNew ==
  /\ \A i \in 1 .. Len(Carried) :
       /\ Carried[i].ver <= version[Carried[i].id]
       /\ Carried[i].id \in Here => acknowledged[Carried[i].id] < Carried[i].ver
  /\ \A i, j \in 1 .. Len(Carried) :
       i < j /\ Carried[i].id = Carried[j].id /\ Carried[i].id \in Here => Carried[i].ver < Carried[j].ver
PageIsWhole ==
  drain.pc \in {"apply", "persist"} =>
    /\ ~After(cursor, drain.page.next)
    /\ \A c \in Current : c.id \in Here =>
         IF After(c, drain.page.next)
         THEN \A i \in 1 .. Len(Carried) : Carried[i].id = c.id => Carried[i].ver < c.ver
         ELSE After(c, cursor) => \E i \in 1 .. Len(Carried) : Carried[i].id = c.id /\ Carried[i].ver = c.ver
\* A page whose cursor is about to be kept was applied.
PageApplied ==
  drain.pc = "persist" =>
    \A i \in 1 .. Len(Carried) : Carried[i].id \in Here => Carried[i].ver <= delivered[Carried[i].id]

\* The invariant of the device and the feed.
DeviceInv ==
  /\ FeedInv /\ DeviceValues /\ InStep /\ AckedToCursor /\ AckedApplied
  /\ DrainPlaced /\ PageIsNew /\ PageIsWhole /\ PageApplied

-----------------------------------------------------------------------------
UpsertIn(table, e) == [ts |-> table[e].ts, id |-> e, kind |-> "upsert", ver |-> table[e].ver]
DeleteIn(table, e) == [ts |-> table[e].ts, id |-> e, kind |-> "delete", ver |-> table[e].ver]

\* The changes that the feed holds, before a step and after it.
LEMMA CurrentAre ==
  /\ \A c : c \in Current <=> \E e \in Entities :
       \/ rows[e] # NoRow /\ c = UpsertIn(rows, e)
       \/ stones[e] # NoRow /\ c = DeleteIn(stones, e)
  /\ \A c : c \in Current' <=> \E e \in Entities :
       \/ rows'[e] # NoRow /\ c = UpsertIn(rows', e)
       \/ stones'[e] # NoRow /\ c = DeleteIn(stones', e)
<1>1. \A c : c \in Current <=> \E e \in Entities :
       \/ rows[e] # NoRow /\ c = UpsertIn(rows, e)
       \/ stones[e] # NoRow /\ c = DeleteIn(stones, e)
  BY DEF Current, Upserts, Deletes, UpsertIn, DeleteIn
<1>2. \A c : c \in Current' <=> \E e \in Entities :
       \/ rows'[e] # NoRow /\ c = UpsertIn(rows', e)
       \/ stones'[e] # NoRow /\ c = DeleteIn(stones', e)
  BY DEF Current, Upserts, Deletes, UpsertIn, DeleteIn
<1>3. QED
  BY <1>1, <1>2

\* What the feed serves of a row and of a record of deletion.
LEMMA InFields ==
  \A table, e : /\ UpsertIn(table, e).id = e /\ DeleteIn(table, e).id = e
                /\ UpsertIn(table, e).ts = table[e].ts /\ DeleteIn(table, e).ts = table[e].ts
                /\ UpsertIn(table, e).ver = table[e].ver /\ DeleteIn(table, e).ver = table[e].ver
  BY DEF UpsertIn, DeleteIn

\* The values of a change that the feed holds.
LEMMA CurrentTyped ==
  ASSUME FeedInv, NEW c \in Current
  PROVE  /\ c \in ServedChange /\ c.id \in Entities /\ c.ts \in Nat /\ c.ts > 0 /\ c.id \in Nat
         /\ c.ver \in Nat /\ c.ver > 0 /\ c.ver <= version[c.id] /\ version[c.id] \in Nat
<1>1. PICK e \in Entities : \/ rows[e] # NoRow /\ c = UpsertIn(rows, e)
                            \/ stones[e] # NoRow /\ c = DeleteIn(stones, e)
  BY CurrentAre
<1>2. /\ rows[e] \in StampedRow /\ stones[e] \in StampedRow /\ e \in Nat
      /\ version[e] \in Nat
  BY FeedAssumption DEF FeedInv, FeedValues
<1>3. /\ rows[e] # NoRow => rows[e].ver = version[e] /\ rows[e].ts > 0
      /\ stones[e].ver <= version[e] /\ (stones[e] # NoRow => stones[e].ver > 0 /\ stones[e].ts > 0)
      /\ rows[e] # NoRow => stones[e].ver < version[e]
  BY DEF FeedInv, Versions, StampsDiffer
<1>4. /\ rows[e].ts \in Nat /\ rows[e].ver \in 0 .. MaxVersion
      /\ stones[e].ts \in Nat /\ stones[e].ver \in 0 .. MaxVersion
      /\ c \in ServedChange
  BY <1>1, <1>2 DEF StampedRow, ServedChange, UpsertIn, DeleteIn
<1>5. MaxVersion \in Nat
  BY FeedAssumption
<1>6. CASE rows[e] # NoRow /\ c = UpsertIn(rows, e)
  BY <1>2, <1>3, <1>4, <1>5, <1>6, InFields
<1>7. CASE stones[e] # NoRow /\ c = DeleteIn(stones, e)
  BY <1>2, <1>3, <1>4, <1>5, <1>7, InFields
<1>8. QED
  BY <1>1, <1>6, <1>7

\* Of the two changes of an entity, the later one has the higher version.
LEMMA LaterIsNewer ==
  ASSUME FeedInv, InStep, NEW c \in Current, NEW d \in Current, c.id = d.id, c.id \in Here, After(c, d)
  PROVE  d.ver < c.ver
<1> DEFINE e == c.id
<1>1. e \in Entities /\ c.ts \in Nat /\ d.ts \in Nat /\ c.id \in Nat
  BY CurrentTyped
<1>2. c.ts > d.ts
  BY <1>1 DEF After
<1>3. /\ (rows[e] # NoRow /\ c = UpsertIn(rows, e)) \/ (stones[e] # NoRow /\ c = DeleteIn(stones, e))
      /\ (rows[e] # NoRow /\ d = UpsertIn(rows, e)) \/ (stones[e] # NoRow /\ d = DeleteIn(stones, e))
  BY CurrentAre, InFields
<1>4. rows[e] # NoRow => stones[e].ts < rows[e].ts /\ stones[e].ver < rows[e].ver
  BY <1>1 DEF InStep, FeedInv, Versions
<1> HIDE DEF e
<1>6. CASE rows[e] # NoRow /\ c = UpsertIn(rows, e) /\ stones[e] # NoRow /\ d = DeleteIn(stones, e)
  BY <1>4, <1>6, InFields
<1>7. CASE stones[e] # NoRow /\ c = DeleteIn(stones, e) /\ rows[e] # NoRow /\ d = UpsertIn(rows, e)
  BY <1>1, <1>2, <1>4, <1>7, InFields
<1>8. CASE c = d
  BY <1>1, <1>2, <1>8
<1>9. QED
  BY <1>3, <1>6, <1>7, <1>8

-----------------------------------------------------------------------------
(* What a step of the feed does to the device.                               *)

\* What a step of the feed adds: the next version of an entity, in place or astray.
LEMMA FeedMoves ==
  ASSUME FeedInv, FeedStep, Watch
  PROVE  /\ astray \subseteq astray'
         /\ \A e \in Entities : version'[e] \in {version[e], version[e] + 1}
         /\ \A c \in Current' : c \in Current \/ (/\ version'[c.id] = version[c.id] + 1
                                                  /\ c.ver = version'[c.id]
                                                  /\ c.id \in Entities
                                                  /\ c.id \in astray' \/ ~OutOfPlace(c))
         /\ \A e \in Entities :
              \/ rows'[e] = rows[e] /\ stones'[e] \in {stones[e], NoRow}
              \/ rows'[e] = NoRow
              \/ /\ stones'[e] = stones[e] /\ UpsertIn(rows', e) \in Current' /\ rows'[e] # NoRow
                 /\ version'[e] = version[e] + 1 /\ rows'[e].ver = version'[e]
<1>0. /\ rows \in [Entities -> StampedRow] /\ stones \in [Entities -> StampedRow]
      /\ version \in [Entities -> 0 .. MaxVersion]
      /\ \A e \in Entities : version[e] \in Nat
  BY DEF FeedInv, FeedValues
<1>1. astray \subseteq astray'
  BY DEF Watch
<1>2. CASE Begin \/ PassTime \/ StoreStays \/ \E w \in Writers : Rollback(w)
  <2>1. UNCHANGED <<rows, stones, version>>
    BY <1>2 DEF Begin, PassTime, StoreStays, Rollback
  <2>2. Current' = Current
    BY <2>1 DEF Current, Upserts, Deletes
  <2>3. QED
    BY <1>1, <2>1, <2>2
<1>3. CASE PurgeStep
  <2>1. UNCHANGED <<rows, version>> /\ \A e \in Entities : stones'[e] \in {stones[e], NoRow}
    BY <1>0, <1>3 DEF PurgeStep, PurgeExpired
  <2>2. \A c \in Current' : c \in Current
    BY <2>1, CurrentAre DEF UpsertIn, DeleteIn
  <2>3. QED
    BY <1>1, <2>1, <2>2
<1>4. ASSUME NEW w \in Writers, Commit(w)
      PROVE  /\ \A e \in Entities : version'[e] \in {version[e], version[e] + 1}
             /\ \A c \in Current' : c \in Current \/ (/\ version'[c.id] = version[c.id] + 1
                                                      /\ c.ver = version'[c.id]
                                                      /\ c.id \in Entities
                                                      /\ c.id \in astray' \/ ~OutOfPlace(c))
             /\ \A e \in Entities :
                  \/ rows'[e] = rows[e] /\ stones'[e] \in {stones[e], NoRow}
                  \/ rows'[e] = NoRow
                  \/ /\ stones'[e] = stones[e] /\ UpsertIn(rows', e) \in Current' /\ rows'[e] # NoRow
                     /\ version'[e] = version[e] + 1 /\ rows'[e].ver = version'[e]
  <2> DEFINE t == tx[w]
             new == [ver |-> version[t.e] + 1, ts |-> t.ts]
  <2>1. /\ t.e \in Entities /\ new.ver = version[t.e] + 1
        /\ version' = [version EXCEPT ![t.e] = version[t.e] + 1]
        /\ \/ rows' = [rows EXCEPT ![t.e] = NoRow] /\ stones' = [stones EXCEPT ![t.e] = new]
           \/ stones' = stones /\ rows' = [rows EXCEPT ![t.e] = new]
    BY <1>4, CommitMoves
  <2>2. new # NoRow
    BY <1>0, <2>1 DEF NoRow
  <2> HIDE DEF new
  <2>3. version'[t.e] = version[t.e] + 1 /\ \A e \in Entities \ {t.e} : version'[e] = version[e]
    BY <1>0, <2>1
  <2>4. \A e \in Entities \ {t.e} : rows'[e] = rows[e] /\ stones'[e] = stones[e]
    BY <1>0, <2>1
  <2>5. \/ rows'[t.e] = NoRow /\ stones'[t.e] = new
        \/ stones'[t.e] = stones[t.e] /\ rows'[t.e] = new
    BY <1>0, <2>1
  <2>6. \A c \in Current' : c \in Current \/ (c.id = t.e /\ c.ver = new.ver)
    <3> SUFFICES ASSUME NEW c \in Current' PROVE c \in Current \/ (c.id = t.e /\ c.ver = new.ver)
      OBVIOUS
    <3>1. PICK e \in Entities : \/ rows'[e] # NoRow /\ c = UpsertIn(rows', e)
                                \/ stones'[e] # NoRow /\ c = DeleteIn(stones', e)
      BY CurrentAre
    <3>2. CASE rows'[e] # NoRow /\ c = UpsertIn(rows', e)
      <4>1. CASE rows'[e] = rows[e]
        <5>1. c = UpsertIn(rows, e)
          BY <3>2, <4>1 DEF UpsertIn
        <5>2. QED
          BY <3>2, <4>1, <5>1, CurrentAre
      <4>2. CASE rows'[e] # rows[e]
        <5>1. e = t.e /\ rows'[e] = new
          BY <2>4, <2>5, <3>2, <4>2
        <5>2. QED
          BY <3>2, <5>1, InFields
      <4>3. QED
        BY <4>1, <4>2
    <3>3. CASE stones'[e] # NoRow /\ c = DeleteIn(stones', e)
      <4>1. CASE stones'[e] = stones[e]
        <5>1. c = DeleteIn(stones, e)
          BY <3>3, <4>1 DEF DeleteIn
        <5>2. QED
          BY <3>3, <4>1, <5>1, CurrentAre
      <4>2. CASE stones'[e] # stones[e]
        <5>1. e = t.e /\ stones'[e] = new
          BY <2>4, <2>5, <3>3, <4>2
        <5>2. QED
          BY <3>3, <5>1, InFields
      <4>3. QED
        BY <4>1, <4>2
    <3>4. QED
      BY <3>1, <3>2, <3>3
  <2>7. \A c \in Current' : c \in Current \/ (/\ version'[c.id] = version[c.id] + 1
                                              /\ c.ver = version'[c.id] /\ c.id \in Entities)
    BY <2>1, <2>3, <2>6
  <2>8. \A c \in Current' : version'[c.id] # version[c.id] /\ c.ver = version'[c.id] =>
          c.id \in astray' \/ ~OutOfPlace(c)
    BY DEF Watch, Current
  <2>9. \A c \in Current' : c \in Current \/ (/\ version'[c.id] = version[c.id] + 1
                                              /\ c.ver = version'[c.id] /\ c.id \in Entities
                                              /\ c.id \in astray' \/ ~OutOfPlace(c))
    BY <1>0, <2>7, <2>8
  <2>10. rows'[t.e] = new => UpsertIn(rows', t.e) \in Current'
    BY <2>1, <2>2, CurrentAre
  <2>11. QED
    BY <2>1, <2>2, <2>3, <2>4, <2>5, <2>9, <2>10
<1>5. QED
  BY <1>1, <1>2, <1>3, <1>4, FeedCases

\* No step of the feed leaves a row older than its record of deletion unnoticed.
LEMMA InStepKept == FeedInv /\ InStep /\ FeedStep /\ Watch => InStep'
<1> SUFFICES ASSUME FeedInv, InStep, FeedStep, Watch,
                    NEW e \in Entities \ astray', rows'[e] # NoRow
             PROVE  stones'[e].ts < rows'[e].ts
  BY DEF InStep, Here
<1>0. FeedInv'
  BY FeedKept
<1>1. /\ rows'[e].ts \in Nat /\ rows'[e].ts > 0 /\ stones'[e].ts \in Nat /\ NoRow.ts = 0
      /\ stones'[e] # NoRow => rows'[e].ts # stones'[e].ts
      /\ rows[e].ts \in Nat
  BY <1>0 DEF FeedInv, FeedValues, StampedRow, StampsDiffer, NoRow
<1>2. e \in Here
  BY FeedMoves DEF Here
<1>3. CASE rows'[e] = rows[e] /\ stones'[e] \in {stones[e], NoRow}
  BY <1>1, <1>2, <1>3 DEF InStep
<1>4. CASE /\ stones'[e] = stones[e] /\ UpsertIn(rows', e) \in Current'
           /\ version'[e] = version[e] + 1 /\ rows'[e].ver = version'[e]
  <2> DEFINE c == UpsertIn(rows', e)
  <2>1. c.id = e /\ c.ts = rows'[e].ts /\ c.ver = version'[e]
    BY <1>4, InFields
  <2> HIDE DEF c
  <2>2. c \notin Current
    <3>1. SUFFICES ASSUME c \in Current PROVE FALSE
      OBVIOUS
    <3>2. c.ver <= version[e] /\ version[e] \in Nat
      BY <2>1, <3>1, CurrentTyped
    <3>3. QED
      BY <1>4, <2>1, <3>2
  <2>3. ~OutOfPlace(c)
    BY <1>4, <2>1, <2>2, FeedMoves DEF c
  <2>4. ~(c.ts < stones[e].ts)
    BY <2>1, <2>3 DEF OutOfPlace
  <2>5. QED
    BY <1>1, <1>4, <2>1, <2>4
<1>5. QED
  BY <1>3, <1>4, FeedMoves

\* No step of the feed takes the device's invariant away.
LEMMA DeviceKeptByFeed ==
  DeviceInv /\ FeedStep /\ Watch /\ UNCHANGED drainVars => DeviceInv'
<1> SUFFICES ASSUME DeviceInv, FeedStep, Watch, UNCHANGED drainVars PROVE DeviceInv'
  OBVIOUS
<1>0. FeedInv /\ FeedInv' /\ UNCHANGED <<cursor, done, drain, delivered, breaks, acknowledged>> /\ DeviceValues
  BY FeedKept DEF DeviceInv, drainVars
<1>1. InStep'
  BY InStepKept DEF DeviceInv
<1>2. /\ Here' \subseteq Here
      /\ \A e \in Entities : version'[e] \in {version[e], version[e] + 1} /\ version[e] \in Nat
                             /\ acknowledged[e] \in Nat /\ acknowledged[e] <= version[e]
  BY <1>0, FeedMoves DEF Here, DeviceInv, AckedApplied, FeedInv, FeedValues, DeviceValues
<1>3. \A c \in Current' : c.id \in Here' =>
        c \in Current \/ (/\ version'[c.id] = version[c.id] + 1 /\ c.ver = version'[c.id]
                          /\ c.id \in Entities /\ After(c, Reached) /\ After(c, cursor))
  BY <1>0, FeedMoves DEF Here, OutOfPlace
<1>4. DeviceValues'
  <2>1. astray' \subseteq Entities
    <3>1. \A c \in Current' : c.id \in Entities
      BY CurrentAre, InFields
    <3>2. \A p \in purged' \ purged : rows[p.id] = NoRow /\ Held(p.id) => p.id \in Entities
      <4>1. purged' \subseteq [ts : 0 .. MaxTime, id : Entities, by : 0 .. clock']
        BY <1>0 DEF FeedInv, AskValues
      <4>2. QED
        BY <4>1
    <3>3. QED
      BY <1>0, <3>1, <3>2 DEF Watch, Current, DeviceValues
  <2>2. QED
    BY <1>0, <2>1 DEF DeviceValues
<1>5. AckedToCursor'
  <2> SUFFICES ASSUME NEW c \in Current', c.id \in Here'
               PROVE  IF After(c, cursor) THEN c.ver > acknowledged[c.id] ELSE c.ver <= acknowledged[c.id]
    BY <1>0 DEF AckedToCursor
  <2>1. CASE c \in Current
    BY <1>2, <2>1 DEF DeviceInv, AckedToCursor
  <2>2. CASE c \notin Current
    BY <1>2, <1>3, <2>2
  <2>3. QED
    BY <2>1, <2>2
<1>6. AckedApplied'
  BY <1>0, <1>2 DEF DeviceInv, AckedApplied
<1>7. DrainPlaced' /\ PageApplied'
  BY <1>0, <1>2 DEF DeviceInv, DrainPlaced, PageApplied, Carried
<1>8. \A i \in 1 .. Len(Carried) : Carried[i].id \in Entities /\ Carried[i].ver \in Nat
  <2>1. Carried \in Seq(ServedChange)
    BY <1>0 DEF DeviceValues, Pages, Carried
  <2>2. \A i \in 1 .. Len(Carried) : Carried[i] \in ServedChange
    BY <2>1
  <2>3. QED
    BY <2>2, FeedAssumption DEF ServedChange
<1>9. PageIsNew'
  <2>1. Carried' = Carried
    BY <1>0 DEF Carried
  <2>2. \A i \in 1 .. Len(Carried) : /\ Carried[i].ver <= version[Carried[i].id]
                                     /\ Carried[i].id \in Here => acknowledged[Carried[i].id] < Carried[i].ver
    BY DEF DeviceInv, PageIsNew
  <2>3. \A i \in 1 .. Len(Carried) :
          /\ Carried[i].ver <= version'[Carried[i].id]
          /\ Carried[i].id \in Here' => acknowledged[Carried[i].id] < Carried[i].ver
    <3> SUFFICES ASSUME NEW i \in 1 .. Len(Carried)
                 PROVE  /\ Carried[i].ver <= version'[Carried[i].id]
                        /\ Carried[i].id \in Here' => acknowledged[Carried[i].id] < Carried[i].ver
      OBVIOUS
    <3>1. Carried[i].id \in Entities /\ Carried[i].ver \in Nat
      BY <1>8
    <3> DEFINE e == Carried[i].id
               v == Carried[i].ver
    <3> HIDE DEF e, v
    <3>2. e \in Entities /\ v \in Nat /\ v <= version[e]
      BY <2>2, <3>1 DEF e, v
    <3>3. v <= version'[e]
      BY <1>2, <3>2
    <3>4. QED
      BY <1>2, <2>2, <3>3 DEF e, v
  <2>4. \A i, j \in 1 .. Len(Carried) :
          i < j /\ Carried[i].id = Carried[j].id /\ Carried[i].id \in Here' => Carried[i].ver < Carried[j].ver
    BY <1>2 DEF DeviceInv, PageIsNew
  <2>5. QED
    BY <1>0, <2>1, <2>3, <2>4 DEF PageIsNew
<1>10. PageIsWhole'
  <2> SUFFICES ASSUME drain.pc \in {"apply", "persist"}, NEW c \in Current', c.id \in Here'
               PROVE  IF After(c, drain.page.next)
                      THEN \A i \in 1 .. Len(Carried) : Carried[i].id = c.id => Carried[i].ver < c.ver
                      ELSE After(c, cursor) => \E i \in 1 .. Len(Carried) : Carried[i].id = c.id /\ Carried[i].ver = c.ver
    BY <1>0 DEF PageIsWhole, Carried, DeviceInv
  <2>1. CASE c \in Current
    BY <1>2, <2>1 DEF DeviceInv, PageIsWhole
  <2>2. CASE c \notin Current
    <3>1. After(c, drain.page.next) /\ c.ver = version[c.id] + 1 /\ c.id \in Entities
      BY <1>3, <2>2 DEF Reached
    <3>2. \A i \in 1 .. Len(Carried) : Carried[i].ver <= version[Carried[i].id]
      BY DEF DeviceInv, PageIsNew
    <3>3. QED
      BY <1>2, <1>8, <3>1, <3>2
  <2>3. QED
    BY <2>1, <2>2
<1>11. QED
  BY <1>0, <1>1, <1>4, <1>5, <1>6, <1>7, <1>9, <1>10 DEF DeviceInv

-----------------------------------------------------------------------------
(* What the device does.                                                     *)

\* The maximum of a set of positions is its last one.
LEMMA MaxIsLast ==
  ASSUME NEW n \in Nat, NEW its \in SUBSET (1 .. n), its # {}
  PROVE  Max(its) \in its /\ \A i \in its : i <= Max(its)
<1> DEFINE T == {m \in Nat : \A i \in its : i <= m}
<1>1. n \in T
  OBVIOUS
<1>2. PICK m \in T : \A k \in T : ~(k < m)
  BY <1>1, Least
<1>3. m \in Nat /\ \A i \in its : i \in Nat /\ i > 0 /\ i <= m
  OBVIOUS
<1>4. m \in its
  <2>1. SUFFICES ASSUME m \notin its PROVE FALSE
    OBVIOUS
  <2>2. \A i \in its : i <= m - 1
    BY <1>3, <2>1
  <2>3. m - 1 \in Nat
    <3>1. PICK i \in its : TRUE
      OBVIOUS
    <3>2. QED
      BY <1>3, <3>1
  <2>4. m - 1 \in T
    BY <2>2, <2>3
  <2>5. QED
    BY <1>2, <1>3, <2>4
<1>5. \E x \in its : \A y \in its : x >= y
  BY <1>3, <1>4
<1>6. QED
  BY <1>3, <1>5 DEF Max

\* A batch leaves each entity at its last change in it.
LEMMA AppliedIs ==
  ASSUME NEW d, NEW changes \in Seq(ServedChange), NEW e \in Entities
  PROVE  \/ Applied(d, changes)[e] = d[e] /\ \A i \in 1 .. Len(changes) : changes[i].id # e
         \/ \E i \in 1 .. Len(changes) :
              /\ changes[i].id = e /\ Applied(d, changes)[e] = changes[i].ver
              /\ \A j \in 1 .. Len(changes) : changes[j].id = e => j <= i
<1> DEFINE its == {i \in DOMAIN changes : changes[i].id = e}
<1>1. DOMAIN changes = 1 .. Len(changes) /\ Len(changes) \in Nat
  OBVIOUS
<1>2. Applied(d, changes)[e] = IF its = {} THEN d[e] ELSE changes[Max(its)].ver
  BY DEF Applied
<1>3. its \in SUBSET (1 .. Len(changes))
  BY <1>1
<1>4. CASE its = {}
  BY <1>1, <1>2, <1>4
<1>5. CASE its # {}
  <2>1. Max(its) \in its /\ \A i \in its : i <= Max(its)
    BY <1>1, <1>3, <1>5, MaxIsLast
  <2>2. QED
    BY <1>1, <1>2, <1>5, <2>1
<1>6. QED
  BY <1>4, <1>5

\* A page that is applied leaves versions.
LEMMA AppliedTyped ==
  ASSUME NEW d \in [Entities -> 0 .. MaxVersion], NEW changes \in Seq(ServedChange)
  PROVE  Applied(d, changes) \in [Entities -> 0 .. MaxVersion]
<1>1. \A i \in 1 .. Len(changes) : changes[i].ver \in 0 .. MaxVersion
  <2>1. \A i \in 1 .. Len(changes) : changes[i] \in ServedChange
    OBVIOUS
  <2>2. QED
    BY <2>1 DEF ServedChange
<1>2. \A e \in Entities : Applied(d, changes)[e] \in 0 .. MaxVersion
  BY <1>1, AppliedIs
<1>3. DOMAIN Applied(d, changes) = Entities /\ Applied(d, changes) = [e \in Entities |-> Applied(d, changes)[e]]
  BY DEF Applied
<1>4. QED
  BY <1>2, <1>3

\* What the page of a step carries, with the values that the comparisons need.
LEMMA CarriedTyped ==
  ASSUME DeviceInv
  PROVE  /\ Carried \in Seq(ServedChange)
         /\ \A i \in 1 .. Len(Carried) : Carried[i].id \in Entities /\ Carried[i].ver \in Nat
         /\ \A e \in Entities : /\ acknowledged[e] \in Nat /\ delivered[e] \in Nat /\ version[e] \in Nat
                                /\ acknowledged[e] \in 0 .. MaxVersion /\ delivered[e] \in 0 .. MaxVersion
         /\ drain.page.next \in Place /\ cursor \in Place
<1>1. drain.page \in Pages /\ drain.page.next \in Place /\ cursor \in Place /\ Carried \in Seq(ServedChange)
  BY DEF DeviceInv, DeviceValues, Pages, Carried
<1>2. \A i \in 1 .. Len(Carried) : Carried[i] \in ServedChange
  BY <1>1
<1>3. \A i \in 1 .. Len(Carried) : Carried[i].id \in Entities /\ Carried[i].ver \in Nat
  BY <1>2, FeedAssumption DEF ServedChange
<1>4. \A e \in Entities : /\ acknowledged[e] \in 0 .. MaxVersion /\ delivered[e] \in 0 .. MaxVersion
                          /\ version[e] \in 0 .. MaxVersion
  BY DEF DeviceInv, DeviceValues, FeedInv, FeedValues
<1>5. QED
  BY <1>1, <1>3, <1>4, FeedAssumption

\* Asking for a page keeps the invariant of the device.
LEMMA AskKept == DeviceInv /\ AskPage /\ UNCHANGED feedVars => DeviceInv'
<1> SUFFICES ASSUME DeviceInv, AskPage, UNCHANGED feedVars PROVE DeviceInv'
  OBVIOUS
<1> DEFINE page == GetSyncChanges(cursor, PageSize)
           S == Changes(cursor)
           n == Taken(cursor, PageSize)
           P == page.changes
<1>0. FeedInv /\ DeviceValues /\ InStep /\ Stamped(Current) /\ Stamped(S) /\ cursor \in Place /\ PageSize \in Nat \ {0}
  BY DrainAssumption, FeedStamped, ChangesStamped DEF DeviceInv, DeviceValues
<1>1. /\ drain' = [drain EXCEPT !.pc = "apply", !.page = page]
      /\ UNCHANGED <<cursor, done, delivered, breaks, acknowledged, astray>>
      /\ UNCHANGED <<rows, stones, tx, clock, ask, version, purged>>
  BY DEF AskPage, DeviceInv, DrainPlaced, feedVars
<1>2. PageAsTaken(cursor, PageSize)
  BY <1>0, PageTaken
<1>3. S = {c \in Current : After(c, cursor)}
  BY DEF Changes, Current
<1>4. /\ n \in 0 .. Cardinality(S) /\ Cardinality(S) \in Nat /\ P \in Seq(S) /\ Len(P) = n
      /\ \A i \in 1 .. n : P[i] = InOrder(S)[i]
      /\ page.next \in Place /\ (n = 0 => page.next = cursor)
      /\ page \in [changes : Seq(S), next : Place, more : BOOLEAN, full : BOOLEAN]
  BY <1>2, Zenon DEF PageAsTaken
<1>5. \A i \in 1 .. n : P[i] \in S /\ PlaceIn(S, P[i]) = i - 1
  <2>1. \A i \in 1 .. n : i \in 1 .. Cardinality(S)
    BY <1>4
  <2>2. QED
    BY <1>0, <1>4, <2>1, InOrderRanks
<1>6. Changes(page.next) = {c \in S : PlaceIn(S, c) >= n} /\ (n > 0 => After(page.next, cursor))
  BY <1>0, PageSplits
<1>7. Changes(page.next) = {c \in Current : After(c, page.next)}
  BY DEF Changes, Current
<1>8. \A c \in S : PlaceIn(S, c) \in Nat
  BY <1>0, RankGrows
<1>9. ASSUME NEW c \in S, NEW d \in S, PlaceIn(S, d) < PlaceIn(S, c), c.id = d.id, c.id \in Here
      PROVE  d.ver < c.ver
  <2>1. ~After(d, c) /\ c # d
    BY <1>0, <1>8, <1>9, RankGrows
  <2>2. After(c, d)
    BY <1>0, <2>1, AfterIsStrict DEF Stamped
  <2>3. QED
    BY <1>0, <1>3, <1>9, <2>2, LaterIsNewer
<1>10. Current' = Current /\ Here' = Here
  BY <1>1 DEF Current, Upserts, Deletes, Here
<1>11. drain \in [pc : {"idle", "ask", "apply", "persist", "finish"}, at : Place, page : Pages]
  BY DEF DeviceInv, DeviceValues
<1>12. \A c \in S : c \in ServedChange /\ c.ver <= version[c.id] /\ (c.id \in Here => acknowledged[c.id] < c.ver)
  <2> SUFFICES ASSUME NEW c \in S
               PROVE  c \in ServedChange /\ c.ver <= version[c.id] /\ (c.id \in Here => acknowledged[c.id] < c.ver)
    OBVIOUS
  <2>1. c \in ServedChange /\ c.ver <= version[c.id] /\ c.id \in Entities /\ c.ver \in Nat
    BY <1>0, <1>3, CurrentTyped
  <2>2. acknowledged[c.id] \in Nat
    BY <2>1, CarriedTyped
  <2>3. c.id \in Here => c.ver > acknowledged[c.id]
    BY <1>3 DEF DeviceInv, AckedToCursor
  <2>4. QED
    BY <2>1, <2>2, <2>3
<1> HIDE DEF S, n, P, page
<1>13. page \in Pages
  <2>1. S \subseteq ServedChange
    BY <1>12
  <2>2. Seq(S) \subseteq Seq(ServedChange)
    BY <2>1
  <2>3. QED
    BY <1>4, <2>2 DEF Pages
<1>14. drain'.pc = "apply" /\ drain'.page = page /\ drain'.at = drain.at /\ Carried' = P
  BY <1>1, <1>11 DEF Carried, P
<1>15. DeviceValues'
  BY <1>0, <1>1, <1>11, <1>13 DEF DeviceValues
<1>16. FeedInv' /\ InStep' /\ AckedToCursor' /\ AckedApplied'
  <2>1. FeedInv'
    BY <1>0, <1>1 DEF FeedInv, FeedValues, StampsDiffer, Versions, AskValues, RetentionCutoff
  <2>2. InStep'
    BY <1>0, <1>1, <1>10 DEF InStep
  <2>3. AckedToCursor' /\ AckedApplied'
    BY <1>1, <1>10 DEF DeviceInv, AckedToCursor, AckedApplied
  <2>4. QED
    BY <2>1, <2>2, <2>3
<1>17. DrainPlaced' /\ PageApplied'
  <2>1. drain.at = cursor
    BY DEF DeviceInv, DrainPlaced, AskPage
  <2>2. QED
    BY <1>1, <1>14, <2>1 DEF DrainPlaced, PageApplied
<1>18. PageIsNew'
  <2>1. \A i \in 1 .. n : /\ P[i].ver <= version[P[i].id]
                          /\ P[i].id \in Here => acknowledged[P[i].id] < P[i].ver
    BY <1>5, <1>12
  <2>2. \A i, j \in 1 .. n : i < j /\ P[i].id = P[j].id /\ P[i].id \in Here => P[i].ver < P[j].ver
    <3> SUFFICES ASSUME NEW i \in 1 .. n, NEW j \in 1 .. n, i < j, P[i].id = P[j].id, P[i].id \in Here
                 PROVE  P[i].ver < P[j].ver
      OBVIOUS
    <3>1. PlaceIn(S, P[i]) < PlaceIn(S, P[j]) /\ P[i] \in S /\ P[j] \in S
      BY <1>5
    <3>2. QED
      BY <1>9, <3>1
  <2>3. QED
    BY <1>1, <1>4, <1>10, <1>14, <2>1, <2>2 DEF PageIsNew
<1>19. PageIsWhole'
  <2>1. ~After(cursor, page.next)
    <3>1. cursor.ts \in Nat /\ cursor.id \in Nat /\ page.next.ts \in Nat /\ page.next.id \in Nat
      BY <1>0, <1>4 DEF Place
    <3>2. CASE n = 0
      BY <1>4, <3>1, <3>2 DEF After
    <3>3. CASE n > 0
      BY <1>6, <3>1, <3>3 DEF After
    <3>4. QED
      BY <1>4, <3>2, <3>3
  <2>2. ASSUME NEW c \in Current, c.id \in Here, After(c, page.next), NEW i \in 1 .. n, P[i].id = c.id
        PROVE  P[i].ver < c.ver
    <3>1. c \in S /\ PlaceIn(S, c) >= n
      BY <1>6, <1>7, <2>2
    <3>2. P[i] \in S /\ PlaceIn(S, P[i]) = i - 1 /\ i - 1 < n /\ i - 1 \in Nat /\ n \in Nat
      BY <1>4, <1>5
    <3>3. PlaceIn(S, P[i]) < PlaceIn(S, c)
      BY <1>8, <3>1, <3>2
    <3>4. QED
      BY <1>9, <2>2, <3>1, <3>2, <3>3
  <2>3. ASSUME NEW c \in Current, ~After(c, page.next), After(c, cursor)
        PROVE  \E i \in 1 .. n : P[i].id = c.id /\ P[i].ver = c.ver
    <3>1. c \in S /\ ~(PlaceIn(S, c) >= n)
      BY <1>3, <1>6, <1>7, <2>3
    <3>2. PlaceIn(S, c) + 1 \in 1 .. n
      BY <1>4, <1>8, <3>1
    <3>3. P[PlaceIn(S, c) + 1] = c
      BY <1>0, <1>4, <3>1, <3>2, InOrderRanks
    <3>4. QED
      BY <3>2, <3>3
  <2>4. QED
    BY <1>1, <1>4, <1>10, <1>14, <2>1, <2>2, <2>3 DEF PageIsWhole
<1>20. QED
  BY <1>15, <1>16, <1>17, <1>18, <1>19 DEF DeviceInv

\* Applying a page keeps it.
LEMMA ApplyKept == DeviceInv /\ ApplyBatch /\ UNCHANGED feedVars => DeviceInv'
<1> SUFFICES ASSUME DeviceInv, ApplyBatch, UNCHANGED feedVars PROVE DeviceInv'
  OBVIOUS
<1>1. /\ drain.pc = "apply" /\ delivered' = Applied(delivered, Carried)
      /\ drain' = [drain EXCEPT !.pc = "persist"]
      /\ UNCHANGED <<cursor, done, breaks, acknowledged, astray>>
      /\ UNCHANGED <<rows, stones, tx, clock, ask, version, purged>>
  BY DEF ApplyBatch, Carried, feedVars
<1>2. /\ Carried \in Seq(ServedChange)
      /\ \A i \in 1 .. Len(Carried) : Carried[i].id \in Entities /\ Carried[i].ver \in Nat
      /\ \A e \in Entities : acknowledged[e] \in Nat /\ delivered[e] \in Nat
  BY CarriedTyped
<1>3. drain \in [pc : {"idle", "ask", "apply", "persist", "finish"}, at : Place, page : Pages]
  BY DEF DeviceInv, DeviceValues
<1>4. drain'.pc = "persist" /\ drain'.page = drain.page /\ drain'.at = drain.at /\ Carried' = Carried
  BY <1>1, <1>3 DEF Carried
<1>5. Current' = Current /\ Here' = Here
  BY <1>1 DEF Current, Upserts, Deletes, Here
<1>6. FeedInv' /\ InStep' /\ AckedToCursor'
  <2>1. FeedInv'
    BY <1>1 DEF DeviceInv, FeedInv, FeedValues, StampsDiffer, Versions, AskValues, RetentionCutoff
  <2>2. InStep'
    BY <1>1, <1>5 DEF DeviceInv, InStep
  <2>3. AckedToCursor'
    BY <1>1, <1>5 DEF DeviceInv, AckedToCursor
  <2>4. QED
    BY <2>1, <2>2, <2>3
<1>7. DeviceValues'
  <2>1. delivered' \in [Entities -> 0 .. MaxVersion]
    BY <1>1, <1>2, AppliedTyped DEF DeviceInv, DeviceValues
  <2>2. QED
    BY <1>1, <1>3, <2>1 DEF DeviceInv, DeviceValues
<1>8. DrainPlaced' /\ PageIsNew' /\ PageIsWhole'
  BY <1>1, <1>4, <1>5 DEF DeviceInv, DrainPlaced, PageIsNew, PageIsWhole
<1>a. \A x \in Entities :
        \/ delivered'[x] = delivered[x] /\ \A i \in 1 .. Len(Carried) : Carried[i].id # x
        \/ \E i \in 1 .. Len(Carried) :
             /\ Carried[i].id = x /\ delivered'[x] = Carried[i].ver
             /\ \A k \in 1 .. Len(Carried) : Carried[k].id = x => k <= i
  <2> SUFFICES ASSUME NEW x \in Entities
               PROVE  \/ Applied(delivered, Carried)[x] = delivered[x] /\ \A i \in 1 .. Len(Carried) : Carried[i].id # x
                      \/ \E i \in 1 .. Len(Carried) :
                           /\ Carried[i].id = x /\ Applied(delivered, Carried)[x] = Carried[i].ver
                           /\ \A k \in 1 .. Len(Carried) : Carried[k].id = x => k <= i
    BY <1>1
  <2>1. QED
    BY <1>2, AppliedIs
<1>9. AckedApplied'
  <2> SUFFICES ASSUME NEW e \in Entities
               PROVE  acknowledged[e] <= version[e] /\ (e \in Here => acknowledged[e] <= delivered'[e])
    BY <1>1, <1>5 DEF AckedApplied
  <2>1. acknowledged[e] <= version[e] /\ (e \in Here => acknowledged[e] <= delivered[e])
    BY DEF DeviceInv, AckedApplied
  <2>2. ASSUME NEW i \in 1 .. Len(Carried), Carried[i].id = e, e \in Here, delivered'[e] = Carried[i].ver
        PROVE  acknowledged[e] <= delivered'[e]
    <3>1. acknowledged[e] < Carried[i].ver
      BY <2>2 DEF DeviceInv, PageIsNew
    <3>2. QED
      BY <1>2, <2>2, <3>1
  <2>3. QED
    BY <1>1, <1>2, <1>a, <2>1, <2>2
<1>10. PageApplied'
  <2> SUFFICES ASSUME NEW j \in 1 .. Len(Carried), Carried[j].id \in Here
               PROVE  Carried[j].ver <= delivered'[Carried[j].id]
    BY <1>4, <1>5 DEF PageApplied
  <2> DEFINE e == Carried[j].id
  <2>a. e \in Entities
    BY <1>2
  <2>1. PICK i \in 1 .. Len(Carried) :
          /\ Carried[i].id = e /\ delivered'[e] = Carried[i].ver
          /\ \A k \in 1 .. Len(Carried) : Carried[k].id = e => k <= i
    BY <1>a, <2>a
  <2>2. j <= i
    BY <2>1
  <2>3. CASE j = i
    BY <1>2, <2>1, <2>3
  <2>4. CASE j < i
    <3>1. Carried[j].ver < Carried[i].ver
      BY <2>1, <2>4 DEF DeviceInv, PageIsNew
    <3>2. QED
      BY <1>2, <2>1, <3>1
  <2>5. QED
    BY <2>2, <2>3, <2>4
<1>11. QED
  BY <1>6, <1>7, <1>8, <1>9, <1>10 DEF DeviceInv

\* What is acknowledged of an entity grows to its last change in the page.
LEMMA AcknowledgedGrows ==
  ASSUME DeviceInv, NEW e \in Entities
  PROVE  LET later == Applied(acknowledged, Carried)[e]
         IN /\ later \in Nat /\ later <= version[e]
            /\ e \in Here => /\ acknowledged[e] <= later
                             /\ \A j \in 1 .. Len(Carried) : Carried[j].id = e => Carried[j].ver <= later
                             /\ later = acknowledged[e] \/ \E i \in 1 .. Len(Carried) : Carried[i].id = e /\ Carried[i].ver = later
<1> DEFINE later == Applied(acknowledged, Carried)[e]
<1>1. /\ Carried \in Seq(ServedChange)
      /\ \A i \in 1 .. Len(Carried) : Carried[i].id \in Entities /\ Carried[i].ver \in Nat
      /\ \A x \in Entities : acknowledged[x] \in Nat /\ version[x] \in Nat
  BY CarriedTyped
<1>2. acknowledged[e] <= version[e]
  BY DEF DeviceInv, AckedApplied
<1>3. CASE later = acknowledged[e] /\ \A i \in 1 .. Len(Carried) : Carried[i].id # e
  BY <1>1, <1>2, <1>3
<1>4. ASSUME NEW i \in 1 .. Len(Carried), Carried[i].id = e, later = Carried[i].ver,
             \A j \in 1 .. Len(Carried) : Carried[j].id = e => j <= i
      PROVE  /\ later \in Nat /\ later <= version[e]
             /\ e \in Here => /\ acknowledged[e] <= later
                              /\ \A j \in 1 .. Len(Carried) : Carried[j].id = e => Carried[j].ver <= later
  <2>1. Carried[i].ver <= version[e] /\ (e \in Here => acknowledged[e] < Carried[i].ver)
    BY <1>4 DEF DeviceInv, PageIsNew
  <2>2. later \in Nat /\ later <= version[e] /\ (e \in Here => acknowledged[e] <= later)
    BY <1>1, <1>4, <2>1
  <2>3. ASSUME e \in Here, NEW j \in 1 .. Len(Carried), Carried[j].id = e
        PROVE  Carried[j].ver <= later
    <3>1. j < i => Carried[j].ver < Carried[i].ver
      BY <1>4, <2>3 DEF DeviceInv, PageIsNew
    <3>2. j < i \/ j = i
      BY <1>4, <2>3
    <3>3. QED
      BY <1>1, <1>4, <2>2, <3>1, <3>2
  <2>4. QED
    BY <2>2, <2>3
<1>5. \/ later = acknowledged[e] /\ \A i \in 1 .. Len(Carried) : Carried[i].id # e
      \/ \E i \in 1 .. Len(Carried) :
              /\ Carried[i].id = e /\ later = Carried[i].ver
              /\ \A j \in 1 .. Len(Carried) : Carried[j].id = e => j <= i
  BY <1>1, AppliedIs
<1>6. QED
  BY <1>3, <1>4, <1>5

\* The page of a drain that holds none.
LEMMA NoPageTyped ==
  /\ NoPage \in Pages /\ Beginning \in Place /\ NoPage.changes = <<>> /\ Len(NoPage.changes) = 0
  /\ Idle = [pc |-> "idle", at |-> Beginning, page |-> NoPage]
  BY DEF NoPage, Pages, Beginning, Place, Idle

\* Keeping the cursor keeps it.
LEMMA PersistKept == DeviceInv /\ PersistCursor /\ UNCHANGED feedVars => DeviceInv'
<1> SUFFICES ASSUME DeviceInv, PersistCursor, UNCHANGED feedVars PROVE DeviceInv'
  OBVIOUS
<1> DEFINE next == drain.page.next
           Later(e) == Applied(acknowledged, Carried)[e]
<1>1. /\ drain.pc = "persist" /\ cursor' = next /\ acknowledged' = Applied(acknowledged, Carried)
      /\ drain' = [drain EXCEPT !.pc = IF drain.page.more THEN "ask" ELSE "finish", !.at = next, !.page = NoPage]
      /\ UNCHANGED <<done, delivered, breaks, astray>>
      /\ UNCHANGED <<rows, stones, tx, clock, ask, version, purged>>
  BY DEF PersistCursor, Carried, feedVars
<1>2. drain \in [pc : {"idle", "ask", "apply", "persist", "finish"}, at : Place, page : Pages]
  BY DEF DeviceInv, DeviceValues
<1>3. /\ drain'.pc \in {"ask", "finish"} /\ drain'.page = NoPage /\ drain'.at = next
      /\ drain' \in [pc : {"idle", "ask", "apply", "persist", "finish"}, at : Place, page : Pages]
      /\ Len(Carried') = 0
  <2>1. next \in Place
    BY CarriedTyped
  <2>2. QED
    BY <1>1, <1>2, <2>1, NoPageTyped DEF Carried
<1>4. Current' = Current /\ Here' = Here /\ FeedInv
  BY <1>1 DEF DeviceInv, Current, Upserts, Deletes, Here
<1>5. /\ Carried \in Seq(ServedChange) /\ next \in Place /\ cursor \in Place
      /\ \A i \in 1 .. Len(Carried) : Carried[i].id \in Entities /\ Carried[i].ver \in Nat
      /\ \A e \in Entities : acknowledged[e] \in Nat /\ delivered[e] \in Nat
  BY CarriedTyped
<1>6. FeedInv' /\ InStep' /\ DeviceValues'
  <2>1. FeedInv'
    BY <1>1, <1>4 DEF FeedInv, FeedValues, StampsDiffer, Versions, AskValues, RetentionCutoff
  <2>2. InStep'
    BY <1>1, <1>4 DEF DeviceInv, InStep
  <2>3. acknowledged' \in [Entities -> 0 .. MaxVersion]
    BY <1>1, <1>5, AppliedTyped DEF DeviceInv, DeviceValues
  <2>4. DeviceValues'
    BY <1>1, <1>3, <1>5, <2>3 DEF DeviceInv, DeviceValues
  <2>5. QED
    BY <2>1, <2>2, <2>4
<1>7. DrainPlaced' /\ PageIsNew' /\ PageIsWhole' /\ PageApplied'
  BY <1>1, <1>3 DEF DrainPlaced, PageIsNew, PageIsWhole, PageApplied
<1>8. AckedApplied'
  <2> SUFFICES ASSUME NEW e \in Entities
               PROVE  Later(e) <= version[e] /\ (e \in Here => Later(e) <= delivered[e])
    BY <1>1, <1>4 DEF AckedApplied
  <2>1. Later(e) <= version[e]
    BY AcknowledgedGrows
  <2>2. ASSUME e \in Here
        PROVE  Later(e) <= delivered[e]
    <3>1. acknowledged[e] <= delivered[e]
      BY <2>2 DEF DeviceInv, AckedApplied
    <3>2. \A i \in 1 .. Len(Carried) : Carried[i].id = e => Carried[i].ver <= delivered[e]
      BY <1>1, <2>2 DEF DeviceInv, PageApplied
    <3>3. Later(e) = acknowledged[e] \/ \E i \in 1 .. Len(Carried) : Carried[i].id = e /\ Carried[i].ver = Later(e)
      BY <2>2, AcknowledgedGrows
    <3>4. QED
      BY <3>1, <3>2, <3>3
  <2>3. QED
    BY <2>1, <2>2
<1>9. AckedToCursor'
  <2> SUFFICES ASSUME NEW c \in Current, c.id \in Here
               PROVE  IF After(c, next) THEN c.ver > Later(c.id) ELSE c.ver <= Later(c.id)
    BY <1>1, <1>4 DEF AckedToCursor
  <2> DEFINE e == c.id
  <2>1. e \in Entities /\ c.ver \in Nat /\ c.ts \in Nat /\ e \in Nat
    BY <1>4, CurrentTyped
  <2>2. /\ Later(e) \in Nat /\ acknowledged[e] <= Later(e) /\ acknowledged[e] \in Nat
        /\ \A j \in 1 .. Len(Carried) : Carried[j].id = e => Carried[j].ver <= Later(e)
        /\ Later(e) = acknowledged[e] \/ \E i \in 1 .. Len(Carried) : Carried[i].id = e /\ Carried[i].ver = Later(e)
    BY <1>5, <2>1, AcknowledgedGrows
  <2>3. /\ After(c, cursor) => c.ver > acknowledged[e]
        /\ ~After(c, cursor) => c.ver <= acknowledged[e]
    BY DEF DeviceInv, AckedToCursor
  <2>4. /\ ~After(cursor, next)
        /\ After(c, next) => \A i \in 1 .. Len(Carried) : Carried[i].id = e => Carried[i].ver < c.ver
        /\ ~After(c, next) /\ After(c, cursor) => \E i \in 1 .. Len(Carried) : Carried[i].id = e /\ Carried[i].ver = c.ver
    BY <1>1 DEF DeviceInv, PageIsWhole
  <2>5. After(c, next) => After(c, cursor)
    <3>1. cursor.ts \in Nat /\ cursor.id \in Nat /\ next.ts \in Nat /\ next.id \in Nat
      BY <1>5 DEF Place
    <3>2. QED
      BY <2>1, <2>4, <3>1 DEF After
  <2> HIDE DEF Later, next
  <2>6. CASE After(c, next)
    BY <2>1, <2>2, <2>3, <2>4, <2>5, <2>6
  <2>7. CASE ~After(c, next)
    BY <2>1, <2>2, <2>3, <2>4, <2>7
  <2>8. QED
    BY <2>6, <2>7
<1>10. QED
  BY <1>6, <1>7, <1>8, <1>9 DEF DeviceInv

\* A call that begins, ends or is interrupted has no page.
LEMMA CallKept ==
  DeviceInv /\ (RunInitialSync \/ Finish \/ Interrupted) /\ UNCHANGED feedVars => DeviceInv'
<1> SUFFICES ASSUME DeviceInv, RunInitialSync \/ Finish \/ Interrupted, UNCHANGED feedVars PROVE DeviceInv'
  OBVIOUS
<1>1. /\ UNCHANGED <<cursor, delivered, acknowledged, astray>>
      /\ UNCHANGED <<rows, stones, tx, clock, ask, version, purged>>
  BY DEF RunInitialSync, Finish, Interrupted, feedVars
<1>2. /\ drain'.page = NoPage /\ (drain' = Idle \/ (drain'.pc = "ask" /\ drain'.at = cursor)) /\ Len(Carried') = 0
      /\ drain' \in [pc : {"idle", "ask", "apply", "persist", "finish"}, at : Place, page : Pages]
  <2>1. cursor \in Place
    BY CarriedTyped
  <2>2. QED
    <3>1. CASE RunInitialSync
      <4>1. drain' = [pc |-> "ask", at |-> cursor, page |-> NoPage]
        BY <3>1, NoPageTyped DEF RunInitialSync
      <4>2. QED
        BY <2>1, <4>1, NoPageTyped DEF Carried
    <3>2. CASE Finish \/ Interrupted
      <4>1. drain' = Idle
        BY <3>2 DEF Finish, Interrupted
      <4>2. QED
        BY <4>1, NoPageTyped DEF Carried
    <3>3. QED
      BY <3>1, <3>2
<1>3. /\ drain'.pc \in {"idle", "ask"} /\ (drain'.pc = "idle" => drain' = Idle)
      /\ drain'.pc = "ask" => drain'.at = cursor
  BY <1>2, NoPageTyped
<1>4. Current' = Current /\ Here' = Here
  BY <1>1 DEF Current, Upserts, Deletes, Here
<1>5. FeedInv'
  BY <1>1 DEF DeviceInv, FeedInv, FeedValues, StampsDiffer, Versions, AskValues, RetentionCutoff
<1>6. DeviceValues' /\ InStep' /\ AckedToCursor' /\ AckedApplied'
  BY <1>1, <1>2, <1>4 DEF DeviceInv, DeviceValues, InStep, AckedToCursor, AckedApplied
<1>7. DrainPlaced' /\ PageIsNew' /\ PageIsWhole' /\ PageApplied'
  BY <1>1, <1>2, <1>3 DEF DrainPlaced, PageIsNew, PageIsWhole, PageApplied
<1>8. QED
  BY <1>5, <1>6, <1>7 DEF DeviceInv

\* Starting again from the beginning keeps it.
LEMMA ResetKept == DeviceInv /\ ResetInitialSync /\ UNCHANGED feedVars => DeviceInv'
<1> SUFFICES ASSUME DeviceInv, ResetInitialSync, UNCHANGED feedVars PROVE DeviceInv'
  OBVIOUS
<1>1. /\ drain.pc = "idle" /\ drain' = drain /\ cursor' = Beginning
      /\ delivered' = [e \in Entities |-> 0] /\ acknowledged' = [e \in Entities |-> 0]
      /\ astray' = {e \in astray : rows[e] # NoRow /\ stones[e].ts >= rows[e].ts}
      /\ UNCHANGED <<rows, stones, tx, clock, ask, version, purged>>
  BY DEF ResetInitialSync, feedVars
<1>2. Current' = Current /\ FeedInv /\ DeviceValues
  BY <1>1 DEF DeviceInv, Current, Upserts, Deletes
<1>3. drain = Idle /\ Len(Carried') = 0
  BY <1>1, NoPageTyped DEF DeviceInv, DrainPlaced, Carried
<1>4. FeedInv'
  BY <1>1, <1>2 DEF FeedInv, FeedValues, StampsDiffer, Versions, AskValues, RetentionCutoff
<1>5. DeviceValues'
  <2>1. 0 \in 0 .. MaxVersion
    BY FeedAssumption
  <2>2. QED
    BY <1>1, <1>2, <2>1, NoPageTyped DEF DeviceValues
<1>6. InStep'
  <2> SUFFICES ASSUME NEW e \in Entities \ astray', rows[e] # NoRow
               PROVE  stones[e].ts < rows[e].ts
    BY <1>1 DEF InStep, Here
  <2>1. stones[e].ts \in Nat /\ rows[e].ts \in Nat
    BY <1>2 DEF FeedInv, FeedValues, StampedRow
  <2>2. QED
    BY <1>1, <2>1 DEF DeviceInv, InStep, Here
<1>7. AckedToCursor'
  <2> SUFFICES ASSUME NEW c \in Current
               PROVE  After(c, Beginning) /\ c.ver > 0 /\ c.id \in Entities
    BY <1>1, <1>2 DEF AckedToCursor
  <2>1. /\ c.ts > 0 /\ c.ver > 0 /\ c.id \in Entities
    BY <1>2, CurrentTyped
  <2>2. QED
    BY <2>1 DEF After, Beginning
<1>8. AckedApplied'
  <2>1. \A e \in Entities : version[e] \in Nat
    BY <1>2, FeedAssumption DEF FeedInv, FeedValues
  <2>2. \A e \in Entities : acknowledged'[e] = 0 /\ delivered'[e] = 0 /\ version'[e] = version[e]
    BY <1>1
  <2>3. QED
    BY <2>1, <2>2 DEF AckedApplied
<1>9. DrainPlaced' /\ PageIsNew' /\ PageIsWhole' /\ PageApplied'
  BY <1>1, <1>3, NoPageTyped DEF DrainPlaced, PageIsNew, PageIsWhole, PageApplied
<1>10. QED
  BY <1>4, <1>5, <1>6, <1>7, <1>8, <1>9 DEF DeviceInv

\* The device starts with its invariant.
LEMMA DeviceStarts == DeviceInit => DeviceInv
<1> SUFFICES ASSUME DeviceInit PROVE DeviceInv
  OBVIOUS
<1>1. /\ FeedInit /\ cursor = Beginning /\ drain = Idle /\ astray = {}
      /\ delivered = [e \in Entities |-> 0] /\ acknowledged = delivered
  BY DEF DeviceInit
<1>2. FeedInv /\ Len(Carried) = 0
  BY <1>1, FeedStarts, NoPageTyped DEF Carried
<1>3. DeviceValues
  <2>1. 0 \in 0 .. MaxVersion
    BY FeedAssumption
  <2>2. QED
    BY <1>1, <2>1, NoPageTyped DEF DeviceValues
<1>4. InStep
  <2>1. \A e \in Entities : stones[e].ts = 0
    BY <1>1 DEF FeedInit, NoRow
  <2>2. QED
    BY <1>2, <2>1 DEF InStep, Here, FeedInv, StampsDiffer
<1>5. AckedToCursor
  <2> SUFFICES ASSUME NEW c \in Current
               PROVE  After(c, Beginning) /\ c.ver > 0 /\ c.id \in Entities
    BY <1>1 DEF AckedToCursor
  <2>1. /\ c.ts > 0 /\ c.ver > 0 /\ c.id \in Entities
    BY <1>2, CurrentTyped
  <2>2. QED
    BY <2>1 DEF After, Beginning
<1>6. AckedApplied
  <2>1. \A e \in Entities : version[e] \in Nat
    BY <1>2, FeedAssumption DEF FeedInv, FeedValues
  <2>2. QED
    BY <1>1, <2>1 DEF AckedApplied
<1>7. DrainPlaced /\ PageIsNew /\ PageIsWhole /\ PageApplied
  BY <1>1, <1>2, NoPageTyped DEF DrainPlaced, PageIsNew, PageIsWhole, PageApplied
<1>8. QED
  BY <1>2, <1>3, <1>4, <1>5, <1>6, <1>7 DEF DeviceInv

\* Every step of the device and of the feed keeps it.
LEMMA DeviceKept == DeviceInv /\ [DeviceNext]_deviceVars => DeviceInv'
<1> SUFFICES ASSUME DeviceInv, [DeviceNext]_deviceVars PROVE DeviceInv'
  OBVIOUS
<1>1. CASE FeedStep /\ Watch /\ UNCHANGED drainVars
  BY <1>1, DeviceKeptByFeed
<1>2. CASE DrainStep /\ UNCHANGED feedVars
  BY <1>2, AskKept, ApplyKept, PersistKept, CallKept, ResetKept DEF DrainStep
<1>3. CASE UNCHANGED deviceVars
  <2>1. UNCHANGED <<cursor, drain, delivered, acknowledged, astray>>
        /\ UNCHANGED <<rows, stones, tx, clock, ask, version, purged>>
    BY <1>3 DEF deviceVars, feedVars, drainVars
  <2>2. Current' = Current /\ Here' = Here /\ Carried' = Carried
    BY <2>1 DEF Current, Upserts, Deletes, Here, Carried
  <2>3. FeedInv'
    BY <2>1 DEF DeviceInv, FeedInv, FeedValues, StampsDiffer, Versions, AskValues, RetentionCutoff
  <2>4. DeviceValues' /\ InStep' /\ AckedToCursor' /\ AckedApplied'
    BY <2>1, <2>2 DEF DeviceInv, DeviceValues, InStep, AckedToCursor, AckedApplied
  <2>5. DrainPlaced' /\ PageIsNew' /\ PageIsWhole' /\ PageApplied'
    BY <2>1, <2>2 DEF DeviceInv, DrainPlaced, PageIsNew, PageIsWhole, PageApplied
  <2>6. QED
    BY <2>3, <2>4, <2>5 DEF DeviceInv
<1>4. QED
  BY <1>1, <1>2, <1>3 DEF DeviceNext

\* The invariant of the device gives what its cursor means.
LEMMA DeviceCovers == DeviceInv => CursorCovers
<1> SUFFICES ASSUME DeviceInv, NEW c \in Current, c.id \notin astray, ~After(c, cursor)
             PROVE  delivered[c.id] >= c.ver
  BY DEF CursorCovers, Current
<1>1. c.id \in Here /\ c.id \in Entities /\ c.ver \in Nat
  BY CurrentTyped DEF DeviceInv, Here
<1>2. c.ver <= acknowledged[c.id] /\ acknowledged[c.id] <= delivered[c.id]
  BY <1>1 DEF DeviceInv, AckedToCursor, AckedApplied
<1>3. acknowledged[c.id] \in Nat /\ delivered[c.id] \in Nat
  BY <1>1, CarriedTyped
<1>4. QED
  BY <1>1, <1>2, <1>3

-----------------------------------------------------------------------------

replicaVars == <<version, rows, acknowledged, astray>>

\* The device starts as a replica does.
LEMMA ReplicaStarts == DeviceInit => R!Init
<1> SUFFICES ASSUME DeviceInit PROVE R!Init
  OBVIOUS
<1>1. FeedInv /\ acknowledged = [e \in Entities |-> 0] /\ astray = {}
  BY FeedStarts DEF DeviceInit
<1>2. QED
  BY <1>1 DEF FeedInv, FeedValues, R!Init

\* A step of the feed changes one entity at most, or forgets deletions.
LEMMA FeedRefines ==
  ASSUME DeviceInv, FeedStep, Watch, UNCHANGED drainVars
  PROVE  [R!Next]_replicaVars
<1> DEFINE new == {c \in Current' : version'[c.id] # version[c.id] /\ c.ver = version'[c.id]}
           gone == {p \in purged' \ purged : rows[p.id] = NoRow /\ Held(p.id) /\ After(p, cursor)}
           strayed == {c.id : c \in {x \in new : OutOfPlace(x)}}
<1>0. /\ acknowledged' = acknowledged /\ FeedInv
      /\ astray' = astray \union strayed \union {p.id : p \in gone}
      /\ rows \in [Entities -> StampedRow] /\ version \in [Entities -> 0 .. MaxVersion]
      /\ \A e \in Entities : version[e] \in Nat
  BY FeedAssumption DEF Watch, Current, DeviceInv, FeedInv, FeedValues, drainVars
<1>1. CASE Begin \/ PassTime \/ StoreStays \/ \E w \in Writers : Rollback(w)
  <2>1. UNCHANGED <<rows, stones, version, purged>>
    BY <1>1 DEF Begin, PassTime, StoreStays, Rollback
  <2>2. new = {} /\ gone = {}
    BY <2>1
  <2>3. QED
    BY <1>0, <2>1, <2>2 DEF replicaVars
<1>2. CASE PurgeStep
  <2>1. UNCHANGED <<rows, version>>
    BY <1>2 DEF PurgeStep
  <2>2. new = {}
    BY <2>1
  <2>3. {p.id : p \in gone} \in SUBSET {e \in Entities : rows[e] = NoRow}
    <3>1. FeedInv'
      BY <1>0, FeedKept
    <3>2. \A p \in purged' : p.id \in Entities
      BY <3>1 DEF FeedInv, AskValues
    <3>3. QED
      BY <3>2
  <2>4. astray' \in {astray \union some : some \in SUBSET {e \in Entities : rows[e] = NoRow}}
    <3>1. strayed = {}
      BY <2>2
    <3> DEFINE lost == {p.id : p \in gone}
    <3>2. astray' = astray \union lost
      BY <1>0, <3>1
    <3>3. lost \in SUBSET {e \in Entities : rows[e] = NoRow}
      BY <2>3
    <3> HIDE DEF lost
    <3>4. QED
      BY <3>2, <3>3
  <2>5. R!Forget
    BY <1>0, <2>1, <2>4 DEF R!Forget
  <2>6. QED
    BY <2>5 DEF R!Next
<1>3. ASSUME NEW w \in Writers, Commit(w)
      PROVE  R!Next
  <2> DEFINE e == tx[w].e
  <2>1. /\ e \in Entities /\ version[e] < MaxVersion /\ purged' = purged
        /\ version' = [version EXCEPT ![e] = @ + 1]
        /\ rows' = [rows EXCEPT ![e] = rows'[e]]
    <3>1. /\ e \in Entities /\ purged' = purged
          /\ version' = [version EXCEPT ![e] = version[e] + 1]
      BY <1>0, <1>3, CommitMoves
    <3>2. rows' = [rows EXCEPT ![e] = NoRow] \/ \E row : rows' = [rows EXCEPT ![e] = row]
      BY <1>0, <1>3, CommitMoves
    <3>3. rows' = [rows EXCEPT ![e] = rows'[e]]
      BY <1>0, <3>1, <3>2
    <3>4. version[e] < MaxVersion
      BY <1>3 DEF Commit
    <3>5. QED
      BY <3>1, <3>3, <3>4
  <2> HIDE DEF e
  <2>2. gone = {}
    BY <2>1
  <2>3. \A c \in Current' : c.id \in Entities
    BY CurrentAre, InFields
  <2>4. \A c \in new : c.id = e
    BY <1>0, <2>1, <2>3
  <2>5. strayed = {} \/ strayed = {e}
    BY <2>4
  <2>6. astray' \in {astray, astray \union {e}}
    BY <1>0, <2>2, <2>5
  <2>7. R!Change(e)
    BY <1>0, <2>1, <2>6 DEF R!Change
  <2>8. QED
    BY <2>1, <2>7 DEF R!Next
<1>4. QED
  BY <1>0, <1>1, <1>2, <1>3, FeedCases

\* Of a call, the persisting of the cursor alone moves the replica, forwards.
LEMMA DrainRefines ==
  ASSUME DeviceInv, DrainStep, UNCHANGED feedVars
  PROVE  [R!Next]_replicaVars
<1>0. UNCHANGED <<version, rows>>
  BY DEF feedVars
<1>1. CASE RunInitialSync \/ AskPage \/ ApplyBatch \/ Finish \/ Interrupted
  BY <1>0, <1>1 DEF RunInitialSync, AskPage, ApplyBatch, Finish, Interrupted, replicaVars
<1>2. CASE PersistCursor
  <2>1. acknowledged' = Applied(acknowledged, Carried) /\ astray' = astray
    BY <1>2 DEF PersistCursor, Carried
  <2>2. acknowledged' \in [Entities -> 0 .. MaxVersion]
    BY <2>1, CarriedTyped, AppliedTyped DEF DeviceInv, DeviceValues
  <2>3. \A e \in Entities \ astray : acknowledged'[e] \in acknowledged[e] .. version[e]
    <3> SUFFICES ASSUME NEW e \in Entities \ astray PROVE acknowledged'[e] \in acknowledged[e] .. version[e]
      OBVIOUS
    <3>1. e \in Here
      BY DEF Here
    <3>2. /\ acknowledged'[e] \in Nat /\ acknowledged'[e] <= version[e] /\ acknowledged[e] <= acknowledged'[e]
      BY <2>1, <3>1, AcknowledgedGrows
    <3>3. acknowledged[e] \in Nat /\ version[e] \in Nat
      BY CarriedTyped
    <3>4. QED
      BY <3>2, <3>3
  <2>4. R!Advance
    BY <1>0, <2>1, <2>2, <2>3 DEF R!Advance
  <2>5. QED
    BY <2>4 DEF R!Next
<1>3. CASE ResetInitialSync
  <2>1. acknowledged' = [e \in Entities |-> 0] /\ astray' \in SUBSET astray
    BY <1>3 DEF ResetInitialSync
  <2>2. R!Reset
    BY <1>0, <2>1 DEF R!Reset
  <2>3. QED
    BY <2>2 DEF R!Next
<1>4. QED
  BY <1>1, <1>2, <1>3 DEF DrainStep

\* Every step of the device and of the feed is a step of the replica, or none.
LEMMA DeviceRefines == DeviceInv /\ [DeviceNext]_deviceVars => [R!Next]_replicaVars
<1> SUFFICES ASSUME DeviceInv, [DeviceNext]_deviceVars PROVE [R!Next]_replicaVars
  OBVIOUS
<1>1. CASE UNCHANGED deviceVars
  BY <1>1 DEF deviceVars, feedVars, drainVars, replicaVars
<1>2. QED
  BY <1>1, FeedRefines, DrainRefines DEF DeviceNext

\* For any entities and writers: two pages of one or of two changes are the page of
\* twice the size, from every cursor (server/sync.rs, get_sync_changes).
THEOREM PagesAreWhole == DeviceSpec => []PagesTile
<1>1. DeviceSpec => []DeviceInv
  BY DeviceStarts, DeviceKept, PTL DEF DeviceSpec
<1>2. DeviceInv => PagesTile
  BY FeedSafe DEF DeviceInv
<1>3. QED
  BY <1>1, <1>2, PTL

\* So are two pages of any size (server/sync.rs, get_sync_changes).
THEOREM AnyPagesTile == DeviceSpec => [](\A at \in Cursors, limit \in Nat \ {0} : Tiles(at, limit))
<1>1. DeviceSpec => []DeviceInv
  BY DeviceStarts, DeviceKept, PTL DEF DeviceSpec
<1>2. DeviceInv => \A at \in Cursors, limit \in Nat \ {0} : Tiles(at, limit)
  BY FeedStamped, TilesWhenStamped DEF DeviceInv
<1>3. QED
  BY <1>1, <1>2, PTL

\* For any retention: a cursor from before a deletion that was purged is told to
\* start again, unless a request with a later now purged it between the now and the
\* list of the answer (core/sync.rs, requires_full_resync; server/sync.rs,
\* get_tombstones).
THEOREM DeletionsAreTold == DeviceSpec => []DeletionsTold
<1>1. DeviceSpec => []DeviceInv
  BY DeviceStarts, DeviceKept, PTL DEF DeviceSpec
<1>2. DeviceInv => DeletionsTold
  BY FeedSafe DEF DeviceInv
<1>3. QED
  BY <1>1, <1>2, PTL

\* For any page size and number of writers and of interruptions: the device was
\* handed all the changes up to its persisted cursor, but for what the feed put astray
\* (initialSync.ts, runInitialSync).
THEOREM CursorIsTrue == DeviceSpec => []CursorCovers
<1>1. DeviceSpec => []DeviceInv
  BY DeviceStarts, DeviceKept, PTL DEF DeviceSpec
<1>2. QED
  BY <1>1, DeviceCovers, PTL

\* For any page size: the device starts as a replica and each step is one of its
\* steps or none, so that what it acknowledged moves only forwards, to versions that
\* the server had (initialSync.ts, runInitialSync, with get_sync_changes).
THEOREM ReplicaForwards == DeviceSpec => R!Init /\ [][R!Next]_replicaVars
<1>1. DeviceSpec => []DeviceInv
  BY DeviceStarts, DeviceKept, PTL DEF DeviceSpec
<1>2. QED
  BY <1>1, ReplicaStarts, DeviceRefines, PTL DEF DeviceSpec

-----------------------------------------------------------------------------
(* Together: no part moves another, whichever has the focus. *)

\* No part moves another: together they implement the device with its feed, the
\* outbox, the schedule, the rates with their figures, and the process.
THEOREM DomainPartsKept == Spec => DeviceSpec /\ OutboxSpec /\ ScheduleSpec /\ FiguresSpec /\ LifeSpec
<1>1. Init => DeviceInit /\ OutboxInit /\ ScheduleInit /\ RatesInit /\ LifeInit
  BY DEF Init
<1>2. [Next]_vars => [DeviceNext]_deviceVars
  BY DEF Next, OnFeed, OnOutbox, OnProcess, vars
<1>3. [Next]_vars => [OutboxNext]_outboxVars
  BY DEF Next, OnFeed, OnOutbox, OnProcess, vars
<1>4. [Next]_vars => [LifeNext]_lifeVars
  BY DEF Next, OnFeed, OnOutbox, OnProcess, vars
<1>5. [Next]_vars => [ScheduleNext]_reply
  BY DEF Next, OnFeed, OnOutbox, OnProcess, vars
<1>6. [Next]_vars => [FiguresNext]_rateVars
  BY DEF Next, OnFeed, OnOutbox, OnProcess, vars
<1>7. QED
  BY <1>1, <1>2, <1>3, <1>4, <1>5, <1>6, PTL DEF Spec, DeviceSpec, OutboxSpec, ScheduleSpec, FiguresSpec, LifeSpec

\* What is proved of the parts holds of them together.
THEOREM DomainSafe ==
  Spec => []( /\ PagesTile /\ DeletionsTold /\ CursorCovers /\ EditsKept /\ SendsExplained
              /\ CutOnlyOverdue /\ ServedAsConfigured
              /\ NextDueIsFirst /\ ScheduleIsExact /\ RemindedOnce
              /\ ConversionsAreExact /\ StatisticsAreExact /\ ListIsAsAsked)
  BY DomainPartsKept, PagesAreWhole, DeletionsAreTold, CursorIsTrue, EditsAreKept, SendsAreExplained,
     ShutdownCutsOverdue, ServesAsConfigured, DueDatesExact, WindowsExact, RemindersExact,
     ConversionsExact, StatisticsExact, ListExact, PTL
=============================================================================
