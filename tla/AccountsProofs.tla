--------------------------- MODULE AccountsProofs ---------------------------
(* Theorems about Accounts, for every value of its constants.              *)
EXTENDS Accounts, FiniteSetTheorems, TLAPS

-----------------------------------------------------------------------------
(* What is true of a handler wherever it stands. *)

Authenticated == {"read", "revoke", "change"}

Places == {"idle", "find_session", "touch", "find_device", "read", "revoke", "logout", "signup",
           "count_email", "count_ip", "read_credentials", "verify", "open_session", "open_device",
           "read_hash", "update", "sweep_sessions", "sweep_devices"}

Handler == [pc : Places, ask : Requests \cup {None}, now : 0..MaxClock, who : Emails \cup {None},
            device : Devices \cup {None}, blocked : BOOLEAN, hash : Passwords \cup {None},
            epoch : 0..MaxServed]

\* The request of a handler is one that leads where it stands, and whoever is
\* past the extractor is known.
Placed(q) ==
  /\ q.pc # "idle" => q.ask \in Requests
  /\ q.pc \in {"find_session", "touch", "find_device"} => q.ask.kind \in Authenticated
  /\ q.pc \in {"read", "revoke", "logout", "signup"} => q.ask.kind = q.pc
  /\ q.pc \in {"count_email", "count_ip", "verify"} => q.ask.kind \in {"login", "pair", "change"}
  /\ q.pc = "read_credentials" => q.ask.kind \in {"login", "pair"}
  /\ q.pc = "open_session" => q.ask.kind = "login"
  /\ q.pc = "open_device" => q.ask.kind = "pair"
  /\ q.pc \in {"read_hash", "update", "sweep_sessions", "sweep_devices"} => q.ask.kind = "change"
  /\ q.pc = "touch" => q.ask.cookie \in Tokens
  /\ q.pc \notin {"idle", "find_session", "find_device"} /\ q.ask.kind \in Authenticated => q.who \in Emails

WebSession == [email : Emails, expires : 0..(MaxClock + IdleTtl), epoch : 0..MaxServed, late : BOOLEAN]
PairedDevice == [email : Emails, epoch : 0..MaxServed, late : BOOLEAN]
UserRow == [hash : Passwords \cup {None}, epoch : 0..MaxServed, language : Languages \cup {None}]

AccountsTyped ==
  /\ accounts \in [Emails -> UserRow]
  /\ categories \in [Emails -> Languages \cup {None}]
  /\ sessions \in [Tokens -> WebSession \cup {NoSession}]
  /\ devices \in [Devices -> PairedDevice \cup {NoDevice}]
  /\ \A a \in attempts : a.at \in 0..MaxClock /\ a.email \in Emails
  /\ IsFiniteSet(attempts)
  /\ req \in [Procs -> Handler]
  /\ time \in 0..MaxClock /\ served \in 0..MaxServed /\ faults \in Nat
  /\ spent \subseteq Tokens \cup Devices
  /\ swept \in [Emails -> [web : Sweep, native : Sweep]]

\* A handler captured its instant when it began.
HandlersPlaced == \A p \in Procs : Placed(req[p]) /\ req[p].now <= time

\* The handlers that may still change a password, each by one.
Undecided == {p \in Procs : req[p].pc \notin {"idle", "sweep_sessions", "sweep_devices"}}

\* A password was changed by one of the requests that were served, and no
\* revocation is about a password later than the account's.
EpochsOrdered ==
  /\ \A e \in Emails : accounts[e].epoch + Cardinality(Undecided) <= served
  /\ \A p \in Procs : req[p].pc \in {"sweep_sessions", "sweep_devices"} =>
       req[p].epoch <= accounts[req[p].who].epoch
  /\ \A e \in Emails : swept[e].web.epoch <= accounts[e].epoch /\ swept[e].native.epoch <= accounts[e].epoch

AccountsInv == AccountsTyped /\ HandlersPlaced /\ EpochsOrdered /\ OldAccessEnds /\ EndedStaysEnded

-----------------------------------------------------------------------------
(* Constants and the initial state. *)

\* A handler at rest is a handler, and in its place.
LEMMA IdleHandler == Idle \in Handler /\ Placed(Idle)
  BY AccountsAssumption DEF Idle, Handler, Places, Placed

\* The invariant holds at first.
LEMMA AccountsInitInv == AccountsInit => AccountsInv
<1> SUFFICES ASSUME AccountsInit PROVE AccountsInv
  OBVIOUS
<1> USE DEF AccountsInit
<1>1. MaxServed \in Nat /\ MaxClock \in Nat
  BY AccountsAssumption
<1>2. NoSweep \in Sweep
  BY <1>1 DEF NoSweep, Sweep
<1>3. accounts \in [Emails -> UserRow] /\ \A e \in Emails : accounts[e].epoch = 0
  <2>1. 0 \in 0..MaxServed
    BY <1>1
  <2>2. [hash : Passwords \cup {None}, epoch : {0}, language : Languages \cup {None}] \subseteq UserRow
    BY <2>1 DEF UserRow
  <2>3. QED
    BY <2>2, InitialAssumption
<1>4. sessions \in [Tokens -> WebSession \cup {NoSession}]
  <2>1. 0 \in 0..MaxServed
    BY <1>1
  <2>2. [email : Emails, expires : 0..(MaxClock + IdleTtl), epoch : {0}, late : {FALSE}] \subseteq WebSession
    BY <2>1 DEF WebSession
  <2>3. QED
    BY <2>2, InitialAssumption
<1>5. devices \in [Devices -> PairedDevice \cup {NoDevice}]
  <2>1. 0 \in 0..MaxServed
    BY <1>1
  <2>2. [email : Emails, epoch : {0}, late : {FALSE}] \subseteq PairedDevice
    BY <2>1 DEF PairedDevice
  <2>3. QED
    BY <2>2, InitialAssumption
<1>6. categories \in [Emails -> Languages \cup {None}]
  BY InitialAssumption
<1>7. req \in [Procs -> Handler]
  BY IdleHandler
<1>8. AccountsTyped
  BY <1>1, <1>2, <1>3, <1>4, <1>5, <1>6, <1>7, FS_EmptySet DEF AccountsTyped
<1>9. HandlersPlaced
  BY IdleHandler DEF HandlersPlaced, Idle
<1>10. EpochsOrdered
  <2>1. Undecided = {} /\ Cardinality(Undecided) = 0
    BY FS_EmptySet DEF Undecided, Idle
  <2>2. QED
    BY <1>1, <1>3, <2>1 DEF EpochsOrdered, Idle, NoSweep
<1>11. OldAccessEnds
  <2>1. \A t \in Tokens : sessions[t].email # None => sessions[t].epoch = 0 /\ sessions[t].email \in Emails
    <3>1. ASSUME NEW t \in Tokens
          PROVE  sessions[t] \in {NoSession} \cup
                   [email : Emails, expires : 0..(MaxClock + IdleTtl), epoch : {0}, late : {FALSE}]
      BY InitialAssumption, Zenon
    <3>2. \A t \in Tokens : sessions[t] = NoSession \/ (sessions[t].epoch = 0 /\ sessions[t].email \in Emails)
      BY <3>1
    <3>3. QED
      BY <3>2 DEF NoSession
  <2>2. \A d \in Devices : devices[d].email # None => devices[d].epoch = 0 /\ devices[d].email \in Emails
    <3>1. ASSUME NEW d \in Devices
          PROVE  devices[d] \in {NoDevice} \cup [email : Emails, epoch : {0}, late : {FALSE}]
      BY InitialAssumption, Zenon
    <3>2. \A d \in Devices : devices[d] = NoDevice \/ (devices[d].epoch = 0 /\ devices[d].email \in Emails)
      BY <3>1
    <3>3. QED
      BY <3>2 DEF NoDevice
  <2>3. QED
    BY <2>1, <2>2 DEF OldAccessEnds, NoSweep
<1>12. EndedStaysEnded
  BY DEF EndedStaysEnded
<1>13. QED
  BY <1>8, <1>9, <1>10, <1>11, <1>12 DEF AccountsInv

-----------------------------------------------------------------------------
(* Who writes what, and how a handler moves. *)

\* Which statement writes which table: a step of a handler leaves every other one
\* alone.
LEMMA WhoWrites ==
  ASSUME NEW p \in Procs, AccountStep(p)
  PROVE  /\ UNCHANGED <<accounts, categories>> \/ Signup(p) \/ Update(p)
         /\ UNCHANGED sessions \/ Touch(p) \/ Logout(p) \/ OpenSession(p) \/ SweepSessions(p)
         /\ UNCHANGED devices \/ Revoke(p) \/ OpenDevice(p) \/ SweepDevices(p)
         /\ UNCHANGED attempts \/ Clear(p) \/ RecordFailure(p)
         /\ UNCHANGED spent \/ Revoke(p) \/ Logout(p) \/ SweepSessions(p) \/ SweepDevices(p)
         /\ UNCHANGED swept \/ SweepSessions(p) \/ SweepDevices(p)
         /\ UNCHANGED time
         /\ UNCHANGED served \/ \E r \in Requests : Begin(p, r)
         /\ UNCHANGED faults \/ StatementFails(p) \/ Cut(p)
<1>1. ASSUME NEW r \in Requests, Begin(p, r)
      PROVE  UNCHANGED <<accounts, categories, sessions, devices, attempts, spent, swept, time, faults>>
  BY <1>1 DEF Begin
<1>2. FindSession(p) \/ FindDevice(p) \/ Read(p) \/ CountEmail(p) \/ CountIp(p) \/ ReadCredentials(p) \/ ReadHash(p) =>
      UNCHANGED <<accounts, categories, sessions, devices, attempts, spent, swept, time, served, faults>>
  BY DEF FindSession, FindDevice, Read, CountEmail, CountIp, ReadCredentials, ReadHash
<1>3. Touch(p) => UNCHANGED <<accounts, categories, devices, attempts, spent, swept, time, served, faults>>
  BY DEF Touch
<1>4. Logout(p) => UNCHANGED <<accounts, categories, devices, attempts, swept, time, served, faults>>
  BY DEF Logout
<1>5. Revoke(p) => UNCHANGED <<accounts, categories, sessions, attempts, swept, time, served, faults>>
  BY DEF Revoke
<1>6. Signup(p) \/ Update(p) => UNCHANGED <<sessions, devices, attempts, spent, swept, time, served, faults>>
  BY DEF Signup, Update
<1>7. Clear(p) \/ RecordFailure(p) =>
      UNCHANGED <<accounts, categories, sessions, devices, spent, swept, time, served, faults>>
  BY DEF Clear, RecordFailure
<1>8. OpenSession(p) => UNCHANGED <<accounts, categories, devices, attempts, spent, swept, time, served, faults>>
  BY DEF OpenSession
<1>9. OpenDevice(p) => UNCHANGED <<accounts, categories, sessions, attempts, spent, swept, time, served, faults>>
  BY DEF OpenDevice
<1>10. SweepSessions(p) => UNCHANGED <<accounts, categories, devices, attempts, time, served, faults>>
  BY DEF SweepSessions
<1>11. SweepDevices(p) => UNCHANGED <<accounts, categories, sessions, attempts, time, served, faults>>
  BY DEF SweepDevices
<1>12. StatementFails(p) \/ Cut(p) =>
       UNCHANGED <<accounts, categories, sessions, devices, attempts, spent, swept, time, served>>
  BY DEF StatementFails, Cut
<1>13. QED
  BY <1>1, <1>2, <1>3, <1>4, <1>5, <1>6, <1>7, <1>8, <1>9, <1>10, <1>11, <1>12 DEF AccountStep

\* What a handler past its first step is known to be.
LEMMA Acting ==
  ASSUME AccountsTyped, HandlersPlaced, NEW p \in Procs, ~At(p, "idle")
  PROVE  /\ req[p] \in Handler /\ Placed(req[p]) /\ Ask(p) \in Requests /\ req[p].now \in 0..time
         /\ Ask(p).kind \in {"login", "pair", "signup", "logout", "read", "revoke", "change"}
         /\ Ask(p).cookie \in Tokens \cup {None} /\ Ask(p).bearer \in Devices \cup {None}
<1>1. req[p] \in Handler /\ Placed(req[p]) /\ req[p].now <= time /\ req[p].now \in 0..MaxClock
  BY DEF AccountsTyped, HandlersPlaced, Handler
<1>2. Ask(p) \in Requests
  BY <1>1 DEF Placed, Ask, At
<1>3. req[p].now \in 0..time
  BY <1>1, AccountsAssumption DEF AccountsTyped
<1>4. QED
  BY <1>1, <1>2, <1>3, RequestsAssumption

\* Where a handler stands when it goes on at pc.
LEMMA Goes ==
  ASSUME NEW q \in Handler, NEW pc \in Places
  PROVE  [q EXCEPT !.pc = pc] \in Handler
  BY DEF Handler

\* The handler p becomes q, and the others stay.
Becomes(p, q) == q \in Handler /\ Placed(q) /\ q.now <= time /\ req' = [req EXCEPT ![p] = q]

\* A handler goes on to another place, with the same local variables.
LEMMA GoesOn ==
  ASSUME AccountsTyped, HandlersPlaced, NEW p \in Procs, ~At(p, "idle"), NEW pc \in Places,
         Placed([req[p] EXCEPT !.pc = pc]), req' = [req EXCEPT ![p].pc = pc]
  PROVE  \E q : Becomes(p, q)
<1> DEFINE q == [req[p] EXCEPT !.pc = pc]
<1>1. q \in Handler
  BY Acting, Goes
<1>2. q.now = req[p].now /\ q.now <= time
  BY Acting DEF HandlersPlaced, Handler
<1>3. req' = [req EXCEPT ![p] = q]
  OBVIOUS
<1>4. Becomes(p, q)
  BY <1>1, <1>2, <1>3 DEF Becomes
<1>5. QED
  BY <1>4

\* A handler that answers is at rest again.
LEMMA Answers ==
  ASSUME AccountsTyped, NEW p \in Procs, Answer(p)
  PROVE  \E q : Becomes(p, q)
<1>1. Becomes(p, Idle)
  BY IdleHandler, AccountsAssumption DEF Becomes, Answer, Idle, AccountsTyped
<1>2. QED
  BY <1>1

\* Where an authenticated route goes once its caller is known.
LEMMA WorkPlaced ==
  ASSUME NEW q \in Handler, q.ask \in Requests, q.ask.kind \in Authenticated, q.who \in Emails
  PROVE  Work(q.ask.kind) \in Places /\ Placed([q EXCEPT !.pc = Work(q.ask.kind)])
<1>1. CASE q.ask.kind = "change"
  BY <1>1 DEF Work, Places, Placed, Handler, Authenticated
<1>2. CASE q.ask.kind = "read"
  BY <1>2 DEF Work, Places, Placed, Handler, Authenticated
<1>3. CASE q.ask.kind = "revoke"
  BY <1>3 DEF Work, Places, Placed, Handler, Authenticated
<1>4. QED
  BY <1>1, <1>2, <1>3 DEF Authenticated

\* A handler that receives a request stands at its first statement.
LEMMA BeginMoves ==
  ASSUME AccountsTyped, NEW p \in Procs, NEW r \in Requests, Begin(p, r)
  PROVE  \E q : Becomes(p, q)
<1> DEFINE q == [Idle EXCEPT !.pc = FirstStep(r.kind), !.ask = r, !.now = time]
<1>1. r.kind \in {"login", "pair", "signup", "logout", "read", "revoke", "change"}
  BY RequestsAssumption
<1>2. FirstStep(r.kind) \in Places /\ Placed(q)
  <2>1. /\ r.kind \in {"login", "pair"} => FirstStep(r.kind) = "count_email"
        /\ r.kind = "signup" => FirstStep(r.kind) = "signup"
        /\ r.kind = "logout" => FirstStep(r.kind) = "logout"
        /\ r.kind \in Authenticated => FirstStep(r.kind) = "find_session"
    BY DEF FirstStep, Authenticated
  <2>2. q.pc = FirstStep(r.kind) /\ q.ask = r
    BY DEF Idle
  <2>3. CASE r.kind \in {"login", "pair"}
    BY <2>1, <2>2, <2>3 DEF Places, Placed, Authenticated
  <2>4. CASE r.kind \in {"signup", "logout"}
    BY <2>1, <2>2, <2>4 DEF Places, Placed, Authenticated
  <2>5. CASE r.kind \in Authenticated
    BY <2>1, <2>2, <2>5 DEF Places, Placed, Authenticated
  <2>6. QED
    BY <1>1, <2>3, <2>4, <2>5 DEF Authenticated
<1>3. q \in Handler /\ q.now <= time
  <2>1. time \in 0..MaxClock /\ time \in Nat /\ 0 \in 0..MaxServed
    BY AccountsAssumption DEF AccountsTyped
  <2>2. Idle \in Handler
    BY IdleHandler
  <2>3. q \in Handler /\ q.now = time
    BY <1>2, <2>1, <2>2 DEF Handler
  <2>4. QED
    BY <2>1, <2>3
<1>4. Becomes(p, q)
  BY <1>2, <1>3 DEF Begin, Becomes
<1>5. QED
  BY <1>4

\* The extractor.
LEMMA ExtractorMoves ==
  ASSUME AccountsTyped, HandlersPlaced, NEW p \in Procs, FindSession(p) \/ Touch(p) \/ FindDevice(p)
  PROVE  \E q : Becomes(p, q)
<1> DEFINE h == req[p]
<1>1. ~At(p, "idle")
  BY DEF FindSession, Touch, FindDevice, At
<1>2. /\ h \in Handler /\ Placed(h) /\ h.ask \in Requests /\ h.now <= time /\ Ask(p) = h.ask
      /\ Ask(p).cookie \in Tokens \cup {None} /\ Ask(p).bearer \in Devices \cup {None}
  BY <1>1, Acting DEF Ask, HandlersPlaced
<1>3. h.ask.kind \in Authenticated
  BY <1>2 DEF Placed, FindSession, Touch, FindDevice, At
<1>4. CASE FindSession(p)
  <2>1. CASE ValidSession(Ask(p).cookie, h.now)
    <3> DEFINE q == [h EXCEPT !.pc = "touch", !.who = sessions[Ask(p).cookie].email]
    <3>1. h.ask.cookie \in Tokens /\ sessions[h.ask.cookie] \in WebSession
      BY <1>2, <2>1 DEF ValidSession, AccountsTyped
    <3>2. sessions[h.ask.cookie].email \in Emails
      BY <3>1 DEF WebSession
    <3>3. q \in Handler /\ Placed(q) /\ q.now <= time
      BY <1>2, <1>3, <3>1, <3>2 DEF Handler, Places, Placed, Authenticated
    <3>4. Becomes(p, q)
      BY <1>4, <2>1, <3>3 DEF FindSession, Becomes
    <3>5. QED
      BY <3>4
  <2>2. CASE ~ValidSession(Ask(p).cookie, h.now)
    <3>1. Placed([h EXCEPT !.pc = "find_device"]) /\ "find_device" \in Places
      BY <1>2, <1>3 DEF Handler, Places, Placed, Authenticated
    <3>2. QED
      BY <1>1, <1>4, <2>2, <3>1, GoesOn DEF FindSession
  <2>3. QED
    BY <2>1, <2>2
<1>5. CASE Touch(p)
  <2>1. h.who \in Emails
    BY <1>2, <1>3, <1>5 DEF Touch, At, Placed
  <2>2. QED
    BY <1>1, <1>2, <1>3, <1>5, <2>1, WorkPlaced, GoesOn DEF Touch, Go
<1>6. CASE FindDevice(p)
  <2> DEFINE d == Ask(p).bearer
  <2>1. CASE d # None /\ devices[d] # NoDevice
    <3> DEFINE g == [h EXCEPT !.who = devices[d].email, !.device = d]
               q == [g EXCEPT !.pc = Work(Ask(p).kind)]
    <3>1. d \in Devices /\ devices[d] \in PairedDevice
      BY <1>2, <2>1 DEF AccountsTyped
    <3>2. g \in Handler /\ g.who \in Emails /\ g.ask = h.ask /\ g.now = h.now
      BY <1>2, <3>1 DEF Handler, PairedDevice
    <3>3. Work(Ask(p).kind) \in Places /\ Placed(q)
      BY <1>2, <1>3, <3>2, WorkPlaced
    <3>4. q \in Handler /\ q.now <= time
      BY <1>2, <3>2, <3>3, Goes DEF Handler
    <3>5. Becomes(p, q)
      BY <1>6, <2>1, <3>3, <3>4 DEF FindDevice, Becomes
    <3>6. QED
      BY <3>5
  <2>2. CASE ~(d # None /\ devices[d] # NoDevice)
    BY <1>6, <2>2, Answers DEF FindDevice
  <2>3. QED
    BY <2>1, <2>2
<1>7. QED
  BY <1>4, <1>5, <1>6

\* What the failures are counted by: the address typed, or that of the account whose
\* password changes.
LEMMA RateKeyType ==
  ASSUME AccountsTyped, HandlersPlaced, NEW p \in Procs, req[p].pc \in {"count_email", "count_ip", "read_credentials", "verify"}
  PROVE  RateKey(p) \in Emails /\ RateKey(p) = IF Ask(p).kind = "change" THEN req[p].who ELSE Ask(p).email
<1>1. ~At(p, "idle")
  BY DEF At
<1>2. Placed(req[p]) /\ Ask(p) \in Requests /\ Ask(p) = req[p].ask
  BY <1>1, Acting DEF Ask
<1>3. CASE Ask(p).kind = "change"
  BY <1>2, <1>3 DEF Placed, RateKey, Authenticated
<1>4. CASE Ask(p).kind # "change"
  BY <1>2, <1>4, RequestsAssumption DEF Placed, RateKey
<1>5. QED
  BY <1>3, <1>4

\* Where a proof of the password leads.
LEMMA ProofLeads ==
  ASSUME NEW p \in Procs, req[p] \in Handler, Ask(p) \in Requests, Ask(p).kind \in {"login", "pair", "change"},
         Ask(p).kind = "change" => req[p].who \in Emails, AfterProof(p) # "refused"
  PROVE  AfterProof(p) \in Places /\ Placed([req[p] EXCEPT !.pc = AfterProof(p)])
<1> DEFINE h == req[p]
<1>1. AfterProof(p) \in {"open_session", "open_device", "update", "refused"}
  BY DEF AfterProof
<1>2. /\ AfterProof(p) = "open_session" => Ask(p).kind = "login"
      /\ AfterProof(p) = "open_device" => Ask(p).kind = "pair"
      /\ AfterProof(p) = "update" => Ask(p).kind = "change"
  <2>1. CASE Ask(p).kind = "login"
    BY <2>1 DEF AfterProof
  <2>2. CASE Ask(p).kind = "pair"
    BY <2>2 DEF AfterProof
  <2>3. CASE Ask(p).kind = "change"
    BY <2>3 DEF AfterProof
  <2>4. QED
    BY <2>1, <2>2, <2>3
<1>3. QED
  BY <1>1, <1>2 DEF Ask, Handler, Places, Placed, Authenticated

\* The limit, the password and what follows its proof.
LEMMA LimitMoves ==
  ASSUME AccountsTyped, HandlersPlaced, NEW p \in Procs,
         CountEmail(p) \/ CountIp(p) \/ Clear(p) \/ RecordFailure(p)
  PROVE  \E q : Becomes(p, q)
<1> DEFINE h == req[p]
<1>1. ~At(p, "idle")
  BY DEF CountEmail, CountIp, Clear, RecordFailure, At
<1>2. h \in Handler /\ Placed(h) /\ h.ask \in Requests /\ h.now <= time /\ Ask(p) = h.ask
  BY <1>1, Acting DEF Ask, HandlersPlaced
<1>3. h.pc \in {"count_email", "count_ip", "verify"} /\ h.ask.kind \in {"login", "pair", "change"}
  BY <1>2 DEF CountEmail, CountIp, Clear, RecordFailure, At, Placed
<1>4. CASE CountEmail(p)
  <2> DEFINE b == Blocks(ByEmail(RateKey(p), req[p].now), req[p].now)
             q == [h EXCEPT !.pc = "count_ip", !.blocked = b]
  <2>1. b \in BOOLEAN
    BY DEF Blocks
  <2>2. q \in Handler /\ Placed(q) /\ q.now <= time
    BY <1>2, <1>3, <2>1 DEF Handler, Places, Placed
  <2>3. Becomes(p, q)
    BY <1>4, <2>2 DEF CountEmail, Becomes
  <2>4. QED
    BY <2>3
<1>5. CASE CountIp(p)
  <2>1. AfterLimit(h.ask.kind) \in Places /\ Placed([h EXCEPT !.pc = AfterLimit(h.ask.kind)])
    BY <1>2, <1>3 DEF AfterLimit, Handler, Places, Placed
  <2>2. QED
    BY <1>1, <1>2, <1>5, <2>1, Answers, GoesOn DEF CountIp, Go
<1>6. CASE Clear(p)
  <2>1. h.ask.kind = "change" => h.who \in Emails
    BY <1>2, <1>3 DEF Placed, Authenticated
  <2>2. QED
    BY <1>1, <1>2, <1>3, <1>6, <2>1, ProofLeads, Answers, GoesOn DEF Clear, Proceed, Go
<1>7. CASE RecordFailure(p)
  BY <1>7, Answers DEF RecordFailure
<1>8. QED
  BY <1>4, <1>5, <1>6, <1>7

\* A handler that may still change a password was served for it.
LEMMA UndecidedCounts ==
  ASSUME AccountsTyped, EpochsOrdered
  PROVE  /\ IsFiniteSet(Undecided) /\ Cardinality(Undecided) \in Nat
         /\ \A p \in Undecided, e \in Emails : accounts[e].epoch + 1 \in 0..MaxServed
<1>1. IsFiniteSet(Undecided) /\ Cardinality(Undecided) \in Nat
  BY AccountsAssumption, FS_Subset, FS_CardinalityType DEF Undecided
<1>2. ASSUME NEW p \in Undecided, NEW e \in Emails
      PROVE  accounts[e].epoch + 1 \in 0..MaxServed
  <2>1. Cardinality(Undecided) >= 1
    BY <1>1, <1>2, FS_EmptySet
  <2>2. accounts[e].epoch \in 0..MaxServed
    BY DEF AccountsTyped, UserRow
  <2>3. accounts[e].epoch + Cardinality(Undecided) <= served /\ served \in 0..MaxServed
    BY DEF EpochsOrdered, AccountsTyped
  <2>4. QED
    BY <1>1, <2>1, <2>2, <2>3, AccountsAssumption
<1>3. QED
  BY <1>1, <1>2

\* The statements that read, write or follow the password keep what their handler
\* carries.
LEMMA PasswordMoves ==
  ASSUME AccountsTyped, HandlersPlaced, EpochsOrdered, NEW p \in Procs,
         ReadCredentials(p) \/ ReadHash(p) \/ Update(p) \/ SweepSessions(p)
  PROVE  \E q : Becomes(p, q)
<1> DEFINE h == req[p]
<1>1. ~At(p, "idle")
  BY DEF ReadCredentials, ReadHash, Update, SweepSessions, At
<1>2. h \in Handler /\ Placed(h) /\ h.ask \in Requests /\ h.now <= time /\ Ask(p) = h.ask
  BY <1>1, Acting DEF Ask, HandlersPlaced
<1>3. CASE ReadCredentials(p)
  <2> DEFINE q == [h EXCEPT !.pc = "verify", !.hash = accounts[Ask(p).email].hash, !.epoch = accounts[Ask(p).email].epoch]
  <2>1. h.pc = "read_credentials" /\ h.ask.kind \in {"login", "pair"}
    BY <1>2, <1>3 DEF ReadCredentials, At, Placed
  <2>2. accounts[h.ask.email] \in UserRow
    BY <1>2, <2>1, RequestsAssumption DEF AccountsTyped
  <2>3. q \in Handler /\ q.now = h.now
    BY <1>2, <2>2 DEF Handler, Places, UserRow
  <2>4. Placed(q)
    BY <1>2, <2>1 DEF Handler, Placed, Authenticated
  <2>5. Becomes(p, q)
    BY <1>2, <1>3, <2>3, <2>4 DEF ReadCredentials, ReadHashOf, Becomes
  <2>6. QED
    BY <2>5
<1>4. CASE ReadHash(p)
  <2> DEFINE q == [h EXCEPT !.pc = "count_email", !.hash = accounts[req[p].who].hash, !.epoch = accounts[req[p].who].epoch]
  <2>1. h.ask.kind = "change" /\ h.who \in Emails
    BY <1>2, <1>4 DEF ReadHash, At, Placed, Authenticated
  <2>2. accounts[h.who] \in UserRow
    BY <2>1 DEF AccountsTyped
  <2>3. q \in Handler /\ q.now = h.now
    BY <1>2, <2>2 DEF Handler, Places, UserRow
  <2>4. Placed(q)
    BY <1>2, <2>1 DEF Handler, Placed, Authenticated
  <2>5. Becomes(p, q)
    BY <1>2, <1>4, <2>3, <2>4 DEF ReadHash, ReadHashOf, Becomes
  <2>6. QED
    BY <2>5
<1>5. CASE Update(p)
  <2> DEFINE q == [h EXCEPT !.pc = "sweep_sessions", !.epoch = accounts[req[p].who].epoch + 1]
  <2>1. h.pc = "update" /\ h.ask.kind = "change" /\ h.who \in Emails
    BY <1>2, <1>5 DEF Update, At, Placed, Authenticated
  <2>2. accounts[h.who].epoch + 1 \in 0..MaxServed
    BY <2>1, UndecidedCounts DEF Undecided
  <2>3. q \in Handler /\ q.now = h.now
    BY <1>2, <2>2 DEF Handler, Places
  <2>4. Placed(q)
    BY <1>2, <2>1 DEF Handler, Placed, Authenticated
  <2>5. Becomes(p, q)
    BY <1>2, <1>5, <2>3, <2>4 DEF Update, Becomes
  <2>6. QED
    BY <2>5
<1>6. CASE SweepSessions(p)
  <2>1. h.ask.kind = "change" /\ h.who \in Emails
    BY <1>2, <1>6 DEF SweepSessions, At, Placed, Authenticated
  <2>2. Placed([h EXCEPT !.pc = "sweep_devices"]) /\ "sweep_devices" \in Places
    BY <1>2, <2>1 DEF Handler, Places, Placed, Authenticated
  <2>3. QED
    BY <1>1, <1>6, <2>2, GoesOn DEF SweepSessions, Go
<1>7. QED
  BY <1>3, <1>4, <1>5, <1>6

\* What a handler does with the error of a statement.
LEMMA ErrorMoves ==
  ASSUME AccountsTyped, HandlersPlaced, NEW p \in Procs, StatementFails(p)
  PROVE  \E q : Becomes(p, q)
<1> DEFINE h == req[p]
           at(pc) == [h EXCEPT !.pc = pc]
<1>1. ~At(p, "idle") /\ req' = [req EXCEPT ![p] = AfterError(p)]
  BY DEF StatementFails
<1>2. h \in Handler /\ Placed(h) /\ h.ask \in Requests /\ h.now <= time /\ Ask(p) = h.ask
  BY <1>1, Acting DEF Ask, HandlersPlaced
<1>3. \A pc \in Places : at(pc) \in Handler /\ at(pc).now = h.now
  BY <1>2 DEF Handler
<1>4. Idle \in Handler /\ Placed(Idle) /\ Idle.now <= time
  BY IdleHandler, AccountsAssumption DEF Idle, AccountsTyped
<1>5. SUFFICES AfterError(p) = Idle \/ \E pc \in Places : AfterError(p) = at(pc) /\ Placed(at(pc))
  BY <1>1, <1>2, <1>3, <1>4 DEF Becomes
<1>6. h.ask.kind \in {"login", "pair", "signup", "logout", "read", "revoke", "change"}
  BY <1>2, RequestsAssumption
<1>7. CASE h.pc = "find_session"
  <2>1. AfterError(p) = at("find_device")
    BY <1>7 DEF AfterError, At
  <2>2. Placed(at("find_device")) /\ "find_device" \in Places
    BY <1>2, <1>7 DEF Handler, Places, Placed, Authenticated
  <2>3. QED
    BY <2>1, <2>2
<1>8. CASE h.pc = "touch"
  <2>1. AfterError(p) = at(Work(h.ask.kind))
    BY <1>8 DEF AfterError, At, Ask
  <2>2. h.ask.kind \in Authenticated /\ h.who \in Emails
    BY <1>2, <1>8 DEF Placed
  <2>3. QED
    BY <1>2, <2>1, <2>2, WorkPlaced
<1>9. CASE h.pc = "count_email"
  <2>1. AfterError(p) = at("count_ip")
    BY <1>9 DEF AfterError, At
  <2>2. Placed(at("count_ip")) /\ "count_ip" \in Places
    BY <1>2, <1>9 DEF Handler, Places, Placed, Authenticated
  <2>3. QED
    BY <2>1, <2>2
<1>10. CASE h.pc = "count_ip"
  <2>1. AfterError(p) \in {Idle, at(AfterLimit(h.ask.kind))}
    BY <1>10 DEF AfterError, At, Ask
  <2>2. AfterLimit(h.ask.kind) \in Places /\ Placed(at(AfterLimit(h.ask.kind)))
    BY <1>2, <1>10 DEF AfterLimit, Handler, Places, Placed
  <2>3. QED
    BY <2>1, <2>2
<1>11. CASE h.pc = "read_credentials"
  <2>1. AfterError(p) = at("verify")
    BY <1>11 DEF AfterError, At
  <2>2. Placed(at("verify")) /\ "verify" \in Places
    BY <1>2, <1>11 DEF Handler, Places, Placed, Authenticated
  <2>3. QED
    BY <2>1, <2>2
<1>12. CASE h.pc = "verify"
  <2>1. AfterError(p) = IF Proven(p) /\ AfterProof(p) # "refused" THEN at(AfterProof(p)) ELSE Idle
    BY <1>12 DEF AfterError, At
  <2>2. h.ask.kind \in {"login", "pair", "change"} /\ (h.ask.kind = "change" => h.who \in Emails)
    BY <1>2, <1>12 DEF Placed, Authenticated
  <2>3. AfterProof(p) # "refused" => AfterProof(p) \in Places /\ Placed(at(AfterProof(p)))
    BY <1>2, <2>2, ProofLeads
  <2>4. QED
    BY <2>1, <2>3
<1>13. CASE h.pc = "sweep_sessions"
  <2>1. AfterError(p) = at("sweep_devices")
    BY <1>13 DEF AfterError, At
  <2>2. Placed(at("sweep_devices")) /\ "sweep_devices" \in Places
    BY <1>2, <1>13 DEF Handler, Places, Placed, Authenticated
  <2>3. QED
    BY <2>1, <2>2
<1>14. QED
  BY <1>7, <1>8, <1>9, <1>10, <1>11, <1>12, <1>13 DEF AfterError, At

\* Every statement leaves its handler in a place, with what that place needs.
LEMMA HandlerMoves ==
  ASSUME AccountsTyped, HandlersPlaced, EpochsOrdered, NEW p \in Procs, AccountStep(p)
  PROVE  \E q : Becomes(p, q)
<1>1. Read(p) \/ Revoke(p) \/ Logout(p) \/ Signup(p) \/ OpenSession(p) \/ OpenDevice(p) \/ SweepDevices(p) \/ Cut(p)
      => Answer(p)
  BY DEF Read, Revoke, Logout, Signup, OpenSession, OpenDevice, SweepDevices, Cut
<1>2. QED
  BY <1>1, Answers, BeginMoves, ExtractorMoves, LimitMoves, PasswordMoves, ErrorMoves DEF AccountStep

-----------------------------------------------------------------------------
(* A step keeps the types. *)

\* Sign-up and change of password write rows of accounts.
LEMMA AccountsKept ==
  ASSUME AccountsInv, NEW p \in Procs, Signup(p) \/ Update(p)
  PROVE  accounts' \in [Emails -> UserRow] /\ categories' \in [Emails -> Languages \cup {None}]
<1> DEFINE h == req[p]
<1> USE DEF AccountsInv
<1>1. ~At(p, "idle")
  BY DEF Signup, Update, At
<1>2. h \in Handler /\ Placed(h) /\ Ask(p) \in Requests /\ Ask(p) = h.ask
  BY <1>1, Acting DEF Ask
<1>3. accounts \in [Emails -> UserRow] /\ categories \in [Emails -> Languages \cup {None}]
  BY DEF AccountsTyped
<1>4. CASE Signup(p)
  <2>1. Ask(p).email \in Emails /\ Ask(p).new \in Passwords
    BY <1>2, <1>4, RequestsAssumption DEF Signup, At, Placed
  <2>2. CASE ValidatePassword(Ask(p).new) = "ok" /\ Ask(p).language \in Languages \cup {None} /\ accounts[Ask(p).email] = Nobody
    <3>1. [hash |-> Ask(p).new, epoch |-> 0, language |-> Ask(p).language] \in UserRow
      BY <2>1, <2>2, AccountsAssumption DEF UserRow
    <3>2. SeedLanguage(Ask(p).language) \in Languages \cup {None}
      BY <2>2, AccountsAssumption DEF SeedLanguage
    <3>3. QED
      BY <1>3, <1>4, <2>1, <2>2, <3>1, <3>2 DEF Signup
  <2>3. CASE ~(ValidatePassword(Ask(p).new) = "ok" /\ Ask(p).language \in Languages \cup {None} /\ accounts[Ask(p).email] = Nobody)
    BY <1>3, <1>4, <2>3 DEF Signup
  <2>4. QED
    BY <2>2, <2>3
<1>5. CASE Update(p)
  <2>1. h.who \in Emails /\ Ask(p).new \in Passwords
    BY <1>2, <1>5, RequestsAssumption DEF Update, At, Placed, Authenticated
  <2>2. accounts[h.who].epoch + 1 \in 0..MaxServed /\ accounts[h.who] \in UserRow
    BY <1>3, <1>5, <2>1, UndecidedCounts DEF Undecided, Update, At
  <2> DEFINE u == [accounts[h.who] EXCEPT !.hash = Ask(p).new, !.epoch = accounts[h.who].epoch + 1]
  <2>3. accounts' = [accounts EXCEPT ![h.who] = u]
    BY <1>3, <1>5, <2>1, <2>2 DEF Update, UserRow
  <2>4. u \in UserRow
    BY <2>1, <2>2 DEF UserRow
  <2>5. accounts' \in [Emails -> UserRow]
    <3> HIDE DEF u
    <3>1. QED
      BY <1>3, <2>3, <2>4
  <2>6. QED
    BY <1>3, <1>5, <2>5 DEF Update
<1>6. QED
  BY <1>4, <1>5

\* What is written of sessions are sessions.
LEMMA SessionsKept ==
  ASSUME AccountsInv, NEW p \in Procs, Touch(p) \/ Logout(p) \/ OpenSession(p) \/ SweepSessions(p)
  PROVE  sessions' \in [Tokens -> WebSession \cup {NoSession}]
<1> DEFINE h == req[p]
<1> USE DEF AccountsInv
<1>1. ~At(p, "idle")
  BY DEF Touch, Logout, OpenSession, SweepSessions, At
<1>2. h \in Handler /\ Placed(h) /\ Ask(p) \in Requests /\ Ask(p) = h.ask
  BY <1>1, Acting DEF Ask
<1>3. sessions \in [Tokens -> WebSession \cup {NoSession}]
  BY DEF AccountsTyped
<1>4. h.now + IdleTtl \in 0..(MaxClock + IdleTtl) /\ h.epoch \in 0..MaxServed
  BY <1>2, AccountsAssumption DEF Handler
<1>5. CASE Touch(p)
  <2>1. h.ask.cookie \in Tokens
    BY <1>2, <1>5 DEF Touch, At, Placed
  <2>2. CASE sessions[h.ask.cookie] = NoSession
    BY <1>2, <1>3, <1>5, <2>2 DEF Touch, Touched
  <2>3. CASE sessions[h.ask.cookie] # NoSession
    <3>1. sessions[h.ask.cookie] \in WebSession
      BY <1>3, <2>1, <2>3
    <3>2. [sessions[h.ask.cookie] EXCEPT !.expires = h.now + IdleTtl] \in WebSession
      BY <1>4, <3>1 DEF WebSession
    <3>3. sessions' = [sessions EXCEPT ![h.ask.cookie] = [sessions[h.ask.cookie] EXCEPT !.expires = h.now + IdleTtl]]
      BY <1>2, <1>5, <2>3 DEF Touch, Touched
    <3>4. QED
      BY <1>3, <3>2, <3>3
  <2>4. QED
    BY <2>2, <2>3
<1>6. CASE Logout(p)
  BY <1>3, <1>6 DEF Logout
<1>7. CASE OpenSession(p)
  <2>1. Ask(p).email \in Emails
    BY <1>2, <1>7, RequestsAssumption DEF OpenSession, At, Placed
  <2>2. Late(p) \in BOOLEAN
    BY DEF Late
  <2>3. [email |-> Ask(p).email, expires |-> h.now + IdleTtl, epoch |-> h.epoch, late |-> Late(p)] \in WebSession
    BY <1>4, <2>1, <2>2 DEF WebSession
  <2>4. QED
    BY <1>3, <1>7, <2>3 DEF OpenSession
<1>8. CASE SweepSessions(p)
  BY <1>3, <1>8 DEF SweepSessions
<1>9. QED
  BY <1>5, <1>6, <1>7, <1>8

\* What is written of devices are devices.
LEMMA DevicesKept ==
  ASSUME AccountsInv, NEW p \in Procs, Revoke(p) \/ OpenDevice(p) \/ SweepDevices(p)
  PROVE  devices' \in [Devices -> PairedDevice \cup {NoDevice}]
<1> DEFINE h == req[p]
<1> USE DEF AccountsInv
<1>1. ~At(p, "idle")
  BY DEF Revoke, OpenDevice, SweepDevices, At
<1>2. h \in Handler /\ Placed(h) /\ Ask(p) \in Requests /\ Ask(p) = h.ask
  BY <1>1, Acting DEF Ask
<1>3. devices \in [Devices -> PairedDevice \cup {NoDevice}]
  BY DEF AccountsTyped
<1>4. CASE Revoke(p)
  BY <1>3, <1>4 DEF Revoke
<1>5. CASE OpenDevice(p)
  <2>1. Ask(p).email \in Emails
    BY <1>2, <1>5, RequestsAssumption DEF OpenDevice, At, Placed
  <2>2. Late(p) \in BOOLEAN /\ h.epoch \in 0..MaxServed
    BY <1>2 DEF Late, Handler
  <2>3. [email |-> Ask(p).email, epoch |-> h.epoch, late |-> Late(p)] \in PairedDevice
    BY <2>1, <2>2 DEF PairedDevice
  <2>4. QED
    BY <1>3, <1>5, <2>3 DEF OpenDevice
<1>6. CASE SweepDevices(p)
  BY <1>3, <1>6 DEF SweepDevices
<1>7. QED
  BY <1>4, <1>5, <1>6

\* Failures are recorded at an instant of the clock, and are finite in number.
LEMMA AttemptsKept ==
  ASSUME AccountsInv, NEW p \in Procs, Clear(p) \/ RecordFailure(p)
  PROVE  (\A a \in attempts' : a.at \in 0..MaxClock /\ a.email \in Emails) /\ IsFiniteSet(attempts')
<1> USE DEF AccountsInv
<1>1. CASE Clear(p)
  <2>1. attempts' \in SUBSET attempts
    BY <1>1 DEF Clear
  <2>2. QED
    BY <2>1, FS_Subset DEF AccountsTyped
<1>2. CASE RecordFailure(p)
  <2> DEFINE a == [id |-> FreshId, email |-> RateKey(p), ip |-> Ask(p).ip, at |-> req[p].now]
  <2>1. RateKey(p) \in Emails
    BY <1>2, RateKeyType DEF RecordFailure, At
  <2>2. req[p].now \in 0..MaxClock
    BY DEF AccountsTyped, Handler
  <2>3. attempts' = attempts \cup {a}
    BY <1>2 DEF RecordFailure
  <2>4. a.at \in 0..MaxClock /\ a.email \in Emails
    BY <2>1, <2>2
  <2>5. QED
    BY <2>3, <2>4, FS_AddElement DEF AccountsTyped
<1>3. QED
  BY <1>1, <1>2

\* What was spent are tokens and devices.
LEMMA SpentKept ==
  ASSUME AccountsInv, NEW p \in Procs, Revoke(p) \/ Logout(p) \/ SweepSessions(p) \/ SweepDevices(p)
  PROVE  spent' \subseteq Tokens \cup Devices
<1> USE DEF AccountsInv
<1>1. ~At(p, "idle")
  BY DEF Revoke, Logout, SweepSessions, SweepDevices, At
<1>2. Placed(req[p]) /\ Ask(p) \in Requests /\ Ask(p) = req[p].ask
  BY <1>1, Acting DEF Ask
<1>3. CASE Revoke(p)
  <2>1. Ask(p).target \in Devices
    BY <1>2, <1>3, RequestsAssumption DEF Revoke, At, Placed
  <2>2. QED
    BY <1>3, <2>1 DEF Revoke, AccountsTyped
<1>4. CASE Logout(p)
  <2>1. Ask(p).cookie \in Tokens
    BY <1>2, <1>4, RequestsAssumption DEF Logout, At, Placed
  <2>2. QED
    BY <1>4, <2>1 DEF Logout, AccountsTyped
<1>5. CASE SweepSessions(p)
  BY <1>5 DEF SweepSessions, SweptSessions, AccountsTyped
<1>6. CASE SweepDevices(p)
  BY <1>6 DEF SweepDevices, SweptDevices, AccountsTyped
<1>7. QED
  BY <1>1, <1>3, <1>4, <1>5, <1>6

\* What a change of password has swept is noted per account.
LEMMA SweptKept ==
  ASSUME AccountsInv, NEW p \in Procs, SweepSessions(p) \/ SweepDevices(p)
  PROVE  swept' \in [Emails -> [web : Sweep, native : Sweep]]
<1> DEFINE h == req[p]
<1> USE DEF AccountsInv
<1>1. ~At(p, "idle")
  BY DEF SweepSessions, SweepDevices, At
<1>2. h \in Handler /\ Ask(p).cookie \in Tokens \cup {None}
  BY <1>1, Acting
<1>3. /\ [epoch |-> h.epoch, keep |-> Ask(p).cookie] \in Sweep
      /\ [epoch |-> h.epoch, keep |-> h.device] \in Sweep
  BY <1>2 DEF Sweep, Handler
<1>4. swept \in [Emails -> [web : Sweep, native : Sweep]]
  BY DEF AccountsTyped
<1>5. CASE SweepSessions(p)
  BY <1>3, <1>4, <1>5 DEF SweepSessions
<1>6. CASE SweepDevices(p)
  BY <1>3, <1>4, <1>6 DEF SweepDevices
<1>7. QED
  BY <1>5, <1>6

\* A step keeps the types and the places.
LEMMA TypedStep ==
  ASSUME AccountsInv, NEW p \in Procs, AccountStep(p)
  PROVE  AccountsTyped' /\ HandlersPlaced'
<1> USE DEF AccountsInv
<1>1. PICK q : Becomes(p, q)
  BY HandlerMoves
<1>2. req' \in [Procs -> Handler] /\ \A o \in Procs : req'[o] = IF o = p THEN q ELSE req[o]
  BY <1>1 DEF Becomes, AccountsTyped
<1>3. time' = time
  BY WhoWrites
<1>4. HandlersPlaced'
  BY <1>1, <1>2, <1>3 DEF HandlersPlaced, Becomes
<1>5. served' \in 0..MaxServed
  <2>1. MaxServed \in Nat /\ served \in 0..MaxServed
    BY AccountsAssumption DEF AccountsTyped
  <2>2. served' = served \/ (served < MaxServed /\ served' = served + 1)
    BY WhoWrites DEF Begin
  <2>3. QED
    BY <2>1, <2>2
<1>6. faults' \in Nat
  BY WhoWrites DEF StatementFails, Cut, AccountsTyped
<1>7. accounts' \in [Emails -> UserRow] /\ categories' \in [Emails -> Languages \cup {None}]
  BY WhoWrites, AccountsKept DEF AccountsTyped
<1>8. sessions' \in [Tokens -> WebSession \cup {NoSession}]
  BY WhoWrites, SessionsKept DEF AccountsTyped
<1>9. devices' \in [Devices -> PairedDevice \cup {NoDevice}]
  BY WhoWrites, DevicesKept DEF AccountsTyped
<1>10. (\A a \in attempts' : a.at \in 0..MaxClock /\ a.email \in Emails) /\ IsFiniteSet(attempts')
  BY WhoWrites, AttemptsKept DEF AccountsTyped
<1>11. spent' \subseteq Tokens \cup Devices
  BY WhoWrites, SpentKept DEF AccountsTyped
<1>12. swept' \in [Emails -> [web : Sweep, native : Sweep]]
  BY WhoWrites, SweptKept DEF AccountsTyped
<1>13. QED
  BY <1>2, <1>3, <1>4, <1>5, <1>6, <1>7, <1>8, <1>9, <1>10, <1>11, <1>12 DEF AccountsTyped

-----------------------------------------------------------------------------
(* Changes of password and their revocations. *)

Revoking == {"sweep_sessions", "sweep_devices"}

\* Only an update leads to the revocations, and only the end leads out of them.
LEMMA RevokingPlaces ==
  ASSUME AccountsTyped, HandlersPlaced, EpochsOrdered, NEW p \in Procs, AccountStep(p)
  PROVE  /\ req[p].pc = "idle" <=> \E r \in Requests : Begin(p, r)
         /\ req[p].pc \in Revoking => req'[p].pc \in {"idle", "sweep_devices"}
         /\ req'[p].pc \in Revoking => \/ Update(p)
                                       \/ /\ req[p].pc = "sweep_sessions"
                                          /\ req'[p].who = req[p].who /\ req'[p].epoch = req[p].epoch
<1> DEFINE h == req[p]
<1> USE DEF At, Revoking
<1>1. req \in [Procs -> Handler] /\ h \in Handler
  BY DEF AccountsTyped
<1>2. \A pc : [h EXCEPT !.pc = pc].pc = pc /\ [h EXCEPT !.pc = pc].who = h.who /\ [h EXCEPT !.pc = pc].epoch = h.epoch
  BY <1>1 DEF Handler
<1>3. \A pc : Go(p, pc) => req'[p] = [h EXCEPT !.pc = pc]
  BY <1>1 DEF Go
<1>4. Answer(p) => req'[p].pc = "idle"
  BY <1>1 DEF Answer, Idle
<1>5. ASSUME NEW r \in Requests, Begin(p, r)
      PROVE  h.pc = "idle" /\ req'[p].pc \notin Revoking
  <2>1. r.kind \in {"login", "pair", "signup", "logout", "read", "revoke", "change"}
    BY RequestsAssumption
  <2>2. req'[p].pc = FirstStep(r.kind)
    BY <1>1, <1>5 DEF Begin, Idle
  <2>3. FirstStep(r.kind) \notin Revoking
    BY <2>1 DEF FirstStep
  <2>4. QED
    BY <1>5, <2>2, <2>3 DEF Begin
<1>6. CASE FindSession(p) \/ FindDevice(p) \/ CountEmail(p) \/ ReadCredentials(p) \/ ReadHash(p)
  <2>1. CASE FindSession(p)
    BY <1>1, <2>1 DEF FindSession, Begin, Handler
  <2>2. CASE FindDevice(p)
    <3>1. Work(Ask(p).kind) \notin Revoking
      <4>1. Ask(p).kind \in Authenticated
        BY <1>1, <2>2 DEF FindDevice, HandlersPlaced, Placed, Ask
      <4>2. QED
        BY <4>1 DEF Work, Authenticated
    <3>2. h.pc = "find_device" /\ req'[p].pc \in {"idle", Work(Ask(p).kind)}
      BY <1>1, <2>2 DEF FindDevice, Answer, Idle, Handler
    <3>3. QED
      BY <3>1, <3>2 DEF Begin
  <2>3. CASE CountEmail(p)
    BY <1>1, <2>3 DEF CountEmail, Begin, Handler
  <2>4. CASE ReadCredentials(p)
    BY <1>1, <2>4 DEF ReadCredentials, ReadHashOf, Begin, Handler
  <2>5. CASE ReadHash(p)
    BY <1>1, <2>5 DEF ReadHash, ReadHashOf, Begin, Handler
  <2>6. QED
    BY <1>6, <2>1, <2>2, <2>3, <2>4, <2>5
<1>7. CASE Touch(p)
  <2>1. h.pc = "touch" /\ req'[p].pc = Work(Ask(p).kind)
    BY <1>2, <1>3, <1>7 DEF Touch
  <2>2. Ask(p).kind \in Authenticated
    BY <2>1 DEF HandlersPlaced, Placed, Ask
  <2>3. QED
    BY <2>1, <2>2 DEF Work, Authenticated, Begin
<1>8. CASE Read(p) \/ Revoke(p) \/ Logout(p) \/ Signup(p) \/ RecordFailure(p) \/ OpenSession(p) \/ OpenDevice(p)
  <2>1. Answer(p) /\ h.pc \in {"read", "revoke", "logout", "signup", "verify", "open_session", "open_device"}
    BY <1>8 DEF Read, Revoke, Logout, Signup, RecordFailure, OpenSession, OpenDevice
  <2>2. QED
    BY <1>4, <2>1 DEF Begin
<1>9. CASE CountIp(p)
  <2>1. h.pc = "count_ip" /\ req'[p].pc \in {"idle", "verify", "read_credentials"}
    BY <1>2, <1>3, <1>4, <1>9 DEF CountIp, AfterLimit
  <2>2. QED
    BY <2>1 DEF Begin
<1>10. CASE Clear(p)
  <2>1. AfterProof(p) \in {"open_session", "open_device", "update", "refused"}
    BY DEF AfterProof
  <2>2. h.pc = "verify" /\ req'[p].pc \in {"idle", "open_session", "open_device", "update"}
    BY <1>2, <1>3, <1>4, <1>10, <2>1 DEF Clear, Proceed
  <2>3. QED
    BY <2>2 DEF Begin
<1>11. CASE Update(p)
  BY <1>11 DEF Update, Begin
<1>12. CASE SweepSessions(p)
  <2>1. h.pc = "sweep_sessions" /\ req'[p] = [h EXCEPT !.pc = "sweep_devices"]
    BY <1>3, <1>12 DEF SweepSessions
  <2>2. QED
    BY <1>2, <2>1 DEF Begin
<1>13. CASE SweepDevices(p) \/ Cut(p)
  <2>1. Answer(p) /\ h.pc # "idle"
    BY <1>13 DEF SweepDevices, Cut
  <2>2. QED
    BY <1>4, <2>1 DEF Begin
<1>14. CASE StatementFails(p)
  <2>1. h.pc # "idle" /\ req'[p] = AfterError(p)
    BY <1>1, <1>14 DEF StatementFails
  <2>2. CASE h.pc = "sweep_sessions"
    <3>1. AfterError(p) = [h EXCEPT !.pc = "sweep_devices"]
      BY <2>2 DEF AfterError
    <3>2. QED
      BY <1>2, <2>1, <2>2, <3>1 DEF Begin
  <2>3. CASE h.pc = "sweep_devices"
    BY <2>1, <2>3 DEF AfterError, Idle, Begin
  <2>4. CASE h.pc \notin Revoking
    <3>1. h.pc = "touch" => Work(Ask(p).kind) \notin Revoking
      <4>1. h.pc = "touch" => Ask(p).kind \in Authenticated
        BY DEF HandlersPlaced, Placed, Ask
      <4>2. QED
        BY <4>1 DEF Work, Authenticated
    <3>2. AfterProof(p) \notin Revoking /\ AfterLimit(Ask(p).kind) \notin Revoking
      BY DEF AfterProof, AfterLimit
    <3>3. AfterError(p).pc \notin Revoking
      BY <1>2, <2>1, <2>4, <3>1, <3>2 DEF AfterError, Idle
    <3>4. QED
      BY <2>1, <2>4, <3>3 DEF Begin
  <2>5. QED
    BY <2>2, <2>3, <2>4
<1>15. QED
  BY <1>5, <1>6, <1>7, <1>8, <1>9, <1>10, <1>11, <1>12, <1>13, <1>14 DEF AccountStep

\* A step adds to the handlers that may still change a password the one just called, and
\* a change of password takes its own away.
LEMMA UndecidedStep ==
  ASSUME AccountsInv, NEW p \in Procs, AccountStep(p)
  PROVE  \/ served' = served + 1 /\ UNCHANGED accounts /\ Undecided' \subseteq Undecided \cup {p}
         \/ served' = served /\ Undecided' \subseteq Undecided
            /\ (Update(p) => p \in Undecided /\ Undecided' \subseteq Undecided \ {p})
<1> USE DEF AccountsInv
<1>1. \A o \in Procs \ {p} : req'[o] = req[o]
  <2>1. PICK q : Becomes(p, q)
    BY HandlerMoves
  <2>2. QED
    BY <2>1 DEF Becomes, AccountsTyped
<1>2. CASE \E r \in Requests : Begin(p, r)
  BY <1>1, <1>2 DEF Begin, Undecided
<1>3. CASE ~\E r \in Requests : Begin(p, r)
  <2>1. served' = served
    BY <1>3, WhoWrites
  <2>2. req[p].pc # "idle" /\ (req[p].pc \in Revoking => req'[p].pc \in {"idle", "sweep_devices"})
    BY <1>3, RevokingPlaces
  <2>3. Undecided' \subseteq Undecided
    BY <1>1, <2>2 DEF Undecided, Revoking
  <2>4. Update(p) => req[p].pc = "update" /\ req'[p].pc = "sweep_sessions"
    BY DEF Update, At, AccountsTyped, Handler
  <2>5. QED
    BY <1>1, <2>1, <2>3, <2>4 DEF Undecided
<1>4. QED
  BY <1>2, <1>3

\* How a step changes the count of changes of a password.
LEMMA EpochSteps ==
  ASSUME AccountsInv, NEW p \in Procs, AccountStep(p), NEW e \in Emails
  PROVE  /\ accounts[e].epoch \in Nat /\ accounts'[e].epoch \in Nat
         /\ \/ accounts'[e].epoch = accounts[e].epoch
            \/ Update(p) /\ e = req[p].who /\ accounts'[e].epoch = accounts[e].epoch + 1
<1> USE DEF AccountsInv
<1>1. accounts \in [Emails -> UserRow]
  BY DEF AccountsTyped
<1>2. accounts[e].epoch \in Nat
  BY <1>1, AccountsAssumption DEF UserRow
<1>3. CASE UNCHANGED accounts
  BY <1>2, <1>3
<1>4. CASE Signup(p)
  BY <1>1, <1>2, <1>4 DEF Signup, Nobody
<1>5. CASE Update(p)
  BY <1>1, <1>2, <1>5 DEF Update, UserRow
<1>6. QED
  BY <1>3, <1>4, <1>5, WhoWrites

\* A step keeps the order between what is held and the passwords an account has had.
LEMMA EpochsStep ==
  ASSUME AccountsInv, NEW p \in Procs, AccountStep(p)
  PROVE  EpochsOrdered'
<1> USE DEF AccountsInv
<1>1. /\ IsFiniteSet(Undecided) /\ IsFiniteSet(Undecided') /\ Cardinality(Undecided) \in Nat
      /\ Cardinality(Undecided') \in Nat /\ served \in Nat
  <2>1. IsFiniteSet(Undecided) /\ IsFiniteSet(Undecided')
    BY AccountsAssumption, FS_Subset DEF Undecided
  <2>2. QED
    BY <2>1, FS_CardinalityType, AccountsAssumption DEF AccountsTyped
<1>2. ASSUME NEW e \in Emails
      PROVE  accounts'[e].epoch + Cardinality(Undecided') <= served'
  <2>1. accounts[e].epoch + Cardinality(Undecided) <= served
    BY DEF EpochsOrdered
  <2>2. CASE served' = served + 1 /\ UNCHANGED accounts /\ Undecided' \subseteq Undecided \cup {p}
    <3>1. /\ IsFiniteSet(Undecided \cup {p}) /\ Cardinality(Undecided \cup {p}) <= Cardinality(Undecided) + 1
          /\ Cardinality(Undecided \cup {p}) \in Nat
      <4>1. IsFiniteSet(Undecided \cup {p})
        BY <1>1, FS_AddElement
      <4>2. Cardinality(Undecided \cup {p}) = IF p \in Undecided THEN Cardinality(Undecided) ELSE Cardinality(Undecided) + 1
        BY <1>1, FS_AddElement
      <4>3. QED
        BY <1>1, <4>1, <4>2
    <3>2. Cardinality(Undecided') <= Cardinality(Undecided \cup {p})
      BY <2>2, <3>1, FS_Subset
    <3>3. accounts'[e].epoch = accounts[e].epoch /\ accounts[e].epoch \in Nat
      BY <2>2, EpochSteps
    <3>4. QED
      BY <1>1, <2>1, <2>2, <3>1, <3>2, <3>3
  <2>3. CASE served' = served /\ Undecided' \subseteq Undecided /\ (Update(p) => p \in Undecided /\ Undecided' \subseteq Undecided \ {p})
    <3>1. Cardinality(Undecided') <= Cardinality(Undecided)
      BY <1>1, <2>3, FS_Subset
    <3>2. CASE accounts'[e].epoch = accounts[e].epoch
      BY <1>1, <2>1, <2>3, <3>1, <3>2, EpochSteps
    <3>3. CASE Update(p) /\ accounts'[e].epoch = accounts[e].epoch + 1
      <4>1. IsFiniteSet(Undecided \ {p}) /\ Cardinality(Undecided \ {p}) = Cardinality(Undecided) - 1
        BY <1>1, <2>3, <3>3, FS_RemoveElement
      <4>2. Cardinality(Undecided') <= Cardinality(Undecided \ {p})
        BY <2>3, <3>3, <4>1, FS_Subset
      <4>3. QED
        BY <1>1, <2>1, <2>3, <3>3, <4>1, <4>2, EpochSteps
    <3>4. QED
      BY <3>2, <3>3, EpochSteps
  <2>4. QED
    BY <2>2, <2>3, UndecidedStep
<1>3. ASSUME NEW o \in Procs, req'[o].pc \in Revoking
      PROVE  req'[o].epoch <= accounts'[req'[o].who].epoch
  <2>1. req'[o] \in Handler /\ req'[o].who \in Emails /\ req'[o].epoch \in Nat
    <3>1. req'[o] \in Handler /\ Placed(req'[o])
      BY TypedStep DEF AccountsTyped, HandlersPlaced
    <3>2. QED
      BY <1>3, <3>1, AccountsAssumption DEF Placed, Handler, Revoking, Authenticated
  <2>2. CASE o # p \/ ~Update(p)
    <3>1. req[o].pc \in Revoking /\ req'[o].who = req[o].who /\ req'[o].epoch = req[o].epoch
      <4>1. CASE o # p
        <5>1. PICK q : Becomes(p, q)
          BY HandlerMoves
        <5>2. QED
          BY <1>3, <4>1, <5>1 DEF Becomes, AccountsTyped
      <4>2. CASE o = p
        BY <1>3, <2>2, <4>2, RevokingPlaces DEF Revoking
      <4>3. QED
        BY <4>1, <4>2
    <3>2. req[o].epoch <= accounts[req[o].who].epoch
      BY <3>1 DEF EpochsOrdered, Revoking
    <3>3. QED
      BY <2>1, <3>1, <3>2, EpochSteps
  <2>3. CASE o = p /\ Update(p)
    <3>1. req'[p].who = req[p].who /\ req'[p].epoch = accounts[req[p].who].epoch + 1
      BY <2>3 DEF Update, AccountsTyped, Handler
    <3>2. accounts'[req[p].who].epoch = accounts[req[p].who].epoch + 1
      BY <2>1, <2>3, <3>1 DEF Update, AccountsTyped, UserRow
    <3>3. QED
      BY <2>1, <2>3, <3>1, <3>2
  <2>4. QED
    BY <2>2, <2>3
<1>4. ASSUME NEW e \in Emails
      PROVE  swept'[e].web.epoch <= accounts'[e].epoch /\ swept'[e].native.epoch <= accounts'[e].epoch
  <2>1. swept[e].web.epoch <= accounts[e].epoch /\ swept[e].native.epoch <= accounts[e].epoch
    BY DEF EpochsOrdered
  <2>2. swept[e].web.epoch \in Nat /\ swept[e].native.epoch \in Nat
    BY AccountsAssumption DEF AccountsTyped, Sweep
  <2>3. CASE UNCHANGED swept
    BY <2>1, <2>2, <2>3, EpochSteps
  <2>4. CASE SweepSessions(p) \/ SweepDevices(p)
    <3>1. req[p].pc \in Revoking /\ req[p].epoch \in Nat
      BY <2>4, AccountsAssumption DEF SweepSessions, SweepDevices, At, Revoking, AccountsTyped, Handler
    <3>2. req[p].epoch <= accounts[req[p].who].epoch
      BY <3>1 DEF EpochsOrdered, Revoking
    <3>3. \/ swept'[e].web.epoch = swept[e].web.epoch
          \/ e = req[p].who /\ swept'[e].web.epoch = req[p].epoch
      BY <2>4 DEF SweepSessions, SweepDevices, AccountsTyped, Sweep
    <3>4. \/ swept'[e].native.epoch = swept[e].native.epoch
          \/ e = req[p].who /\ swept'[e].native.epoch = req[p].epoch
      BY <2>4 DEF SweepSessions, SweepDevices, AccountsTyped, Sweep
    <3>5. QED
      BY <2>1, <2>2, <3>1, <3>2, <3>3, <3>4, EpochSteps
  <2>5. QED
    BY <2>3, <2>4, WhoWrites
<1>5. QED
  BY <1>2, <1>3, <1>4 DEF EpochsOrdered, Revoking

-----------------------------------------------------------------------------
(* What an act was to end gives no access any more. *)

\* A revocation of sessions says nothing of devices, nor the other way round.
LEMMA SweptApart ==
  ASSUME AccountsInv, NEW p \in Procs, AccountStep(p), NEW e \in Emails
  PROVE  /\ ~SweepSessions(p) => swept'[e].web = swept[e].web
         /\ ~SweepDevices(p) => swept'[e].native = swept[e].native
<1>1. swept \in [Emails -> [web : Sweep, native : Sweep]]
  BY DEF AccountsInv, AccountsTyped
<1>2. ASSUME SweepSessions(p) PROVE swept'[e].native = swept[e].native
  <2> DEFINE r == [epoch |-> req[p].epoch, keep |-> Ask(p).cookie]
  <2>1. swept' = [swept EXCEPT ![req[p].who].web = r]
    BY <1>2 DEF SweepSessions
  <2> HIDE DEF r
  <2>2. QED
    BY <1>1, <2>1
<1>3. ASSUME SweepDevices(p) PROVE swept'[e].web = swept[e].web
  <2> DEFINE r == [epoch |-> req[p].epoch, keep |-> req[p].device]
  <2>1. swept' = [swept EXCEPT ![req[p].who].native = r]
    BY <1>3 DEF SweepDevices
  <2> HIDE DEF r
  <2>2. QED
    BY <1>1, <2>1
<1>4. QED
  BY <1>2, <1>3, WhoWrites

\* A session that stays, or opens, was not opened before the password that the
\* last revocation was about, unless it is excused.
LEMMA OldSessionsEnd ==
  ASSUME AccountsInv, NEW p \in Procs, AccountStep(p), NEW t \in Tokens,
         sessions'[t].email # None, sessions'[t].epoch < swept'[sessions'[t].email].web.epoch
  PROVE  sessions'[t].late \/ t = swept'[sessions'[t].email].web.keep
<1> DEFINE s == sessions[t]
           e == sessions'[t].email
<1> USE DEF AccountsInv
<1>1. /\ sessions \in [Tokens -> WebSession \cup {NoSession}] /\ swept \in [Emails -> [web : Sweep, native : Sweep]]
      /\ sessions' \in [Tokens -> WebSession \cup {NoSession}] /\ swept' \in [Emails -> [web : Sweep, native : Sweep]]
  BY TypedStep DEF AccountsTyped
<1>2. sessions'[t] \in WebSession /\ e \in Emails
  <2>1. sessions'[t] # NoSession
    BY DEF NoSession
  <2>2. QED
    BY <1>1, <2>1 DEF WebSession
<1>3. CASE SweepSessions(p)
  <2>1. t \notin SweptSessions(req[p].who, Ask(p).cookie) /\ sessions'[t] = sessions[t]
    BY <1>1, <1>3 DEF SweepSessions, NoSession
  <2>2. CASE e = req[p].who
    <3>1. t = Ask(p).cookie
      BY <2>1, <2>2 DEF SweptSessions
    <3>2. swept'[e].web.keep = Ask(p).cookie
      BY <1>1, <1>2, <1>3, <2>2 DEF SweepSessions
    <3>3. QED
      BY <3>1, <3>2
  <2>3. CASE e # req[p].who
    <3>1. swept'[e].web = swept[e].web
      BY <1>1, <1>2, <1>3, <2>3 DEF SweepSessions
    <3>2. QED
      BY <2>1, <3>1 DEF OldAccessEnds
  <2>4. QED
    BY <2>2, <2>3
<1>4. CASE ~SweepSessions(p)
  <2>1. swept'[e].web = swept[e].web
    BY <1>2, <1>4, SweptApart
  <2>2. CASE sessions'[t] = s
    BY <2>1, <2>2 DEF OldAccessEnds
  <2>3. CASE Touch(p)
    <3>1. sessions'[t].email = s.email /\ sessions'[t].epoch = s.epoch /\ sessions'[t].late = s.late
      <4>1. CASE sessions'[t] = s
        BY <4>1
      <4>2. CASE sessions'[t] # s
        <5>1. t = Ask(p).cookie /\ s # NoSession /\ s \in WebSession
          BY <1>1, <2>3, <4>2 DEF Touch, Touched
        <5>2. sessions'[t] = [s EXCEPT !.expires = req[p].now + IdleTtl]
          BY <1>1, <2>3, <5>1 DEF Touch, Touched
        <5>3. QED
          BY <5>1, <5>2 DEF WebSession
      <4>3. QED
        BY <4>1, <4>2
    <3>2. QED
      BY <2>1, <3>1 DEF OldAccessEnds
  <2>4. CASE Logout(p)
    <3>1. sessions'[t] = IF t = Ask(p).cookie THEN NoSession ELSE s
      BY <1>1, <2>4 DEF Logout
    <3>2. sessions'[t] # NoSession
      BY <1>2, AccountsAssumption DEF WebSession, NoSession
    <3>3. sessions'[t] = s
      BY <3>1, <3>2
    <3>4. QED
      BY <2>2, <3>3
  <2>5. CASE OpenSession(p) /\ sessions'[t] # s
    <3>1. e = Ask(p).email /\ sessions'[t].epoch = req[p].epoch /\ sessions'[t].late = Late(p)
      BY <1>1, <2>5 DEF OpenSession
    <3>2. swept[e].web.epoch <= accounts[e].epoch
      BY <1>2 DEF EpochsOrdered
    <3>3. req[p].epoch \in Nat /\ swept[e].web.epoch \in Nat /\ accounts[e].epoch \in Nat
      BY <1>1, <1>2, AccountsAssumption DEF AccountsTyped, Handler, Sweep, UserRow
    <3>4. Late(p)
      BY <2>1, <3>1, <3>2, <3>3 DEF Late
    <3>5. QED
      BY <3>1, <3>4
  <2>6. QED
    BY <1>4, <2>2, <2>3, <2>4, <2>5, WhoWrites
<1>5. QED
  BY <1>3, <1>4

\* A device of a password before the last sweep is late, or the one the sweep keeps.
LEMMA OldDevicesEnd ==
  ASSUME AccountsInv, NEW p \in Procs, AccountStep(p), NEW d \in Devices,
         devices'[d].email # None, devices'[d].epoch < swept'[devices'[d].email].native.epoch
  PROVE  devices'[d].late \/ d = swept'[devices'[d].email].native.keep
<1> DEFINE v == devices[d]
           e == devices'[d].email
<1> USE DEF AccountsInv
<1>1. /\ devices \in [Devices -> PairedDevice \cup {NoDevice}] /\ swept \in [Emails -> [web : Sweep, native : Sweep]]
      /\ devices' \in [Devices -> PairedDevice \cup {NoDevice}] /\ swept' \in [Emails -> [web : Sweep, native : Sweep]]
  BY TypedStep DEF AccountsTyped
<1>2. devices'[d] \in PairedDevice /\ e \in Emails
  <2>1. devices'[d] # NoDevice
    BY DEF NoDevice
  <2>2. QED
    BY <1>1, <2>1 DEF PairedDevice
<1>3. CASE SweepDevices(p)
  <2>1. d \notin SweptDevices(req[p].who, req[p].device) /\ devices'[d] = devices[d]
    BY <1>1, <1>3 DEF SweepDevices, NoDevice
  <2>2. CASE e = req[p].who
    <3>1. d = req[p].device
      BY <2>1, <2>2 DEF SweptDevices
    <3>2. swept'[e].native.keep = req[p].device
      BY <1>1, <1>2, <1>3, <2>2 DEF SweepDevices
    <3>3. QED
      BY <3>1, <3>2
  <2>3. CASE e # req[p].who
    <3>1. swept'[e].native = swept[e].native
      BY <1>1, <1>2, <1>3, <2>3 DEF SweepDevices
    <3>2. QED
      BY <2>1, <3>1 DEF OldAccessEnds
  <2>4. QED
    BY <2>2, <2>3
<1>4. CASE ~SweepDevices(p)
  <2>1. swept'[e].native = swept[e].native
    BY <1>2, <1>4, SweptApart
  <2>2. CASE devices'[d] = v
    BY <2>1, <2>2 DEF OldAccessEnds
  <2>3. CASE Revoke(p)
    <3>1. devices'[d] \in {NoDevice, v}
      BY <1>1, <2>3 DEF Revoke
    <3>2. devices'[d] # NoDevice
      BY <1>2, AccountsAssumption DEF PairedDevice, NoDevice
    <3>3. devices'[d] = v
      BY <3>1, <3>2
    <3>4. QED
      BY <2>2, <3>3
  <2>4. CASE OpenDevice(p) /\ devices'[d] # v
    <3>1. e = Ask(p).email /\ devices'[d].epoch = req[p].epoch /\ devices'[d].late = Late(p)
      BY <1>1, <2>4 DEF OpenDevice
    <3>2. swept[e].native.epoch <= accounts[e].epoch
      BY <1>2 DEF EpochsOrdered
    <3>3. req[p].epoch \in Nat /\ swept[e].native.epoch \in Nat /\ accounts[e].epoch \in Nat
      BY <1>1, <1>2, AccountsAssumption DEF AccountsTyped, Handler, Sweep, UserRow
    <3>4. Late(p)
      BY <2>1, <3>1, <3>2, <3>3 DEF Late
    <3>5. QED
      BY <3>1, <3>4
  <2>5. QED
    BY <1>4, <2>2, <2>3, <2>4, WhoWrites
<1>5. QED
  BY <1>3, <1>4

\* A logout ends the session of its own cookie.
LEMMA LogoutToken ==
  ASSUME AccountsTyped, HandlersPlaced, NEW p \in Procs, Logout(p)
  PROVE  Ask(p).cookie \in Tokens
<1>1. req[p].pc = "logout"
  BY DEF Logout, At
<1>2. Ask(p) \in Requests /\ Ask(p).kind = "logout"
  BY <1>1, Acting DEF At, Ask, Placed
<1>3. QED
  BY <1>2, RequestsAssumption

\* A revocation ends a device, on behalf of who asked.
LEMMA RevokeTarget ==
  ASSUME AccountsTyped, HandlersPlaced, NEW p \in Procs, Revoke(p)
  PROVE  Ask(p).target \in Devices /\ req[p].who \in Emails
<1>1. req[p].pc = "revoke"
  BY DEF Revoke, At
<1>2. Ask(p) \in Requests /\ Ask(p).kind = "revoke" /\ req[p].who \in Emails
  BY <1>1, Acting DEF At, Ask, Placed, Authenticated
<1>3. QED
  BY <1>2, RequestsAssumption

\* What was ended is not opened again under the same token or identifier.
LEMMA EndedStep ==
  ASSUME AccountsInv, NEW p \in Procs, AccountStep(p)
  PROVE  EndedStaysEnded'
<1> DEFINE h == req[p]
<1> USE DEF AccountsInv
<1>1. sessions \in [Tokens -> WebSession \cup {NoSession}] /\ devices \in [Devices -> PairedDevice \cup {NoDevice}]
  BY DEF AccountsTyped
<1>2. Tokens \cap Devices = {}
  BY AccountsAssumption
<1>3. /\ \A t \in Tokens \cap spent : sessions[t] = NoSession
      /\ \A d \in Devices \cap spent : devices[d] = NoDevice
  BY DEF EndedStaysEnded
<1>4. CASE UNCHANGED <<spent, devices>> /\ (UNCHANGED sessions \/ Touch(p) \/ OpenSession(p))
  <2>1. CASE Touch(p)
    BY <1>1, <1>3, <1>4, <2>1 DEF Touch, Touched, EndedStaysEnded
  <2>2. CASE OpenSession(p)
    <3>1. \A t \in Tokens \cap spent : sessions'[t] = sessions[t]
      <4> DEFINE u == CHOOSE unused \in Fresh(Tokens, sessions, NoSession) : TRUE
      <4>1. u \in Fresh(Tokens, sessions, NoSession)
        BY <2>2 DEF OpenSession
      <4>2. u \notin spent
        BY <4>1 DEF Fresh
      <4>3. QED
        BY <1>1, <2>2, <4>2 DEF OpenSession
    <3>2. QED
      BY <1>3, <1>4, <3>1 DEF EndedStaysEnded
  <2>3. CASE UNCHANGED sessions
    BY <1>3, <1>4, <2>3 DEF EndedStaysEnded
  <2>4. QED
    BY <1>4, <2>1, <2>2, <2>3
<1>5. CASE OpenDevice(p)
  <2>1. \A d \in Devices \cap spent : devices'[d] = devices[d]
    <3> DEFINE u == CHOOSE unused \in Fresh(Devices, devices, NoDevice) : TRUE
    <3>1. u \in Fresh(Devices, devices, NoDevice)
      BY <1>5 DEF OpenDevice
    <3>2. u \notin spent
      BY <3>1 DEF Fresh
    <3>3. QED
      BY <1>1, <1>5, <3>2 DEF OpenDevice
  <2>2. QED
    BY <1>3, <1>5, <2>1 DEF OpenDevice, EndedStaysEnded
<1>6. CASE Logout(p)
  BY <1>1, <1>2, <1>3, <1>6, RequestsAssumption, LogoutToken DEF Logout, EndedStaysEnded
<1>7. CASE Revoke(p)
  <2>1. Ask(p).target \in Devices
    BY <1>7, RevokeTarget
  <2>2. CASE devices' = devices
    BY <1>3, <1>7, <2>2 DEF Revoke, EndedStaysEnded
  <2>3. CASE devices' # devices
    <3>1. devices' = [devices EXCEPT ![Ask(p).target] = NoDevice] /\ spent' = spent \cup {Ask(p).target} /\ UNCHANGED sessions
      BY <1>7, <2>3 DEF Revoke
    <3>2. QED
      BY <1>1, <1>2, <1>3, <2>1, <3>1 DEF EndedStaysEnded
  <2>4. QED
    BY <2>2, <2>3
<1>8. CASE SweepSessions(p)
  BY <1>1, <1>2, <1>3, <1>8 DEF SweepSessions, SweptSessions, EndedStaysEnded
<1>9. CASE SweepDevices(p)
  BY <1>1, <1>2, <1>3, <1>9 DEF SweepDevices, SweptDevices, EndedStaysEnded
<1>10. QED
  <2>1. ~Logout(p) /\ ~Revoke(p) /\ ~SweepSessions(p) /\ ~SweepDevices(p) /\ ~OpenDevice(p) =>
        UNCHANGED <<spent, devices>> /\ (UNCHANGED sessions \/ Touch(p) \/ OpenSession(p))
    BY WhoWrites
  <2>2. QED
    BY <1>4, <1>5, <1>6, <1>7, <1>8, <1>9, <2>1

-----------------------------------------------------------------------------
(* The invariant. *)

\* Time that passes keeps the invariant.
LEMMA TickInv == AccountsInv /\ Tick => AccountsInv'
<1> SUFFICES ASSUME AccountsInv, Tick PROVE AccountsInv'
  OBVIOUS
<1> USE DEF AccountsInv, Tick
<1>1. time' \in 0..MaxClock /\ time <= time'
  BY AccountsAssumption DEF AccountsTyped
<1>2. AccountsTyped'
  BY <1>1 DEF AccountsTyped
<1>3. HandlersPlaced'
  <2>1. \A p \in Procs : req[p].now \in 0..MaxClock
    BY DEF AccountsTyped, Handler
  <2>2. QED
    BY <1>1, <2>1, AccountsAssumption DEF HandlersPlaced, AccountsTyped
<1>4. EpochsOrdered'
  <2>1. Undecided' = Undecided
    BY DEF Undecided
  <2>2. QED
    BY <2>1 DEF EpochsOrdered
<1>5. OldAccessEnds' /\ EndedStaysEnded'
  BY DEF OldAccessEnds, EndedStaysEnded
<1>6. QED
  BY <1>2, <1>3, <1>4, <1>5

\* Every step keeps the invariant.
LEMMA AccountsStepInv == AccountsInv /\ [AccountsNext]_accountVars => AccountsInv'
<1> SUFFICES ASSUME AccountsInv, [AccountsNext]_accountVars PROVE AccountsInv'
  OBVIOUS
<1>1. CASE Tick
  BY <1>1, TickInv
<1>2. ASSUME NEW p \in Procs, AccountStep(p)
      PROVE  AccountsInv'
  <2>1. AccountsTyped' /\ HandlersPlaced'
    BY <1>2, TypedStep
  <2>2. EpochsOrdered'
    BY <1>2, EpochsStep
  <2>3. OldAccessEnds'
    BY <1>2, OldSessionsEnd, OldDevicesEnd DEF OldAccessEnds
  <2>4. EndedStaysEnded'
    BY <1>2, EndedStep
  <2>5. QED
    BY <2>1, <2>2, <2>3, <2>4 DEF AccountsInv
<1>3. CASE UNCHANGED accountVars
  BY <1>3 DEF accountVars, AccountsInv, AccountsTyped, HandlersPlaced, EpochsOrdered, Undecided, OldAccessEnds, EndedStaysEnded
<1>4. QED
  BY <1>1, <1>2, <1>3 DEF AccountsNext

\* The invariant always holds.
LEMMA AccountsAlways == AccountsSpec => []AccountsInv
  BY AccountsInitInv, AccountsStepInv, PTL DEF AccountsSpec

\* The values of the variables.
THEOREM AccountsTyping == AccountsSpec => []AccountsTypeOK
<1>1. AccountsInv => AccountsTypeOK
  <2> SUFFICES ASSUME AccountsInv PROVE AccountsTypeOK
    OBVIOUS
  <2>1. MaxServed \in Nat /\ MaxClock + IdleTtl \in Nat
    BY AccountsAssumption
  <2>2. NoSession \in [email : Emails \cup {None}, expires : 0..(MaxClock + IdleTtl),
                       epoch : 0..MaxServed, late : BOOLEAN]
    BY <2>1 DEF NoSession
  <2>3. NoDevice \in [email : Emails \cup {None}, epoch : 0..MaxServed, late : BOOLEAN]
    BY <2>1 DEF NoDevice
  <2>4. /\ WebSession \cup {NoSession} \subseteq
             [email : Emails \cup {None}, expires : 0..(MaxClock + IdleTtl), epoch : 0..MaxServed, late : BOOLEAN]
        /\ PairedDevice \cup {NoDevice} \subseteq
             [email : Emails \cup {None}, epoch : 0..MaxServed, late : BOOLEAN]
    BY <2>2, <2>3 DEF WebSession, PairedDevice
  <2>5. \A p \in Procs : req[p].who \in Emails \cup {None} /\ req[p].epoch \in 0..MaxServed
    BY DEF AccountsInv, AccountsTyped, Handler
  <2>6. QED
    BY <2>4, <2>5 DEF AccountsInv, AccountsTyped, AccountsTypeOK, UserRow
<1>2. QED
  BY AccountsAlways, <1>1, PTL

\* Whatever handlers do at once, and wherever they fail: a change of password ends
\* the access opened with an earlier one, and what was ended stays ended.
THEOREM EndedAccess == AccountsSpec => []AccessEnds
<1>1. AccountsInv => AccessEnds
  BY DEF AccountsInv, AccessEnds
<1>2. QED
  BY AccountsAlways, <1>1, PTL

-----------------------------------------------------------------------------
(* An access ends by its owner's act only. *)

\* A session that goes is the one of a logout's cookie, or one of the account
\* whose password was changed with another cookie.
LEMMA SessionEnds ==
  ASSUME AccountsInv, NEW q \in Procs, AccountStep(q), NEW t \in Tokens,
         sessions[t] # NoSession, sessions'[t] = NoSession
  PROVE  \E p \in Procs :
           \/ At(p, "logout") /\ Ask(p).cookie = t
           \/ At(p, "sweep_sessions") /\ req[p].who = sessions[t].email /\ Ask(p).cookie # t
<1>1. sessions \in [Tokens -> WebSession \cup {NoSession}] /\ sessions[t] \in WebSession
  BY DEF AccountsInv, AccountsTyped
<1>2. CASE Logout(q)
  BY <1>1, <1>2 DEF Logout
<1>3. CASE SweepSessions(q)
  <2>1. t \in SweptSessions(req[q].who, Ask(q).cookie)
    BY <1>1, <1>3 DEF SweepSessions
  <2>2. QED
    BY <1>3, <2>1 DEF SweepSessions, SweptSessions
<1>4. CASE Touch(q)
  <2>1. sessions'[t] = sessions[t] \/ sessions'[t] = [sessions[t] EXCEPT !.expires = req[q].now + IdleTtl]
    BY <1>1, <1>4 DEF Touch, Touched
  <2>2. sessions'[t].email = sessions[t].email
    BY <1>1, <2>1 DEF WebSession
  <2>3. QED
    BY <1>1, <2>2, AccountsAssumption DEF WebSession, NoSession
<1>5. CASE OpenSession(q)
  <2>1. ~At(q, "idle") /\ Ask(q).kind = "login"
    BY <1>5 DEF OpenSession, At, AccountsInv, HandlersPlaced, Placed, Ask
  <2>2. Ask(q).email \in Emails
    BY <2>1, Acting, RequestsAssumption DEF AccountsInv
  <2>3. sessions'[t] = sessions[t] \/ sessions'[t].email = Ask(q).email
    BY <1>1, <1>5 DEF OpenSession
  <2>4. QED
    BY <2>2, <2>3, AccountsAssumption DEF NoSession
<1>6. QED
  BY <1>2, <1>3, <1>4, <1>5, WhoWrites

\* The same of a device: a revocation in its household, or a change of its
\* account's password asked with another credential.
LEMMA DeviceEnds ==
  ASSUME AccountsInv, NEW q \in Procs, AccountStep(q), NEW d \in Devices,
         devices[d] # NoDevice, devices'[d] = NoDevice
  PROVE  \E p \in Procs :
           \/ At(p, "revoke") /\ req[p].who = devices[d].email /\ Ask(p).target = d
           \/ At(p, "sweep_devices") /\ req[p].who = devices[d].email /\ req[p].device # d
<1>1. devices \in [Devices -> PairedDevice \cup {NoDevice}] /\ devices[d] \in PairedDevice
  BY DEF AccountsInv, AccountsTyped
<1>2. CASE Revoke(q)
  BY <1>1, <1>2 DEF Revoke
<1>3. CASE SweepDevices(q)
  <2>1. d \in SweptDevices(req[q].who, req[q].device)
    BY <1>1, <1>3 DEF SweepDevices
  <2>2. QED
    BY <1>3, <2>1 DEF SweepDevices, SweptDevices
<1>4. CASE OpenDevice(q)
  <2>1. ~At(q, "idle") /\ Ask(q).kind = "pair"
    BY <1>4 DEF OpenDevice, At, AccountsInv, HandlersPlaced, Placed, Ask
  <2>2. Ask(q).email \in Emails
    BY <2>1, Acting, RequestsAssumption DEF AccountsInv
  <2>3. devices'[d] = devices[d] \/ devices'[d].email = Ask(q).email
    BY <1>1, <1>4 DEF OpenDevice
  <2>4. QED
    BY <2>2, <2>3, AccountsAssumption DEF NoDevice
<1>5. QED
  BY <1>2, <1>3, <1>4, WhoWrites

\* Nobody is logged out, and no device cut off, by another's act.
THEOREM OwnersEnd == AccountsSpec => [][EndsOnlyByItsOwner]_accountVars
<1>1. AccountsInv /\ [AccountsNext]_accountVars => [EndsOnlyByItsOwner]_accountVars
  <2> SUFFICES ASSUME AccountsInv, AccountsNext PROVE EndsOnlyByItsOwner
    OBVIOUS
  <2>1. CASE Tick
    BY <2>1 DEF Tick, EndsOnlyByItsOwner
  <2>2. ASSUME NEW q \in Procs, AccountStep(q)
        PROVE  EndsOnlyByItsOwner
    BY <2>2, SessionEnds, DeviceEnds DEF EndsOnlyByItsOwner
  <2>3. QED
    BY <2>1, <2>2 DEF AccountsNext
<1>2. QED
  BY AccountsAlways, <1>1, PTL DEF AccountsSpec

-----------------------------------------------------------------------------
(* The limit on failed attempts. *)

\* The handlers that were let past the limit for an account, whose attempt may
\* still be counted as a failure.
Passing(e) ==
  {p \in Procs : RateKey(p) = e /\ ((At(p, "count_ip") /\ ~req[p].blocked) \/ req[p].pc \in {"read_credentials", "verify"})}

\* What the bound on failures needs: the failures and the handlers let past together.
FailuresCounted ==
  faults = 0 =>
    \A e \in Emails : Cardinality(ByEmail(e, time)) + Cardinality(Passing(e)) <= MaxAttempts - 1 + Cardinality(Procs)

\* Rows that do not block are fewer than the limit.
LEMMA NotBlocking ==
  ASSUME NEW now \in Nat, NEW rows, IsFiniteSet(rows), \A a \in rows : a.at \in Nat, ~Blocks(rows, now)
  PROVE  Cardinality(rows) <= MaxAttempts - 1
<1> DEFINE instants == {a.at : a \in rows}
<1>1. Cardinality(rows) \in Nat /\ MaxAttempts \in Nat \ {0}
  BY FS_CardinalityType, AccountsAssumption
<1>2. SUFFICES ASSUME ~(Cardinality(rows) < MaxAttempts) PROVE FALSE
  BY <1>1
<1>3. CASE instants = {}
  <2>1. rows = {}
    BY <1>3
  <2>2. QED
    BY <1>1, <1>2, <2>1, FS_EmptySet
<1>4. CASE instants # {}
  <2>1. RetryAfter(Earliest(instants), LoginWindow, now) # 0
    BY DEF RetryAfter, Larger
  <2>2. QED
    BY <1>2, <1>4, <2>1 DEF Blocks, BlockedRetryAfter, NotBlocked
<1>5. QED
  BY <1>3, <1>4

\* What is counted is finite, and at a later instant no more rows are counted.
LEMMA CountedRows ==
  ASSUME AccountsTyped, NEW e, NEW now \in 0..MaxClock, NEW later \in 0..MaxClock, now <= later
  PROVE  /\ IsFiniteSet(ByEmail(e, now)) /\ Cardinality(ByEmail(e, now)) \in Nat
         /\ \A a \in ByEmail(e, now) : a.at \in Nat
         /\ Cardinality(ByEmail(e, later)) \in Nat
         /\ Cardinality(ByEmail(e, later)) <= Cardinality(ByEmail(e, now))
<1>1. MaxClock \in Nat /\ LoginWindow \in Nat
  BY AccountsAssumption
<1>2. ByEmail(e, now) \in SUBSET attempts /\ ByEmail(e, later) \in SUBSET attempts
  BY DEF ByEmail, Counted
<1>3. ByEmail(e, later) \in SUBSET ByEmail(e, now)
  BY <1>1 DEF ByEmail, Counted, InLoginWindow, AccountsTyped
<1>4. IsFiniteSet(ByEmail(e, now)) /\ IsFiniteSet(ByEmail(e, later))
  BY <1>2, FS_Subset DEF AccountsTyped
<1>5. \A a \in ByEmail(e, now) : a.at \in Nat
  BY <1>1, <1>2 DEF AccountsTyped
<1>6. QED
  BY <1>3, <1>4, <1>5, FS_Subset, FS_CardinalityType

\* The handlers let past are some of the handlers.
LEMMA PassingCounts ==
  ASSUME NEW e
  PROVE  /\ IsFiniteSet(Passing(e)) /\ Cardinality(Passing(e)) \in Nat
         /\ Cardinality(Passing(e)) <= Cardinality(Procs) /\ Cardinality(Procs) \in Nat
<1>1. Passing(e) \in SUBSET Procs
  BY DEF Passing
<1>2. QED
  BY <1>1, AccountsAssumption, FS_Subset, FS_CardinalityType

\* The same of the handlers of the next state.
LEMMA PassingCountsNext ==
  ASSUME NEW e
  PROVE  /\ IsFiniteSet(Passing(e)') /\ Cardinality(Passing(e)') \in Nat
         /\ Cardinality(Passing(e)') <= Cardinality(Procs)
<1>1. Passing(e)' \in SUBSET Procs
  BY DEF Passing
<1>2. QED
  BY <1>1, AccountsAssumption, FS_Subset, FS_CardinalityType

\* Only a count of the account's failures lets a handler past.
LEMMA PassingStep ==
  ASSUME AccountsInv, NEW p \in Procs, AccountStep(p), UNCHANGED faults, ~CountEmail(p), NEW e
  PROVE  /\ Passing(e)' \subseteq Passing(e)
         /\ RecordFailure(p) => p \notin Passing(e)'
<1>1. req \in [Procs -> Handler] /\ faults \in Nat
  BY DEF AccountsInv, AccountsTyped
<1> DEFINE Counting == {"count_ip", "read_credentials", "verify"}
<1>2. ASSUME NEW q, req' = [req EXCEPT ![p] = q], q.pc \notin Counting
      PROVE  Passing(e)' \subseteq Passing(e) /\ p \notin Passing(e)'
  BY <1>1, <1>2 DEF Passing, RateKey, Ask, At
<1>3. ASSUME NEW pc, Go(p, pc), pc \notin Counting
      PROVE  Passing(e)' \subseteq Passing(e)
  <2>1. req' = [req EXCEPT ![p] = [req[p] EXCEPT !.pc = pc]] /\ [req[p] EXCEPT !.pc = pc].pc = pc
    BY <1>1, <1>3 DEF Go, Handler
  <2>2. QED
    BY <1>2, <1>3, <2>1
<1>4. Answer(p) => Passing(e)' \subseteq Passing(e) /\ p \notin Passing(e)'
  BY <1>2 DEF Answer, Idle
<1>5. Passing(e)' \subseteq Passing(e)
  <2>1. ASSUME NEW r \in Requests, Begin(p, r) PROVE Passing(e)' \subseteq Passing(e)
    <3>1. FirstStep(r.kind) \notin Counting
      BY RequestsAssumption DEF FirstStep
    <3>2. QED
      BY <1>2, <2>1, <3>1 DEF Begin, Idle
  <2>2. CASE FindSession(p) \/ FindDevice(p) \/ Touch(p)
    <3>1. ~At(p, "idle") /\ Ask(p).kind \in Authenticated
      BY <2>2 DEF FindSession, FindDevice, Touch, At, Ask, AccountsInv, HandlersPlaced, Placed
    <3>2. Work(Ask(p).kind) \notin Counting
      BY <3>1 DEF Work, Authenticated
    <3>3. QED
      <4>1. CASE FindSession(p)
        <5> DEFINE q == [req[p] EXCEPT !.pc = "touch", !.who = sessions[Ask(p).cookie].email]
                   r == [req[p] EXCEPT !.pc = "find_device"]
        <5>1. req' = [req EXCEPT ![p] = q] \/ req' = [req EXCEPT ![p] = r]
          BY <4>1 DEF FindSession
        <5>2. q.pc = "touch" /\ r.pc = "find_device"
          BY <1>1 DEF Handler
        <5> HIDE DEF q, r
        <5>3. QED
          BY <1>2, <5>1, <5>2
      <4>2. CASE FindDevice(p)
        <5> DEFINE q == [req[p] EXCEPT !.pc = Work(Ask(p).kind), !.who = devices[Ask(p).bearer].email, !.device = Ask(p).bearer]
        <5>1. req' = [req EXCEPT ![p] = q] \/ Answer(p)
          BY <4>2 DEF FindDevice
        <5>2. q.pc = Work(Ask(p).kind)
          BY <1>1 DEF Handler
        <5> HIDE DEF q
        <5>3. QED
          BY <1>2, <1>4, <3>2, <5>1, <5>2
      <4>3. CASE Touch(p)
        BY <1>3, <3>2, <4>3 DEF Touch
      <4>4. QED
        BY <2>2, <4>1, <4>2, <4>3
  <2>3. CASE Read(p) \/ Revoke(p) \/ Logout(p) \/ Signup(p) \/ RecordFailure(p) \/ OpenSession(p)
             \/ OpenDevice(p) \/ SweepDevices(p)
    BY <1>4, <2>3 DEF Read, Revoke, Logout, Signup, RecordFailure, OpenSession, OpenDevice, SweepDevices
  <2>4. CASE CountIp(p)
    BY <1>1, <1>4, <2>4 DEF CountIp, Go, Passing, RateKey, Ask, At, Handler
  <2>5. CASE ReadCredentials(p)
    <3> DEFINE h == [req[p] EXCEPT !.pc = "verify", !.hash = accounts[Ask(p).email].hash, !.epoch = accounts[Ask(p).email].epoch]
    <3>1. req' = [req EXCEPT ![p] = h] /\ req[p].pc = "read_credentials"
      BY <2>5 DEF ReadCredentials, ReadHashOf, At
    <3>2. h.pc = "verify" /\ h.ask = req[p].ask /\ h.who = req[p].who
      BY <1>1 DEF Handler
    <3> HIDE DEF h
    <3>3. QED
      BY <1>1, <3>1, <3>2 DEF Passing, RateKey, Ask, At
  <2>6. CASE Clear(p)
    <3>1. AfterProof(p) \notin Counting
      BY DEF AfterProof
    <3>2. QED
      BY <1>3, <1>4, <2>6, <3>1 DEF Clear, Proceed
  <2>7. CASE ReadHash(p)
    <3> DEFINE h == [req[p] EXCEPT !.pc = "count_email", !.hash = accounts[req[p].who].hash, !.epoch = accounts[req[p].who].epoch]
    <3>1. req' = [req EXCEPT ![p] = h]
      BY <2>7 DEF ReadHash, ReadHashOf
    <3>2. h.pc = "count_email"
      BY <1>1 DEF Handler
    <3> HIDE DEF h
    <3>3. QED
      BY <1>2, <3>1, <3>2
  <2>8. CASE Update(p)
    <3> DEFINE h == [req[p] EXCEPT !.pc = "sweep_sessions", !.epoch = accounts[req[p].who].epoch + 1]
    <3>1. req' = [req EXCEPT ![p] = h]
      BY <2>8 DEF Update
    <3>2. h.pc = "sweep_sessions"
      BY <1>1 DEF Handler
    <3> HIDE DEF h
    <3>3. QED
      BY <1>2, <3>1, <3>2
  <2>9. CASE SweepSessions(p)
    BY <1>3, <2>9 DEF SweepSessions
  <2>10. ~StatementFails(p) /\ ~Cut(p)
    BY <1>1 DEF StatementFails, Cut
  <2>11. QED
    BY <2>1, <2>2, <2>3, <2>4, <2>5, <2>6, <2>7, <2>8, <2>9, <2>10 DEF AccountStep
<1>6. QED
  BY <1>4, <1>5 DEF RecordFailure

\* A step without faults keeps the count: failures of the window and handlers past
\* their count.
LEMMA FailuresStep ==
  ASSUME AccountsInv, FailuresCounted, NEW p \in Procs, AccountStep(p), faults' = 0, NEW e \in Emails
  PROVE  Cardinality(ByEmail(e, time)') + Cardinality(Passing(e)') <= MaxAttempts - 1 + Cardinality(Procs)
<1>1. AccountsTyped /\ HandlersPlaced /\ time \in 0..MaxClock /\ MaxAttempts \in Nat /\ AccountsTyped'
  BY AccountsAssumption, TypedStep DEF AccountsInv, AccountsTyped
<1>2. UNCHANGED faults /\ UNCHANGED time
  <2>1. faults \in Nat
    BY <1>1 DEF AccountsTyped
  <2>2. QED
    BY <2>1, WhoWrites DEF StatementFails, Cut
<1>3. Cardinality(ByEmail(e, time)) + Cardinality(Passing(e)) <= MaxAttempts - 1 + Cardinality(Procs)
  BY <1>2 DEF FailuresCounted
<1>4. /\ IsFiniteSet(ByEmail(e, time)) /\ Cardinality(ByEmail(e, time)) \in Nat
  BY <1>1, CountedRows
<1>5. ByEmail(e, time)' = {a \in attempts' : InLoginWindow(a.at, time, LoginWindow) /\ a.email = e}
  BY <1>2 DEF ByEmail, Counted
<1>6. CASE CountEmail(p)
  <2>1. ByEmail(e, time)' = ByEmail(e, time)
    BY <1>5, <1>6 DEF CountEmail, ByEmail, Counted
  <2>2. CASE RateKey(p) = e /\ ~Blocks(ByEmail(e, req[p].now), req[p].now)
    <3>1. req[p].now \in 0..MaxClock /\ req[p].now \in Nat /\ req[p].now <= time
      BY <1>1, AccountsAssumption DEF AccountsTyped, HandlersPlaced, Handler
    <3>2. Cardinality(ByEmail(e, req[p].now)) <= MaxAttempts - 1
      BY <1>1, <2>2, <3>1, CountedRows, NotBlocking
    <3>3. Cardinality(ByEmail(e, time)) <= Cardinality(ByEmail(e, req[p].now)) /\ Cardinality(ByEmail(e, req[p].now)) \in Nat
      BY <1>1, <3>1, CountedRows
    <3>4. QED
      BY <1>1, <1>4, <2>1, <3>2, <3>3, PassingCounts, PassingCountsNext
  <2>3. CASE ~(RateKey(p) = e /\ ~Blocks(ByEmail(e, req[p].now), req[p].now))
    <3> DEFINE b == Blocks(ByEmail(RateKey(p), req[p].now), req[p].now)
    <3>1. req' = [req EXCEPT ![p].pc = "count_ip", ![p].blocked = b] /\ req \in [Procs -> Handler]
      BY <1>1, <1>6 DEF CountEmail, AccountsTyped
    <3>2. RateKey(p) = e => b
      BY <2>3
    <3> HIDE DEF b
    <3>3. \A q \in Procs : RateKey(q)' = RateKey(q)
      BY <3>1 DEF RateKey, Ask, Handler
    <3>4. \A q \in Procs : (q = p => req'[q].blocked = b) /\ (q # p => req'[q] = req[q])
      BY <3>1 DEF Handler
    <3>5. Passing(e)' \in SUBSET Passing(e)
      BY <1>6, <3>1, <3>2, <3>3, <3>4 DEF Passing, At, CountEmail, Handler
    <3>6. Cardinality(Passing(e)') <= Cardinality(Passing(e))
      BY <3>5, PassingCounts, FS_Subset
    <3>7. QED
      BY <1>1, <1>3, <1>4, <2>1, <3>6, PassingCounts, PassingCountsNext
  <2>4. QED
    BY <2>2, <2>3
<1>7. CASE ~CountEmail(p) /\ ~RecordFailure(p)
  <2>1. Passing(e)' \in SUBSET Passing(e)
    BY <1>2, <1>7, PassingStep
  <2>2. Cardinality(Passing(e)') <= Cardinality(Passing(e))
    BY <2>1, PassingCounts, FS_Subset
  <2>3. attempts' \subseteq attempts
    BY <1>7, WhoWrites DEF Clear
  <2>4. ByEmail(e, time)' \in SUBSET ByEmail(e, time)
    BY <1>5, <2>3 DEF ByEmail, Counted
  <2>5. Cardinality(ByEmail(e, time)') <= Cardinality(ByEmail(e, time)) /\ Cardinality(ByEmail(e, time)') \in Nat
    BY <1>4, <2>4, FS_Subset, FS_CardinalityType
  <2>6. QED
    BY <1>1, <1>3, <1>4, <2>2, <2>5, PassingCounts, PassingCountsNext
<1>8. CASE RecordFailure(p)
  <2> DEFINE a == [id |-> FreshId, email |-> RateKey(p), ip |-> Ask(p).ip, at |-> req[p].now]
  <2>1. attempts' = attempts \cup {a} /\ a.email = RateKey(p) /\ At(p, "verify")
    BY <1>8 DEF RecordFailure
  <2> HIDE DEF a
  <2>2. ~CountEmail(p)
    BY <1>8 DEF RecordFailure, CountEmail, At
  <2>3. Passing(e)' \in SUBSET Passing(e) /\ p \notin Passing(e)'
    BY <1>2, <1>8, <2>2, PassingStep
  <2>4. CASE RateKey(p) = e /\ p \in Passing(e)
    <3>1. Passing(e)' \in SUBSET (Passing(e) \ {p})
      BY <2>3
    <3>2. IsFiniteSet(Passing(e) \ {p}) /\ Cardinality(Passing(e) \ {p}) = Cardinality(Passing(e)) - 1
      BY <2>4, PassingCounts, FS_RemoveElement
    <3>6. Cardinality(Passing(e)') <= Cardinality(Passing(e)) - 1
      BY <3>1, <3>2, FS_Subset
    <3>3. ByEmail(e, time)' \in SUBSET (ByEmail(e, time) \cup {a})
      BY <1>5, <2>1 DEF ByEmail, Counted
    <3>4. /\ Cardinality(ByEmail(e, time)') <= Cardinality(ByEmail(e, time) \cup {a})
          /\ Cardinality(ByEmail(e, time) \cup {a}) <= Cardinality(ByEmail(e, time)) + 1
          /\ Cardinality(ByEmail(e, time) \cup {a}) \in Nat /\ Cardinality(ByEmail(e, time)') \in Nat
      BY <1>4, <3>3, FS_AddElement, FS_Subset, FS_CardinalityType
    <3>5. QED
      BY <1>1, <1>3, <1>4, <3>6, <3>4, PassingCounts, PassingCountsNext
  <2>5. CASE RateKey(p) # e
    <3>1. ByEmail(e, time)' = ByEmail(e, time)
      BY <1>5, <2>1, <2>5 DEF ByEmail, Counted
    <3>2. Cardinality(Passing(e)') <= Cardinality(Passing(e))
      BY <2>3, PassingCounts, FS_Subset
    <3>3. QED
      BY <1>1, <1>3, <1>4, <3>1, <3>2, PassingCounts, PassingCountsNext
  <2>6. RateKey(p) = e => p \in Passing(e)
    BY <2>1 DEF Passing, At
  <2>7. QED
    BY <2>4, <2>5, <2>6
<1>9. QED
  BY <1>6, <1>7, <1>8

\* However many attempts run at once, an account's failures pass the limit by no more
\* than the handlers at work, as long as no statement fails.
THEOREM BoundedFailures == AccountsSpec => []FailuresBounded
<1>1. AccountsInit => FailuresCounted
  <2> SUFFICES ASSUME AccountsInit, NEW e \in Emails
               PROVE  Cardinality(ByEmail(e, time)) + Cardinality(Passing(e)) <= MaxAttempts - 1 + Cardinality(Procs)
    BY DEF FailuresCounted
  <2>1. ByEmail(e, time) = {} /\ Passing(e) = {}
    BY DEF AccountsInit, ByEmail, Counted, Passing, Idle, At
  <2>2. QED
    BY <2>1, FS_EmptySet, PassingCounts, AccountsAssumption
<1>2. AccountsInv /\ FailuresCounted /\ [AccountsNext]_accountVars => FailuresCounted'
  <2> SUFFICES ASSUME AccountsInv, FailuresCounted, [AccountsNext]_accountVars, faults' = 0, NEW e \in Emails
               PROVE  Cardinality(ByEmail(e, time)') + Cardinality(Passing(e)') <= MaxAttempts - 1 + Cardinality(Procs)
    BY DEF FailuresCounted
  <2>1. CASE Tick
    <3>1. UNCHANGED <<attempts, req, faults>> /\ AccountsTyped /\ time \in 0..MaxClock /\ time' \in 0..MaxClock /\ time <= time'
      BY <2>1, AccountsAssumption DEF Tick, AccountsInv, AccountsTyped
    <3>2. Passing(e)' = Passing(e) /\ ByEmail(e, time)' = ByEmail(e, time')
      BY <3>1 DEF Passing, RateKey, Ask, At, ByEmail, Counted
    <3>3. /\ Cardinality(ByEmail(e, time')) <= Cardinality(ByEmail(e, time))
          /\ Cardinality(ByEmail(e, time')) \in Nat /\ Cardinality(ByEmail(e, time)) \in Nat
      BY <3>1, CountedRows
    <3>4. QED
      BY <3>1, <3>2, <3>3, PassingCounts, AccountsAssumption DEF FailuresCounted
  <2>2. ASSUME NEW p \in Procs, AccountStep(p)
        PROVE  Cardinality(ByEmail(e, time)') + Cardinality(Passing(e)') <= MaxAttempts - 1 + Cardinality(Procs)
    BY <2>2, FailuresStep
  <2>3. CASE UNCHANGED accountVars
    <3>1. Passing(e)' = Passing(e) /\ ByEmail(e, time)' = ByEmail(e, time) /\ faults' = faults
      BY <2>3 DEF accountVars, Passing, RateKey, Ask, At, ByEmail, Counted
    <3>2. QED
      BY <3>1 DEF FailuresCounted
  <2>4. QED
    BY <2>1, <2>2, <2>3 DEF AccountsNext
<1>3. AccountsInv /\ FailuresCounted => FailuresBounded
  <2> SUFFICES ASSUME AccountsInv, FailuresCounted, faults = 0, NEW e \in Emails
               PROVE  Cardinality(ByEmail(e, time)) <= MaxAttempts - 1 + Cardinality(Procs)
    BY DEF FailuresBounded
  <2>1. time \in 0..MaxClock /\ time <= time /\ MaxAttempts \in Nat
    BY AccountsAssumption DEF AccountsInv, AccountsTyped
  <2>2. Cardinality(ByEmail(e, time)) \in Nat
    BY <2>1, CountedRows DEF AccountsInv
  <2>3. QED
    BY <2>1, <2>2, PassingCounts DEF FailuresCounted
<1>4. QED
  BY AccountsAlways, <1>1, <1>2, <1>3, PTL DEF AccountsSpec

=============================================================================
