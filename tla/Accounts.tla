------------------------------ MODULE Accounts ------------------------------
(* Accounts, web sessions, paired devices, the limit on failed logins and    *)
(* the change of password (server/auth.rs, server/accounts.rs and the        *)
(* repositories users, sessions, device_tokens, login_attempts).             *)
(*                                                                           *)
(* A handler is a process; one action is one SQL statement, and each         *)
(* statement commits by itself, so that the handlers interleave between      *)
(* them.  req[p] holds the local variables of the handler and the statement  *)
(* it is about to run (pc); the status it answers is not kept.  A handler is *)
(* cut when its connection or its process ends.  last_seen_at, labels and    *)
(* platforms of devices are left out.  An account is named by its e-mail and *)
(* owns its household alone, which is all create_account can make.           *)
EXTENDS RateLimit

CONSTANTS Emails, Passwords, Procs, Tokens, Devices, None,
          Requests,            \* what clients may ask: records of Request
          TooShort, Compromised, Languages,
          InitialAccounts, InitialSessions, InitialDevices,
          MaxAttempts, LoginWindow, IdleTtl,
          MaxClock, MaxServed, MaxFaults

Nobody == [hash |-> None, epoch |-> 0, language |-> None]
NoSession == [email |-> None, expires |-> 0, epoch |-> 0, late |-> FALSE]
NoDevice == [email |-> None, epoch |-> 0, late |-> FALSE]

ASSUME AccountsAssumption ==
  /\ None \notin Emails
  /\ Tokens \cap Devices = {}
  /\ IsFiniteSet(Procs)
  /\ MaxAttempts \in Nat \ {0}
  /\ {LoginWindow, IdleTtl, MaxClock, MaxServed, MaxFaults} \subseteq Nat
  /\ "en" \in Languages

\* The bodies that the extractors let through; a logout without its cookie does nothing.
ASSUME RequestsAssumption ==
  \A r \in Requests :
    /\ r.kind \in {"login", "pair", "signup", "logout", "read", "revoke", "change"}
    /\ r.cookie \in Tokens \cup {None} /\ r.bearer \in Devices \cup {None}
    /\ r.kind \in {"login", "pair", "signup"} => r.email \in Emails
    /\ r.kind \in {"signup", "change"} => r.new \in Passwords
    /\ r.kind = "logout" => r.cookie \in Tokens
    /\ r.kind = "revoke" => r.target \in Devices

\* At the start no password has been changed yet.
ASSUME InitialAssumption ==
  /\ InitialAccounts \in [Emails -> [hash : Passwords \cup {None}, epoch : {0}, language : Languages \cup {None}]]
  /\ InitialSessions \in [Tokens -> {NoSession} \cup
       [email : Emails, expires : 0..(MaxClock + IdleTtl), epoch : {0}, late : {FALSE}]]
  /\ InitialDevices \in [Devices -> {NoDevice} \cup [email : Emails, epoch : {0}, late : {FALSE}]]

VARIABLES
  accounts,   \* users by e-mail; epoch counts the changes of password
  categories, \* the language of the categories each new household was given
  sessions,   \* sessions by token; epoch is the password that opened it
  devices,    \* device_tokens by identifier
  attempts,   \* login_attempts
  req,        \* the handlers
  time,       \* the clock
  served, faults,
  spent,      \* history: tokens that were once ended
  swept       \* history: per account, the last revocations that succeeded

accountVars == <<accounts, categories, sessions, devices, attempts, req, time, served, faults,
                 spent, swept>>

Idle == [pc |-> "idle", ask |-> None, now |-> 0, who |-> None, device |-> None,
         blocked |-> FALSE, hash |-> None, epoch |-> 0]

NoSweep == [epoch |-> 0, keep |-> None]

AccountsInit ==
  /\ accounts = InitialAccounts
  /\ categories = [e \in Emails |-> InitialAccounts[e].language]
  /\ sessions = InitialSessions
  /\ devices = InitialDevices
  /\ attempts = {}
  /\ req = [p \in Procs |-> Idle]
  /\ time = 0
  /\ served = 0
  /\ faults = 0
  /\ spent = {}
  /\ swept = [e \in Emails |-> [web |-> NoSweep, native |-> NoSweep]]

-----------------------------------------------------------------------------
(* The places of a handler.                                                  *)

At(p, pc) == req[p].pc = pc
Ask(p) == req[p].ask
Go(p, pc) == req' = [req EXCEPT ![p].pc = pc]
Answer(p) == req' = [req EXCEPT ![p] = Idle]

\* A login and a sign-up are for everyone, a logout needs no valid session,
\* every other route goes through the extractor AuthActor.
FirstStep(kind) ==
  CASE kind \in {"login", "pair"} -> "count_email"
    [] kind = "signup" -> "signup"
    [] kind = "logout" -> "logout"
    [] OTHER -> "find_session"

\* What an authenticated route does first.
Work(kind) == IF kind = "change" THEN "read_hash" ELSE kind

Begin(p, r) ==
  /\ At(p, "idle")
  /\ served < MaxServed
  /\ served' = served + 1
  /\ req' = [req EXCEPT ![p] = [Idle EXCEPT !.pc = FirstStep(r.kind), !.ask = r, !.now = time]]
  /\ UNCHANGED <<accounts, categories, sessions, devices, attempts, time, faults, spent, swept>>

-----------------------------------------------------------------------------
(* AuthActor: the cookie first, then the bearer token.                       *)

ValidSession(t, now) == t # None /\ sessions[t] # NoSession /\ sessions[t].expires > now

FindSession(p) ==
  /\ At(p, "find_session")
  /\ req' = IF ValidSession(Ask(p).cookie, req[p].now)
            THEN [req EXCEPT ![p].pc = "touch", ![p].who = sessions[Ask(p).cookie].email]
            ELSE [req EXCEPT ![p].pc = "find_device"]
  /\ UNCHANGED <<accounts, categories, sessions, devices, attempts, time, served, faults, spent, swept>>

\* An update: a session that was deleted meanwhile stays deleted.
Touched(t, expires) ==
  IF sessions[t] = NoSession THEN sessions ELSE [sessions EXCEPT ![t].expires = expires]

Touch(p) ==
  /\ At(p, "touch")
  /\ sessions' = Touched(Ask(p).cookie, req[p].now + IdleTtl)
  /\ Go(p, Work(Ask(p).kind))
  /\ UNCHANGED <<accounts, categories, devices, attempts, time, served, faults, spent, swept>>

FindDevice(p) ==
  /\ At(p, "find_device")
  /\ LET d == Ask(p).bearer IN
     IF d # None /\ devices[d] # NoDevice
     THEN req' = [req EXCEPT ![p].pc = Work(Ask(p).kind), ![p].who = devices[d].email, ![p].device = d]
     ELSE Answer(p)
  /\ UNCHANGED <<accounts, categories, sessions, devices, attempts, time, served, faults, spent, swept>>

\* GET /me and GET /devices only read.
Read(p) ==
  /\ At(p, "read")
  /\ Answer(p)
  /\ UNCHANGED <<accounts, categories, sessions, devices, attempts, time, served, faults, spent, swept>>

\* DELETE /devices/{id}: a device of the caller's household, or 404.
Revoke(p) ==
  /\ At(p, "revoke")
  /\ devices' = IF devices[Ask(p).target].email = req[p].who
                THEN [devices EXCEPT ![Ask(p).target] = NoDevice] ELSE devices
  /\ spent' = IF devices' = devices THEN spent ELSE spent \cup {Ask(p).target}
  /\ Answer(p)
  /\ UNCHANGED <<accounts, categories, sessions, attempts, time, served, faults, swept>>

\* DELETE /sessions: always 204.
Logout(p) ==
  /\ At(p, "logout")
  /\ LET t == Ask(p).cookie IN
     /\ sessions' = [sessions EXCEPT ![t] = NoSession]
     /\ spent' = spent \cup {t}
  /\ Answer(p)
  /\ UNCHANGED <<accounts, categories, devices, attempts, time, served, faults, swept>>

-----------------------------------------------------------------------------
(* POST /accounts: the household, its categories, then the user, in one      *)
(* transaction that the unique e-mail rolls back.                            *)

ValidatePassword(w) ==
  CASE w \in TooShort -> "too_short"
    [] w \in Compromised -> "compromised"
    [] OTHER -> "ok"

SeedLanguage(code) == IF code = None THEN "en" ELSE code

Signup(p) ==
  /\ At(p, "signup")
  /\ LET r == Ask(p)
         accepted == ValidatePassword(r.new) = "ok" /\ r.language \in Languages \cup {None}
     IN IF accepted /\ accounts[r.email] = Nobody
        THEN /\ accounts' = [accounts EXCEPT ![r.email] =
                               [hash |-> r.new, epoch |-> 0, language |-> r.language]]
             /\ categories' = [categories EXCEPT ![r.email] = SeedLanguage(r.language)]
        ELSE UNCHANGED <<accounts, categories>>
  /\ Answer(p)
  /\ UNCHANGED <<sessions, devices, attempts, time, served, faults, spent, swept>>

-----------------------------------------------------------------------------
(* The limit, the check of a password and what a login opens.                *)

\* The account whose failures are counted: the one named, or the caller's own.
RateKey(p) == IF Ask(p).kind = "change" THEN req[p].who ELSE Ask(p).email

BlocksMutant(rows, now) == Cardinality(rows) > MaxAttempts
Blocks(rows, now) ==
  BlockedRetryAfter(Cardinality(rows), {a.at : a \in rows}, now, LoginWindow, MaxAttempts) # NotBlocked

Counted(now) == {a \in attempts : InLoginWindow(a.at, now, LoginWindow)}
ByEmail(email, now) == {a \in Counted(now) : a.email = email}
ByIp(ip, now) == {a \in Counted(now) : a.ip = ip}

CountEmail(p) ==
  /\ At(p, "count_email")
  /\ req' = [req EXCEPT ![p].pc = "count_ip",
                        ![p].blocked = Blocks(ByEmail(RateKey(p), req[p].now), req[p].now)]
  /\ UNCHANGED <<accounts, categories, sessions, devices, attempts, time, served, faults, spent, swept>>

AfterLimit(kind) == IF kind = "change" THEN "verify" ELSE "read_credentials"

CountIp(p) ==
  /\ At(p, "count_ip")
  /\ IF req[p].blocked \/ (Ask(p).ip # None /\ Blocks(ByIp(Ask(p).ip, req[p].now), req[p].now))
     THEN Answer(p)
     ELSE Go(p, AfterLimit(Ask(p).kind))
  /\ UNCHANGED <<accounts, categories, sessions, devices, attempts, time, served, faults, spent, swept>>

ReadHashOf(p, email, next) ==
  req' = [req EXCEPT ![p].pc = next, ![p].hash = accounts[email].hash, ![p].epoch = accounts[email].epoch]

ReadCredentials(p) ==
  /\ At(p, "read_credentials")
  /\ ReadHashOf(p, Ask(p).email, "verify")
  /\ UNCHANGED <<accounts, categories, sessions, devices, attempts, time, served, faults, spent, swept>>

Proven(p) == req[p].hash # None /\ Ask(p).password = req[p].hash

AfterProof(p) ==
  CASE Ask(p).kind = "login" -> "open_session"
    [] Ask(p).kind = "pair" -> "open_device"
    [] Ask(p).kind = "change" /\ ValidatePassword(Ask(p).new) = "ok" -> "update"
    [] OTHER -> "refused"

Proceed(p) == IF AfterProof(p) = "refused" THEN Answer(p) ELSE Go(p, AfterProof(p))

Clear(p) ==
  /\ At(p, "verify") /\ Proven(p)
  /\ attempts' = {a \in attempts : a.email # RateKey(p)}
  /\ Proceed(p)
  /\ UNCHANGED <<accounts, categories, sessions, devices, time, served, faults, spent, swept>>

FreshId == CHOOSE n \in 1..MaxServed : \A a \in attempts : a.id # n

\* The same for an unknown account: the password is checked against a dummy hash.
RecordFailure(p) ==
  /\ At(p, "verify") /\ ~Proven(p)
  /\ attempts' = attempts \cup {[id |-> FreshId, email |-> RateKey(p), ip |-> Ask(p).ip, at |-> req[p].now]}
  /\ Answer(p)
  /\ UNCHANGED <<accounts, categories, sessions, devices, time, served, faults, spent, swept>>

\* Opened with a password that has been replaced since it was read.
Late(p) == req[p].epoch < accounts[Ask(p).email].epoch

\* A random token, an identifier the database draws: never one that was used before.
Fresh(all, table, free) == {t \in all \ spent : table[t] = free}

OpenSession(p) ==
  /\ At(p, "open_session")
  /\ Fresh(Tokens, sessions, NoSession) # {}
  /\ LET t == CHOOSE unused \in Fresh(Tokens, sessions, NoSession) : TRUE IN
     sessions' = [sessions EXCEPT ![t] = [email |-> Ask(p).email, expires |-> req[p].now + IdleTtl,
                                          epoch |-> req[p].epoch, late |-> Late(p)]]
  /\ Answer(p)
  /\ UNCHANGED <<accounts, categories, devices, attempts, time, served, faults, spent, swept>>

OpenDevice(p) ==
  /\ At(p, "open_device")
  /\ Fresh(Devices, devices, NoDevice) # {}
  /\ LET d == CHOOSE unused \in Fresh(Devices, devices, NoDevice) : TRUE IN
     devices' = [devices EXCEPT ![d] = [email |-> Ask(p).email, epoch |-> req[p].epoch, late |-> Late(p)]]
  /\ Answer(p)
  /\ UNCHANGED <<accounts, categories, sessions, attempts, time, served, faults, spent, swept>>

-----------------------------------------------------------------------------
(* PUT /password: five statements after the extractor, each on its own.      *)

ReadHash(p) ==
  /\ At(p, "read_hash")
  /\ ReadHashOf(p, req[p].who, "count_email")
  /\ UNCHANGED <<accounts, categories, sessions, devices, attempts, time, served, faults, spent, swept>>

Update(p) ==
  /\ At(p, "update")
  /\ accounts' = [accounts EXCEPT ![req[p].who].hash = Ask(p).new, ![req[p].who].epoch = @ + 1]
  /\ req' = [req EXCEPT ![p].pc = "sweep_sessions", ![p].epoch = accounts[req[p].who].epoch + 1]
  /\ UNCHANGED <<categories, sessions, devices, attempts, time, served, faults, spent, swept>>

\* Every session of the account but the one of the cookie, every device but
\* the one of the bearer token; None keeps none.
SweptSessionsMutant(email, keep) == {t \in Tokens : sessions[t].email = email /\ keep # None /\ t # keep}
SweptSessions(email, keep) == {t \in Tokens : sessions[t].email = email /\ t # keep}
SweptDevicesMutant(email, keep) == {d \in Devices : devices[d].email = email}
SweptDevices(email, keep) == {d \in Devices : devices[d].email = email /\ d # keep}

SweepSessions(p) ==
  /\ At(p, "sweep_sessions")
  /\ LET gone == SweptSessions(req[p].who, Ask(p).cookie) IN
     /\ sessions' = [t \in Tokens |-> IF t \in gone THEN NoSession ELSE sessions[t]]
     /\ spent' = spent \cup gone
  /\ swept' = [swept EXCEPT ![req[p].who].web = [epoch |-> req[p].epoch, keep |-> Ask(p).cookie]]
  /\ Go(p, "sweep_devices")
  /\ UNCHANGED <<accounts, categories, devices, attempts, time, served, faults>>

SweepDevices(p) ==
  /\ At(p, "sweep_devices")
  /\ LET gone == SweptDevices(req[p].who, req[p].device) IN
     /\ devices' = [d \in Devices |-> IF d \in gone THEN NoDevice ELSE devices[d]]
     /\ spent' = spent \cup gone
  /\ swept' = [swept EXCEPT ![req[p].who].native = [epoch |-> req[p].epoch, keep |-> req[p].device]]
  /\ Answer(p)
  /\ UNCHANGED <<accounts, categories, sessions, attempts, time, served, faults>>

-----------------------------------------------------------------------------
(* Faults: a statement fails, a handler is cut.                              *)

\* What the handler does with the error of the statement it was about to run:
\* a failed lookup is "nothing found", a failed count is zero, a failed touch,
\* clear, record or revocation is ignored, the rest answers 500.
AfterError(p) ==
  LET at(pc) == [req[p] EXCEPT !.pc = pc] IN
  CASE At(p, "find_session") -> at("find_device")
    [] At(p, "touch") -> at(Work(Ask(p).kind))
    [] At(p, "count_email") -> at("count_ip")
    [] At(p, "count_ip") -> IF req[p].blocked THEN Idle ELSE at(AfterLimit(Ask(p).kind))
    [] At(p, "read_credentials") -> at("verify")
    [] At(p, "verify") -> IF Proven(p) /\ AfterProof(p) # "refused" THEN at(AfterProof(p)) ELSE Idle
    [] At(p, "sweep_sessions") -> at("sweep_devices")
    [] OTHER -> Idle

StatementFails(p) ==
  /\ ~At(p, "idle")
  /\ faults < MaxFaults
  /\ faults' = faults + 1
  /\ req' = [req EXCEPT ![p] = AfterError(p)]
  /\ UNCHANGED <<accounts, categories, sessions, devices, attempts, time, served, spent, swept>>

Cut(p) ==
  /\ ~At(p, "idle")
  /\ faults < MaxFaults
  /\ faults' = faults + 1
  /\ Answer(p)
  /\ UNCHANGED <<accounts, categories, sessions, devices, attempts, time, served, spent, swept>>

Tick ==
  /\ time < MaxClock
  /\ time' = time + 1
  /\ UNCHANGED <<accounts, categories, sessions, devices, attempts, req, served, faults, spent, swept>>

AccountStep(p) ==
  \/ \E r \in Requests : Begin(p, r)
  \/ FindSession(p) \/ Touch(p) \/ FindDevice(p) \/ Read(p) \/ Revoke(p) \/ Logout(p) \/ Signup(p)
  \/ CountEmail(p) \/ CountIp(p) \/ ReadCredentials(p) \/ Clear(p) \/ RecordFailure(p)
  \/ OpenSession(p) \/ OpenDevice(p)
  \/ ReadHash(p) \/ Update(p) \/ SweepSessions(p) \/ SweepDevices(p)
  \/ StatementFails(p) \/ Cut(p)

AccountsNext == Tick \/ \E p \in Procs : AccountStep(p)

AccountsSpec == AccountsInit /\ [][AccountsNext]_accountVars

-----------------------------------------------------------------------------
(* Properties.                                                               *)

Sweep == [epoch : 0..MaxServed, keep : Tokens \cup Devices \cup {None}]

\* The values of the variables.
AccountsTypeOK ==
  /\ accounts \in [Emails -> [hash : Passwords \cup {None}, epoch : 0..MaxServed, language : Languages \cup {None}]]
  /\ categories \in [Emails -> Languages \cup {None}]
  /\ sessions \in [Tokens -> [email : Emails \cup {None}, expires : 0..(MaxClock + IdleTtl),
                              epoch : 0..MaxServed, late : BOOLEAN]]
  /\ devices \in [Devices -> [email : Emails \cup {None}, epoch : 0..MaxServed, late : BOOLEAN]]
  /\ \A a \in attempts : a.at \in 0..MaxClock /\ a.email \in Emails
  /\ \A p \in Procs : req[p].who \in Emails \cup {None} /\ req[p].epoch \in 0..MaxServed
  /\ spent \subseteq Tokens \cup Devices
  /\ swept \in [Emails -> [web : Sweep, native : Sweep]]

\* A change of password ends every access opened with an earlier password: once
\* its two revocations have run, what is left of that account is the access that
\* asked for the change, or one whose login had read the old password and stored
\* its session after the password was replaced (change_password, auth.rs).
OldAccessEnds ==
  /\ \A t \in Tokens : LET s == sessions[t] IN
       s.email # None /\ s.epoch < swept[s.email].web.epoch => s.late \/ t = swept[s.email].web.keep
  /\ \A d \in Devices : LET v == devices[d] IN
       v.email # None /\ v.epoch < swept[v.email].native.epoch => v.late \/ d = swept[v.email].native.keep

\* Nobody is logged out by another's act: a session ends by its own logout or by a
\* change of its account's password asked with another credential; a device by a
\* revocation in its household or by such a change.
EndsOnlyByItsOwner ==
  /\ \A t \in Tokens : sessions[t] # NoSession /\ sessions'[t] = NoSession =>
       \E p \in Procs :
         \/ At(p, "logout") /\ Ask(p).cookie = t
         \/ At(p, "sweep_sessions") /\ req[p].who = sessions[t].email /\ Ask(p).cookie # t
  /\ \A d \in Devices : devices[d] # NoDevice /\ devices'[d] = NoDevice =>
       \E p \in Procs :
         \/ At(p, "revoke") /\ req[p].who = devices[d].email /\ Ask(p).target = d
         \/ At(p, "sweep_devices") /\ req[p].who = devices[d].email /\ req[p].device # d

\* An access that was ended stays ended, whatever a request that was let in
\* before still does (the touch of its session, authenticate, auth.rs).
EndedStaysEnded ==
  /\ \A t \in Tokens \cap spent : sessions[t] = NoSession
  /\ \A d \in Devices \cap spent : devices[d] = NoDevice

\* Both together: the credentials that an act was to end give no access any more.
AccessEnds == OldAccessEnds /\ EndedStaysEnded

\* The limit on failures is checked, then recorded, by two statements: concurrent
\* attempts pass it together, but never by more than the handlers at work, as long
\* as no count fails (rate_limit_retry_after, record_failure).
FailuresBounded ==
  faults = 0 =>
    \A e \in Emails : Cardinality(ByEmail(e, time)) <= MaxAttempts - 1 + Cardinality(Procs)

=============================================================================
