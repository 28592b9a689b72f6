----------------------------- MODULE Lifecycle -----------------------------
(* The life of the server process: it checks its configuration, opens and     *)
(* migrates the database, listens, and on a signal drains the requests in     *)
(* flight for a grace period before it closes the pool of connections.        *)
(* A raw value of a variable is Unset, "empty", or stands for what parsing it  *)
(* tells apart: "address", "two", "zero", "true", "false", "text".            *)
EXTENDS Naturals, FiniteSets

CONSTANTS
  Unset,
  Connections,   \* requests that may reach the server
  Environments,  \* [variable -> raw value]
  WebRequests    \* [path, file, index]: what is asked, what is on the disk

Raw == {"empty", "address", "two", "zero", "true", "false", "text"}

VARIABLES
  phase,         \* where main is
  env,
  conn,          \* [Connections -> where the request is]
  overdue        \* the grace period has elapsed

lifeVars == <<phase, env, conn, overdue>>

-----------------------------------------------------------------------------
(* config.rs: the reference of the variables, and what the start makes of it. *)

Expects == [
  DATABASE_URL |-> "NonEmpty", LISTEN_ADDR |-> "ListenAddr", WEBUI_DIR |-> "NonEmpty",
  SESSION_COOKIE_SECURE |-> "Bool", AUTH_RATELIMIT_MAX_ATTEMPTS |-> "PositiveInt"]
Required == {"DATABASE_URL"}
Missed == {"WEBUI_DIR"}  \* an absence with a consequence
Variables == DOMAIN Expects

ASSUME LifecycleAssumption ==
  /\ Unset \notin Raw /\ Environments \subseteq [Variables -> Raw \union {Unset}]
  /\ WebRequests \subseteq [path : {"api", "asset", "page"}, file : BOOLEAN, index : BOOLEAN]

Present(raw) == raw \notin {Unset, "empty"}

Matches(raw, expects) ==
  CASE expects = "NonEmpty" -> TRUE
    [] expects = "ListenAddr" -> raw = "address"
    [] expects = "PositiveInt" -> raw = "two"
    [] expects = "Bool" -> raw \in {"true", "false"}

Blocking(e) ==
  {v \in Required : ~Present(e[v])} \union
  {v \in Variables : Expects[v] = "ListenAddr" /\ Present(e[v]) /\ ~Matches(e[v], Expects[v])}

Warnings(e) ==
  {v \in Missed : ~Present(e[v])} \union {v \in Variables : Present(e[v]) /\ ~Matches(e[v], Expects[v])}

(* listen.rs: an absent value is the default, an empty one is not an address. *)
ResolvesListenAddr(raw) == raw \in {Unset, "address"}

(* auth.rs: what is read when a request needs it. *)
CookieSecureMutant(raw) == raw = "true"
CookieSecure(raw) == raw # "false"
MaxAttemptsRead(raw) == IF raw = "two" THEN 2 ELSE 5

-----------------------------------------------------------------------------
(* webui.rs: the interface behind the API.  A file of the directory is        *)
(* served; the rest is the document, except under /api/.                      *)

Detect(e, index) == Present(e["WEBUI_DIR"]) /\ index

SpaFallback(w) == IF w.path = "api" \/ ~w.index THEN "problem" ELSE "document"

Served(e, w) ==
  IF ~Detect(e, w.index) THEN "problem" ELSE IF w.file THEN "file" ELSE SpaFallback(w)

CachePolicy(w, body) ==
  CASE body = "problem" -> "none"
    [] body # "problem" /\ w.path = "asset" -> "immutable"
    [] body = "document" /\ w.path # "asset" -> "no-cache"
    [] OTHER -> "none"

-----------------------------------------------------------------------------
(* main.rs *)

LifeInit ==
  /\ phase = "off" /\ env \in Environments
  /\ conn = [r \in Connections |-> "away"] /\ overdue = FALSE

To(next) == phase' = next /\ UNCHANGED <<env, conn, overdue>>

ValidateStartup ==
  /\ phase = "off"
  /\ To(IF Blocking(env) = {} THEN "checked" ELSE "refused")

(* Connect and migrate: the database may not answer. *)
OpenDatabase == phase = "checked" /\ (To("opened") \/ To("refused"))

(* The address is resolved after the migrations; the port may be taken.      *)
Listen ==
  /\ phase = "opened"
  /\ \/ ResolvesListenAddr(env["LISTEN_ADDR"]) /\ To("serving")
     \/ To("refused")

Accept(r) ==
  /\ phase = "serving" /\ conn[r] = "away"
  /\ conn' = [conn EXCEPT ![r] = "asked"]
  /\ UNCHANGED <<phase, env, overdue>>

Running == {"serving", "draining", "closing"}

(* A handler takes a connection of the pool, which a closed pool refuses.     *)
Acquire(r) ==
  /\ conn[r] = "asked" /\ phase \in Running
  /\ conn' = [conn EXCEPT ![r] = IF phase = "closing" THEN "failed" ELSE "holding"]
  /\ UNCHANGED <<phase, env, overdue>>

Release(r) ==
  /\ conn[r] = "holding"
  /\ conn' = [conn EXCEPT ![r] = "released"]
  /\ UNCHANGED <<phase, env, overdue>>

Reply(r) ==
  /\ conn[r] \in {"asked", "released"} /\ phase \in Running
  /\ conn' = [conn EXCEPT ![r] = "answered"]
  /\ UNCHANGED <<phase, env, overdue>>

Signal == phase = "serving" /\ To("draining")

InDrainMutant == {"asked", "holding"}
InDrain == {"asked", "holding", "released"}

Drained == phase = "draining" /\ (\A r \in Connections : conn[r] \notin InDrain) /\ To("closing")

GraceElapses ==
  /\ phase = "draining"
  /\ phase' = "closing" /\ overdue' = TRUE
  /\ UNCHANGED <<env, conn>>

(* The pool waits for the connections that are taken; what still runs then   *)
(* ends with the process.                                                    *)
AwaitedMutant == {"asked", "holding"}
Awaited == {"holding"}

CloseDatabase ==
  /\ phase = "closing" /\ \A r \in Connections : conn[r] \notin Awaited
  /\ phase' = "stopped"
  /\ conn' = [r \in Connections |-> IF conn[r] \in {"asked", "holding", "released"} THEN "cut" ELSE conn[r]]
  /\ UNCHANGED <<env, overdue>>

LifeNext ==
  \/ ValidateStartup \/ OpenDatabase \/ Listen \/ Signal \/ Drained \/ GraceElapses \/ CloseDatabase
  \/ \E r \in Connections : Accept(r) \/ Acquire(r) \/ Release(r) \/ Reply(r)

LifeSpec == LifeInit /\ [][LifeNext]_lifeVars

(* What is fair: main goes on, the database ends what it was asked.  A handler *)
(* may hang.                                                                  *)
MainGoesOn == ValidateStartup \/ OpenDatabase \/ Listen \/ GraceElapses \/ CloseDatabase
StatementEnds == \E r \in Connections : Release(r)

-----------------------------------------------------------------------------
(* A request that the server took is cut, or refused by the pool, only when   *)
(* the grace period has elapsed, and never while it holds a connection:       *)
(* shutting down interrupts no statement (shutdown.rs,                        *)
(* serve_with_graceful_shutdown).                                             *)
CutOnlyOverdue ==
  /\ (\E r \in Connections : conn[r] \in {"cut", "failed"}) => overdue
  /\ phase = "stopped" => \A r \in Connections : conn[r] \in {"away", "answered", "cut", "failed"}

(* After a signal the process ends, whatever hangs in it, provided the        *)
(* statements under way come to an end: the grace period does not bound them, *)
(* because the pool waits for its connections (shutdown.rs, db.close).        *)
SignalStops == phase = "draining" ~> phase = "stopped"

(* A server that serves has a database and an address, reads a variable that  *)
(* it did not warn of as it was given, and the default of one it warned of    *)
(* or that is absent (config.rs, validate_startup, against the readers).      *)
SettingsAsReported ==
  phase \in Running =>
    LET attempts == env["AUTH_RATELIMIT_MAX_ATTEMPTS"]
        secure == env["SESSION_COOKIE_SECURE"]
        asGiven(v) == Present(env[v]) /\ v \notin Warnings(env)
    IN /\ Present(env["DATABASE_URL"]) /\ env["LISTEN_ADDR"] \in {Unset, "address"}
       /\ MaxAttemptsRead(attempts) = IF asGiven("AUTH_RATELIMIT_MAX_ATTEMPTS") THEN 2 ELSE 5
       /\ CookieSecure(secure) = IF asGiven("SESSION_COOKIE_SECURE") THEN secure = "true" ELSE TRUE

(* No API path answers the document, whatever the directory holds; an error   *)
(* is never kept by a cache, and the document is kept only when it stands in  *)
(* for a missing asset (webui.rs, spa_fallback and cache_policy).             *)
InterfaceBesideApi ==
  phase \in Running => \A w \in WebRequests :
    LET body == Served(env, w)
        kept == CachePolicy(w, body)
    IN /\ w.path = "api" /\ ~w.file => body = "problem"
       /\ body = "problem" => kept = "none"
       /\ body = "document" => kept = "no-cache" \/ w.path = "asset"

(* Both together: what is served is what the environment asked for.           *)
ServedAsConfigured == SettingsAsReported /\ InterfaceBesideApi
=============================================================================
