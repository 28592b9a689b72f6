----------------------------- MODULE RateLimit -----------------------------
(* The sliding-window limit that the logins (server/auth.rs) and the test   *)
(* sends of a channel (server/notifications.rs) share: rows are counted in  *)
(* a window that ends at the instant the request captured.  Instants are    *)
(* ticks, so that what num_seconds() cuts off a duration can be seen.       *)
EXTENDS Naturals, Integers, FiniteSets

CONSTANT TicksPerSecond

ASSUME TicksAssumption == TicksPerSecond \in Nat \ {0}

NotBlocked == 0

Larger(a, b) == IF a > b THEN a ELSE b

\* min(created_at), which is null when nothing was counted.
Earliest(instants) == CHOOSE t \in instants : \A u \in instants : t <= u

\* num_seconds() truncates; fewer than one second is never answered.
WholeSeconds(ticks) == Larger(ticks, 0) \div TicksPerSecond
RetryAfter(earliest, window, now) == Larger(WholeSeconds(earliest + window - now), 1)

\* blocked_retry_after of a login: Retry-After in seconds, or NotBlocked.
BlockedRetryAfter(count, instants, now, window, max) ==
  IF count < max \/ instants = {} THEN NotBlocked ELSE RetryAfter(Earliest(instants), window, now)

\* The rows of the login limit: created_at > now - window, strictly.
InLoginWindow(at, now, window) == at > now - window

\* The rows of the limit of test sends: attempted_at >= now - window.
InTestWindow(at, now, window) == at >= now - window
=============================================================================
