------------------------------ MODULE Schedule ------------------------------
(* The due dates of subscriptions: the search of the next one, the schedule  *)
(* of a window and the reminders of a day.  A date is the number of days      *)
(* since the first day of the calendar; the calendar ends, as NaiveDate does. *)
EXTENDS Calendar, SequencesExt, Sorting

CONSTANTS
  Unprocessable, \* the answer 422
  MaxU32,               \* the greatest u32
  MaxSteps,             \* MAX_STEPS
  MaxWindow,            \* MAX_WINDOW_DAYS
  NextDueQueries,       \* bodies of POST /schedule/next-due
  UpcomingQueries,      \* rows of a household and queries of GET /schedule/upcoming
  ReminderQueries       \* rows of a household and the day of GET /reminders

\* What the database and the query strings can hold.
IsRow(r) ==
  /\ r.id \in Nat /\ r.first \in Days /\ r.end \in Days \cup {None} /\ r.trial \in Days \cup {None}
  /\ r.interval \in Nat /\ r.lead \in Nat /\ r.active \in BOOLEAN
IsHouse(rows) ==
  /\ IsFiniteSet(rows) /\ \A r \in rows : IsRow(r)
  /\ \A r, x \in rows : r.id = x.id => r = x

ASSUME ScheduleAssumption ==
  /\ MaxU32 \in Nat /\ MaxSteps \in Nat /\ MaxWindow \in Nat /\ Unprocessable \notin Int
  /\ \A q \in NextDueQueries :
       q.first \in Days \cup {None} /\ q.after \in Days \cup {None} /\ q.interval \in Nat
  /\ \A q \in UpcomingQueries : IsHouse(q.rows) /\ q.from \in Days \cup {None} /\ q.days \in Nat
  /\ \A q \in ReminderQueries : IsHouse(q.rows) /\ q.today \in Days

VARIABLE reply          \* the last answer, with what was asked; None before

-----------------------------------------------------------------------------
(* core/schedule.rs *)

CheckedMul(a, b) == IF a * b > MaxU32 THEN None ELSE a * b

(* The k-th occurrence, from the anchor and not from the one before. *)
Occurrence(anchor, cycle, k) ==
  LET steps == CheckedMul(cycle.interval, k)
      months == IF cycle.unit = "year" THEN CheckedMul(steps, 12) ELSE steps
  IN IF steps = None THEN None
     ELSE IF cycle.unit \in {"day", "week"}
          THEN CheckedAddDays(anchor, steps * IF cycle.unit = "week" THEN 7 ELSE 1)
     ELSE IF months = None THEN None ELSE CheckedAddMonths(anchor, months)

Occurrences(anchor, cycle) == [k \in 0 .. MaxSteps - 1 |-> Occurrence(anchor, cycle, k)]

NextDueMutant(anchor, cycle, after) ==
  LET o == Occurrences(anchor, cycle)
      stops == {k \in DOMAIN o : o[k] = None \/ o[k] >= after}
  IN IF stops = {} THEN None ELSE o[Min(stops)]

(* The loop stops at the first occurrence after the reference, at one that   *)
(* cannot be represented, or at its bound.                                   *)
NextDue(anchor, cycle, after) ==
  LET o == Occurrences(anchor, cycle)
      stops == {k \in DOMAIN o : o[k] = None \/ o[k] > after}
  IN IF stops = {} THEN None ELSE o[Min(stops)]

UpperMutant(to, end) == to
Upper(to, end) == IF end # None /\ end < to THEN end ELSE to

Lower(from, trial) == IF trial # None /\ trial > from THEN trial ELSE from

OccurrencesInRange(anchor, cycle, from, to, end, trial) ==
  LET o == Occurrences(anchor, cycle)
      stops == {k \in DOMAIN o : o[k] = None \/ o[k] > Upper(to, end)}
      last == IF stops = {} THEN MaxSteps ELSE Min(stops)
  IN {d \in {o[k] : k \in 0 .. last - 1} : d >= Lower(from, trial)}

-----------------------------------------------------------------------------
(* core/billing.rs: a cycle has a known unit and an interval above zero.     *)

Units == {"day", "week", "month", "year"}
IsCycle(unit, interval) == unit \in Units /\ interval > 0
Cycle(row) == [unit |-> row.unit, interval |-> row.interval]

(* core/subscription.rs *)
HasEnded(row, day) == row.end # None /\ day > row.end
IsInTrial(row, day) == row.trial # None /\ day < row.trial

(* The occurrence on the day or after it, no later than the end: what the    *)
(* list shows and what the reminders start from.                             *)
Preceding(day) == IF day > 0 THEN day - 1 ELSE day

NextPayment(row, today) ==
  LET next == NextDue(row.first, Cycle(row), Preceding(today))
  IN IF ~IsCycle(row.unit, row.interval) \/ next = None \/ (row.end # None /\ next > row.end) THEN None ELSE next

-----------------------------------------------------------------------------
(* core/reminders.rs and server/reminders.rs: a candidate is due when its    *)
(* lead time is exactly what is left.                                        *)

PaymentCandidates(rows, day) ==
  {c \in {[id |-> r.id, due |-> NextPayment(r, day), lead |-> r.lead, kind |-> "payment"] :
            r \in {x \in rows : x.active}} : c.due # None}

TrialCandidates(rows, day) ==
  {[id |-> r.id, due |-> r.trial, lead |-> r.lead, kind |-> "trial_ending"] :
     r \in {x \in rows : x.active /\ x.trial # None /\ x.trial >= day}}

DueRemindersMutant(candidates, day) == {c \in candidates : c.due >= day /\ c.due - day <= c.lead}
DueReminders(candidates, day) == {c \in candidates : c.due >= day /\ c.due - day = c.lead}

DueWithKind(rows, day) ==
  DueReminders(PaymentCandidates(rows, day) \union TrialCandidates(rows, day), day)

-----------------------------------------------------------------------------
(* The handlers.                                                             *)

Answer(op, q, body) == [op |-> op, q |-> q, body |-> body]

ComputeNextDue ==
  \E q \in NextDueQueries :
    reply' = Answer("next", q,
      LET next == NextDue(q.first, Cycle(q), q.after)
      IN IF q.first = None \/ q.after = None \/ ~IsCycle(q.unit, q.interval) THEN Unprocessable
         ELSE IF next = None THEN Unprocessable ELSE next)

(* By date, then name, then id: here the id, names being unique.             *)
Earlier(p, r) == p.date < r.date \/ (p.date = r.date /\ p.id < r.id)
ByDate(S) == {pair \in S \X S : Earlier(pair[1], pair[2])}

Payments(rows, from, to) ==
  UNION {{[date |-> d, id |-> r.id] :
            d \in OccurrencesInRange(r.first, Cycle(r), from, to, r.end, r.trial)} :
          r \in {x \in rows : x.active /\ IsCycle(x.unit, x.interval)}}

GetUpcomingPayments ==
  \E q \in UpcomingQueries :
    reply' = Answer("upcoming", q,
      IF q.days = 0 \/ q.days > MaxWindow \/ q.from = None THEN Unprocessable
      ELSE IF CheckedAddDays(q.from, q.days) = None THEN Unprocessable
      ELSE LET due == Payments(q.rows, q.from, q.from + q.days) IN Sorted(due, ByDate(due)))

GetReminders ==
  \E q \in ReminderQueries : reply' = Answer("reminders", q, DueWithKind(q.rows, q.today))

ScheduleInit == reply = None
ScheduleNext == reply = None /\ (ComputeNextDue \/ GetUpcomingPayments \/ GetReminders)
ScheduleSpec == ScheduleInit /\ [][ScheduleNext]_reply

-----------------------------------------------------------------------------
(* The reference: what an occurrence is, without the search.                 *)

OnCycle(anchor, cycle, d) ==
  /\ d >= anchor
  /\ IF cycle.unit = "day" THEN (d - anchor) % cycle.interval = 0
     ELSE IF cycle.unit = "week" THEN (d - anchor) % (7 * cycle.interval) = 0
     ELSE /\ (MonthOf(d) - MonthOf(anchor)) % (cycle.interval * IF cycle.unit = "year" THEN 12 ELSE 1) = 0
          /\ DayOf(d) = Min({DayOf(anchor), MonthLength(MonthOf(d)) - 1})

(* How many cycles there are from the anchor to an occurrence.               *)
Rank(anchor, cycle, d) == Cardinality({e \in anchor .. d - 1 : OnCycle(anchor, cycle, e)})

(* An occurrence the search can reach: fewer steps than its bound, and no    *)
(* product beyond 32 bits.                                                   *)
Reachable(anchor, cycle, d) ==
  LET k == Rank(anchor, cycle, d) IN
  /\ k < MaxSteps
  /\ cycle.interval * k * (IF cycle.unit = "year" THEN 12 ELSE 1) <= MaxU32

Dates(row, from, to) == {d \in from .. to : d <= LastDay /\ OnCycle(row.first, Cycle(row), d)}

(* POST /schedule/next-due answers the first occurrence after the reference   *)
(* date, at the day of the anchor or the last of a shorter month, and refuses *)
(* only a request without meaning or an occurrence out of its reach: never a  *)
(* date passed, skipped or shifted (core/schedule.rs, next_due).              *)
NextDueIsFirst ==
  reply # None /\ reply.op = "next" =>
    LET q == reply.q
        legal == q.first # None /\ q.after # None /\ IsCycle(q.unit, q.interval)
    IN IF ~legal THEN reply.body = Unprocessable
       ELSE LET later == Dates(q, q.after + 1, LastDay) IN
            IF reply.body # Unprocessable THEN later # {} /\ reply.body = Min(later)
            ELSE later = {} \/ ~Reachable(q.first, Cycle(q), Min(later))

(* The schedule of a window shows every occurrence of the active              *)
(* subscriptions in it, the ends included and what the trial makes free       *)
(* excluded, once and in the order of the dates (server/schedule.rs,          *)
(* get_upcoming_payments).                                                    *)
UpcomingIsExact ==
  reply # None /\ reply.op = "upcoming" /\ reply.body # Unprocessable =>
    LET q == reply.q
        due == UNION {{[date |-> d, id |-> r.id] : d \in {x \in Dates(r, q.from, q.from + q.days) :
                          ~HasEnded(r, x) /\ ~IsInTrial(r, x) /\ Reachable(r.first, Cycle(r), x)}} :
                        r \in {x \in q.rows : x.active /\ IsCycle(x.unit, x.interval)}}
    IN /\ ToSet(reply.body) = due /\ Len(reply.body) = Cardinality(due)
       /\ \A i, j \in DOMAIN reply.body : i < j => reply.body[i].date <= reply.body[j].date

(* For a subscription out of trial, the next payment the list shows is the    *)
(* first of the schedule: the two searches agree (server/subscriptions.rs,    *)
(* row_to_dto, and core/schedule.rs, occurrences_in_range).                   *)
ListAgreesWithSchedule ==
  reply # None /\ reply.op = "upcoming" /\ reply.body # Unprocessable =>
    \A r \in reply.q.rows :
      LET mine == {p.date : p \in {x \in ToSet(reply.body) : x.id = r.id}}
          shown == NextPayment(r, reply.q.from)
      IN r.active /\ ~IsInTrial(r, reply.q.from) /\ reply.q.from > 0 =>
           IF mine # {} THEN shown = Min(mine)
           ELSE shown = None \/ shown > reply.q.from + reply.q.days

(* Both together: the schedule is exact, and the list shows its first date.   *)
ScheduleIsExact == UpcomingIsExact /\ ListAgreesWithSchedule

(* A cron that runs every day reminds an occurrence on one day at most, its   *)
(* lead time before it; it reminds every occurrence whose predecessor is      *)
(* passed by then (core/reminders.rs, due_reminders: an exact trigger).  An   *)
(* interval no longer than the lead time is never reminded.                   *)
RemindedOnce ==
  reply # None /\ reply.op = "reminders" =>
    LET q == reply.q
        remind(r, o, day) == \E c \in DueWithKind({r}, day) : c.kind = "payment" /\ c.due = o
    IN \A r \in q.rows : \A o \in Dates(r, q.today, q.today + 40) :
         LET days == {day \in q.today .. o : remind(r, o, day)}
             clear == /\ IsCycle(r.unit, r.interval) /\ o > 0 /\ o >= q.today + r.lead /\ Dates(r, o - r.lead, o - 1) = {}
                      /\ Reachable(r.first, Cycle(r), o)
         IN /\ Cardinality(days) <= 1
            /\ r.active /\ clear /\ ~HasEnded(r, o) => days = {o - r.lead}
=============================================================================
