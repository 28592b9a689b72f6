----------------------------- MODULE Statistics -----------------------------
(* The two statistics of a household, computed from its rows with the last    *)
(* rates: the cost of each of the last months, and today's cost by category   *)
(* and by payer.  Amounts are in grains, Grain to one unit of a currency, so  *)
(* that the normalisation of a cycle divides exactly.                         *)
EXTENDS Rates, Calendar, SequencesExt, Sorting

CONSTANTS
  Grain,         \* 7200: every division below is exact for intervals 1, 2 and 3
  Decimals,      \* [Currencies -> Nat]
  MaxMonths,     \* MAX_MONTHS
  StatQueries    \* rows of a household, the day, what is asked, the names left

\* What the database can hold: a label and an identifier are numbers.
IsPriced(r) ==
  /\ r.id \in Nat /\ r.amount \in Int /\ r.interval \in Nat /\ r.active \in BOOLEAN
  /\ r.first \in Days /\ r.end \in Days \cup {None} /\ r.trial \in Days \cup {None}
  /\ r.category \in Nat \cup {None} /\ r.payer \in Nat \cup {None}
ArePriced(rows) ==
  /\ IsFiniteSet(rows) /\ \A r \in rows : IsPriced(r)
  /\ \A r, x \in rows : r.id = x.id => r = x

\* The calendar starts before any series, and an amount is rounded to whole grains.
ASSUME StatisticsAssumption ==
  /\ \A c \in Currencies : Grain \div 10 ^ Decimals[c] \in Nat \ {0}
  /\ \A q \in StatQueries :
       /\ ArePriced(q.rows) /\ q.months \in Nat
       /\ q.today \in Days /\ MonthOf(q.today) + 1 >= FirstMonth + MaxMonths
  /\ MaxMonths \in Nat

StatUnits == {"day", "week", "month", "year"}

Refusal == [points |-> <<>>, complete |-> FALSE, refused |-> TRUE]

-----------------------------------------------------------------------------
(* core/money.rs and core/stats.rs *)

(* Half to even, at a number of decimals. *)
RoundTo(amount, decimals) ==
  LET step == Grain \div 10 ^ decimals
      low == amount \div step
      rest == 2 * (amount % step)
      up == rest > step \/ (rest = step /\ low % 2 = 1)
  IN step * (low + IF up THEN 1 ELSE 0)

MonthlyCost(amount, unit, interval) ==
  IF unit = "day" THEN (amount * 30) \div interval
  ELSE IF unit = "week" THEN ((amount * 435) \div 100) \div interval
  ELSE IF unit = "month" THEN amount \div interval
  ELSE amount \div (12 * interval)

YearlyCost(amount, unit, interval) == 12 * MonthlyCost(amount, unit, interval)

(* A span counts in a month that it meets. *)
Meets(span, first, last) == span.start <= last /\ (span.end = None \/ span.end >= first)

LastOfMonth(m) == MonthStart[m] + MonthLength(m) - 1

MonthlyCostEvolution(spans, anchor, months) ==
  [k \in 1 .. months |->
     LET m == MonthOf(anchor) - (months - k) IN
     [month |-> m, total |-> SumFunction([s \in {x \in spans : Meets(x, MonthStart[m], LastOfMonth(m))}
                                            |-> s.monthly])]]

(* Every slice is in the bucket of its key, no key being a key.  The heaviest *)
(* bucket comes first, then the one of more slices, then the lower key.       *)
KeysOf(slices) == {s.key : s \in slices}

Heavier(p, q) ==
  \/ p.total > q.total
  \/ p.total = q.total /\ p.count > q.count
  \/ p.total = q.total /\ p.count = q.count /\ p.key # None /\ (q.key = None \/ p.key < q.key)

Repartition(slices) ==
  LET bucket(k) == {s \in slices : s.key = k}
      shares == {[key |-> k, count |-> Cardinality(bucket(k)),
                  total |-> SumFunction([s \in bucket(k) |-> s.monthly])] : k \in KeysOf(slices)}
  IN Sorted(shares, {pair \in shares \X shares : Heavier(pair[1], pair[2])})

-----------------------------------------------------------------------------
(* server/statistics.rs.  A row that cannot be read or converted is left out. *)

MonthlyInTarget(row, target) ==
  IF ~IsMoney(row) \/ row.unit \notin StatUnits \/ row.interval = 0 THEN {}
  ELSE {c.amount : c \in ConvertDated(
          [amount |-> MonthlyCost(row.amount, row.unit, row.interval), currency |-> row.currency],
          target, LoadRateTable)}

(* The cost starts after the trial. *)
StartMutant(row) == row.first
Start(row) == IF row.trial # None /\ row.trial > row.first THEN row.trial ELSE row.first

Active(rows) == {r \in rows : r.active}

(* ?currency=, an empty one being absent, or the currency of the household.  *)
Target(q) == IF q.currency = "" THEN q.reference ELSE q.currency

CostIn(row, target) == CHOOSE c \in MonthlyInTarget(row, target) : TRUE

Spans(q) ==
  {[id |-> r.id, start |-> Start(r), end |-> r.end, monthly |-> CostIn(r, Target(q))] :
     r \in {x \in Active(q.rows) : MonthlyInTarget(x, Target(q)) # {}}}

Rounded(points, decimals) == [k \in DOMAIN points |-> [points[k] EXCEPT !.total = RoundTo(@, decimals)]]

GetCostEvolution(q) ==
  IF q.months = 0 \/ q.months > MaxMonths \/ Target(q) \notin Currencies THEN Refusal
  ELSE [points |-> Rounded(MonthlyCostEvolution(Spans(q), q.today, q.months), Decimals[Target(q)]),
        complete |-> Cardinality(Spans(q)) = Cardinality(Active(q.rows)), refused |-> FALSE]

LiveRows(rows, today) ==
  {r \in Active(rows) : (r.end = None \/ r.end >= today) /\ (r.trial = None \/ today >= r.trial)}

(* A key without a name, or no key at all, has no label. *)
Entries(shares, names, decimals) ==
  [k \in DOMAIN shares |-> [label |-> IF shares[k].key \in names THEN shares[k].key ELSE None,
                            total |-> RoundTo(shares[k].total, decimals), count |-> shares[k].count]]

Convertible(q) == {r \in LiveRows(q.rows, q.today) : MonthlyInTarget(r, Target(q)) # {}}
Slices(q, axis) ==
  {[id |-> r.id, key |-> r[axis], monthly |-> CostIn(r, Target(q))] : r \in Convertible(q)}

SumTotals(shares) == SumFunction([k \in DOMAIN shares |-> shares[k].total])

(* The names are read after the rows: a category may be gone meanwhile.      *)
GetRepartition(q) ==
  LET decimals == Decimals[Target(q)]
      categories == Repartition(Slices(q, "category"))
      payers == Repartition(Slices(q, "payer"))
  IN IF Target(q) \notin Currencies THEN Refusal
     ELSE [total |-> RoundTo(SumTotals(categories), decimals), refused |-> FALSE,
           complete |-> Convertible(q) = LiveRows(q.rows, q.today),
           byCategory |-> Entries(categories, q.categories, decimals),
           byPayer |-> Entries(payers, q.payers, decimals)]

(* The page of the statistics asks for both. *)
GetStatistics ==
  /\ asked = NoQuery
  /\ \E q \in StatQueries : Ask("statistics", q, [series |-> GetCostEvolution(q), shares |-> GetRepartition(q)])

-----------------------------------------------------------------------------
(* The reference: a row costs on a day when it is active, paid for, not ended *)
(* and out of its trial.                                                      *)
Chargeable(r, d) == (r.end = None \/ d <= r.end) /\ (r.trial = None \/ d >= r.trial)
CostsOn(r, d) == d >= r.first /\ Chargeable(r, d)

SumCounts(entries) == SumFunction([k \in DOMAIN entries |-> entries[k].count])

(* It ends before it costs anything, in one month: when a trial is cancelled. *)
EndsUnpaid(r, month) == r.end \in month /\ Start(r) \in month /\ r.end < Start(r)

Near(a, b, gap) == 2 * a <= 2 * b + gap /\ 2 * b <= 2 * a + gap

(* Both axes of a repartition spread the same subscriptions, each in one      *)
(* bucket, also when it has no category or lost it between the reads; the     *)
(* shares that are shown add up to the total that is shown but for half a     *)
(* step per rounding; an incomplete answer says so (server/statistics.rs,     *)
(* get_repartition; core/stats.rs, repartition).                              *)
RepartitionAddsUp ==
  asked.op = "statistics" =>
    LET q == asked.q
        answer == asked.body.shares
        live == {r \in q.rows : r.active /\ Chargeable(r, q.today)}
        step == Grain \div 10 ^ Decimals[Target(q)]
        within(entries) == Near(SumTotals(entries), answer.total, step * (Len(entries) + 1))
    IN ~answer.refused =>
         /\ SumCounts(answer.byCategory) = SumCounts(answer.byPayer)
         /\ answer.complete <=> SumCounts(answer.byCategory) = Cardinality(live)
         /\ within(answer.byCategory) /\ within(answer.byPayer)
         /\ \A i \in 1 .. Len(answer.byPayer) - 1 : answer.byPayer[i].total >= answer.byPayer[i + 1].total

(* A month of the series costs what the subscriptions that cost on one of its *)
(* days cost, neither more because of what is active today nor less because   *)
(* of what has ended since; the free trial costs nothing, but in the month    *)
(* where it would end when the subscription was ended earlier in that month   *)
(* (server/statistics.rs, get_cost_evolution; core/stats.rs,                  *)
(* monthly_cost_evolution: the window is not seen to be empty).               *)
EvolutionIsHistory ==
  asked.op = "statistics" =>
    LET q == asked.q
        answer == asked.body.series
        cost(r) == IF MonthlyInTarget(r, Target(q)) = {} THEN 0 ELSE CostIn(r, Target(q))
    IN ~answer.refused =>
         /\ Len(answer.points) = q.months
         /\ \A k \in DOMAIN answer.points :
              LET m == answer.points[k].month
                  month == MonthStart[m] .. LastOfMonth(m)
                  rows == {r \in q.rows : r.active /\ ((\E d \in month : CostsOn(r, d)) \/ EndsUnpaid(r, month))}
              IN /\ m = MonthOf(q.today) - q.months + k
                 /\ answer.points[k].total = RoundTo(SumFunction([r \in rows |-> cost(r)]), Decimals[Target(q)])

(* The two statistics agree: when every subscription has started, today's     *)
(* total is no more than the last month of the series, and a series that is   *)
(* complete leaves no partial repartition (server/statistics.rs).             *)
StatisticsAgree ==
  asked.op = "statistics" =>
    LET q == asked.q
        series == asked.body.series
        shares == asked.body.shares
    IN ~series.refused =>
         /\ (\A r \in q.rows : r.first <= q.today) =>
              shares.total <= series.points[q.months].total
         /\ series.complete => shares.complete

(* The three together: each statistic is exact, and they agree.               *)
StatisticsAreExact == RepartitionAddsUp /\ EvolutionIsHistory /\ StatisticsAgree
=============================================================================
