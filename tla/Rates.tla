------------------------------- MODULE Rates -------------------------------
(* Exchange rates: what a refresh stores, one rate after the other, and what  *)
(* the aggregates convert with.  Amounts are natural numbers of a grain small *)
(* enough for every division to be exact; rates are natural numbers.          *)
EXTENDS Integers, SequencesExt

CONSTANTS
  Currencies,    \* the supported codes
  Sources,       \* [base, quote, rate, asOf] lists that a source may answer
  Refreshers,    \* calls of refresh_rates that may run at once
  MaxRefreshes,  \* bound on the calls
  Requests       \* bodies of POST /exchange/aggregate

VARIABLES
  stored,        \* the table exchange_rates
  pending,       \* [Refreshers -> Seq]: the rates each call has yet to store
  refreshes,
  asked,         \* the last query, and its answer with the table as it was
  newest         \* history: for each pair, the last rate stored for its latest date

\* A body is a list of amounts in any currency; a source dates its rates.
ASSUME RatesAssumption ==
  /\ Sources \subseteq Seq([base : Currencies, quote : Currencies, rate : Nat, asOf : Nat \ {0}])
  /\ \A q \in Requests : q.amounts \in Seq([amount : Int, currency : STRING])

rateVars == <<stored, pending, refreshes, asked, newest>>

Pairs == Currencies \X Currencies
NoRate == [rate |-> 0, asOf |-> 0]
NoQuery == [op |-> "none", q |-> <<>>, body |-> <<>>]

RatesInit ==
  /\ stored = {} /\ refreshes = 0 /\ asked = NoQuery
  /\ pending = [p \in Refreshers |-> <<>>]
  /\ newest = [pair \in Pairs |-> NoRate]

-----------------------------------------------------------------------------
(* refresh_rates: a rate is positive, since ExchangeRate::new made it.       *)

Made(rates) == FlattenSeq([i \in DOMAIN rates |-> IF rates[i].rate > 0 THEN <<rates[i]>> ELSE <<>>])

Fetch(p) ==
  /\ pending[p] = <<>> /\ refreshes < MaxRefreshes
  /\ refreshes' = refreshes + 1
  /\ \E rates \in Sources : pending' = [pending EXCEPT ![p] = Made(rates)]
  /\ UNCHANGED <<stored, asked, newest>>

(* On a conflict on the pair and the date the new rate replaces the old one. *)
UpsertMutant(table, r) == {x \in table : <<x.base, x.quote>> # <<r.base, r.quote>>} \union {r}
Upsert(table, r) ==
  {x \in table : <<x.base, x.quote, x.asOf>> # <<r.base, r.quote, r.asOf>>} \union {r}

StoreRate(p) ==
  /\ pending[p] # <<>>
  /\ LET r == Head(pending[p]) IN
       /\ stored' = Upsert(stored, r)
       /\ newest' = IF r.asOf >= newest[<<r.base, r.quote>>].asOf
                    THEN [newest EXCEPT ![<<r.base, r.quote>>] = [rate |-> r.rate, asOf |-> r.asOf]]
                    ELSE newest
  /\ pending' = [pending EXCEPT ![p] = Tail(@)]
  /\ UNCHANGED <<refreshes, asked>>

(* A statement fails: what was stored stays, the rest is dropped. *)
StorageFails(p) ==
  /\ pending[p] # <<>>
  /\ pending' = [pending EXCEPT ![p] = <<>>]
  /\ UNCHANGED <<stored, refreshes, asked, newest>>

-----------------------------------------------------------------------------
(* The last rate of each pair, and the conversions with it. *)

AllLatest(table) ==
  {r \in table : \A x \in table : <<x.base, x.quote>> = <<r.base, r.quote>> => x.asOf <= r.asOf}

LoadRateTable == AllLatest(stored)

(* One for a currency into itself, without date. *)
DatedRate(table, base, quote) ==
  IF base = quote THEN {[rate |-> 1, asOf |-> 0]}
  ELSE {[rate |-> r.rate, asOf |-> r.asOf] : r \in {x \in table : x.base = base /\ x.quote = quote}}

(* The converted amount, or nothing: no rate is inverted, none composed.     *)
ConvertDated(amount, target, table) ==
  {[amount |-> amount.amount * r.rate, asOf |-> r.asOf] :
     r \in DatedRate(table, amount.currency, target)}

IsMoney(m) == m.amount >= 0 /\ m.currency \in Currencies

(* The sum of what converts, its oldest date, and how much did not.          *)
AggregateConverted(amounts, target, table) ==
  LET done == [i \in DOMAIN amounts |-> ConvertDated(amounts[i], target, table)]
      kept == {i \in DOMAIN amounts : done[i] # {}}
      dates == {c.asOf : c \in UNION {done[i] : i \in kept}} \ {0}
  IN [total |-> SumFunction([i \in kept |-> (CHOOSE c \in done[i] : TRUE).amount]),
      converted |-> Cardinality(kept),
      excluded |-> Len(amounts) - Cardinality(kept),
      complete |-> Len(amounts) = Cardinality(kept),
      asOf |-> IF dates = {} THEN 0 ELSE Min(dates)]

Unreadable == [total |-> 0, converted |-> 0, excluded |-> 0, complete |-> FALSE, asOf |-> 0]

AggregateConvertedHandler(req) ==
  IF req.target \notin Currencies \/ \E i \in DOMAIN req.amounts : ~IsMoney(req.amounts[i])
  THEN Unreadable
  ELSE AggregateConverted(req.amounts, req.target, LoadRateTable)

(* A read of the rates, between any two steps of the refreshes.              *)
Ask(op, q, body) ==
  /\ asked' = [op |-> op, q |-> q, body |-> body]
  /\ UNCHANGED <<stored, pending, refreshes, newest>>

RatesNext ==
  /\ asked = NoQuery
  /\ \/ \E p \in Refreshers : Fetch(p) \/ StoreRate(p) \/ StorageFails(p)
     \/ \E q \in Requests : Ask("aggregate", q, AggregateConvertedHandler(q))

-----------------------------------------------------------------------------
(* Whatever the order in which refreshes store their rates, and wherever one  *)
(* of them stops, the conversions use the rate of the latest date ever stored *)
(* for the pair, the last one stored for that date (storage/exchange_rates.rs,*)
(* upsert and all_latest).                                                    *)
NewestRateUsed ==
  \A pair \in Pairs :
    {[rate |-> r.rate, asOf |-> r.asOf] : r \in {x \in LoadRateTable : <<x.base, x.quote>> = pair}}
      = IF newest[pair] = NoRate THEN {} ELSE {newest[pair]}

(* A total never passes over an amount in silence: it is the sum, at the      *)
(* newest rates, of the amounts whose pair has one, as old as the oldest of   *)
(* them, and it is complete exactly when every pair has one: no rate is       *)
(* inverted or composed of two (core/exchange.rs, aggregate_converted;        *)
(* server/exchange.rs, aggregate_converted_handler).                          *)
TotalsAreHonest ==
  asked.op = "aggregate" =>
    LET req == asked.q
        answer == asked.body
        rateOf(m) == IF m.currency = req.target THEN [rate |-> 1, asOf |-> 0]
                     ELSE newest[<<m.currency, req.target>>]
        known == {i \in DOMAIN req.amounts : rateOf(req.amounts[i]).rate > 0}
        dated == {i \in known : req.amounts[i].currency # req.target}
    IN answer # Unreadable =>
         /\ answer.total = SumFunction([i \in known |-> req.amounts[i].amount * rateOf(req.amounts[i]).rate])
         /\ answer.converted + answer.excluded = Len(req.amounts)
         /\ answer.complete <=> known = DOMAIN req.amounts
         /\ answer.asOf = IF dated = {} THEN 0 ELSE Min({rateOf(req.amounts[i]).asOf : i \in dated})

(* Both together: a conversion is honest, at the newest rates.                *)
ConversionsAreExact == NewestRateUsed /\ TotalsAreHonest
=============================================================================
