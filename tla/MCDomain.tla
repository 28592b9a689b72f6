------------------------------ MODULE MCDomain ------------------------------
(* The parts without shared state, for TLC: the device and the feed, the      *)
(* outbox, the schedule, the rates with what is computed from them, and the   *)
(* process.  One of them, the focus, moves in a behaviour, and the states add *)
(* up instead of multiplying.                                                 *)
EXTENDS OfflineClient, Outbox, Listing, Lifecycle, TLC

VARIABLE focus

-----------------------------------------------------------------------------
(* Schedule, from 1 January 2024 (day 0) to 31 December 2025 (day 730).       *)

MCNextDueQueries ==
  [first : {None, 29, 30, 59}, unit : Units \cup {"never"}, interval : {0, 1, 2, 31},
   after : {None, 0, 29, 30, 59, 60, 90, 425, 730}]

Row(id, first, unit, interval, end, trial, active, lead) ==
  [id |-> id, first |-> first, unit |-> unit, interval |-> interval, end |-> end,
   trial |-> trial, active |-> active, lead |-> lead]
MCHouses ==
  {{Row(1, 30, "month", 1, end, trial, TRUE, 3), other} :
     end \in {None, 58, 59}, trial \in {None, 30, 60},
     other \in {Row(2, 30, "week", 1, None, None, TRUE, 7), Row(2, 59, "day", 1, None, None, TRUE, 7),
                Row(2, 59, "week", 1, None, None, FALSE, 7)}}
MCUpcomingQueries == [rows : MCHouses, from : {None, 28, 30, 59}, days : {0, 1, 30, 32}]
                     \cup [rows : MCHouses, from : {725}, days : {3, 30}]
MCReminderQueries == [rows : MCHouses, today : {0, 28, 57}]

-----------------------------------------------------------------------------
(* Rates, statistics and list: a rate that is refused, a pair that is only    *)
(* known the other way round, one that is revised.                            *)

Rate(base, quote, rate, asOf) == [base |-> base, quote |-> quote, rate |-> rate, asOf |-> asOf]
MCSources == {
  <<Rate("USD", "EUR", 2, 1), Rate("JPY", "EUR", 3, 1)>>,
  <<Rate("USD", "EUR", 4, 2), Rate("EUR", "USD", 0, 2)>>,
  <<Rate("EUR", "JPY", 5, 2), Rate("JPY", "EUR", 1, 2)>>}
Amount(amount, currency) == [amount |-> amount, currency |-> currency]
MCRequests ==
  [target : {"EUR", "USD", "XXX"},
   amounts : {<<Amount(1, "USD"), Amount(10, "EUR"), Amount(100, other)>> : other \in {"JPY", "USD", "YYY"}}]
  \cup [target : {"EUR"}, amounts : {<<>>}]
MCDecimals == [EUR |-> 2, USD |-> 2, JPY |-> 0]

\* 1 space, 2 e, 3 o, 4 E, 5 e with an acute accent, 6 the ligature oe, 7 a lone accent.
MCFolding == <<<<1>>, <<2>>, <<3>>, <<2>>, <<2>>, <<3, 2>>, <<>>>>
Sub(id, amount, currency, unit, interval, first, end, trial, category, active) ==
  [id |-> id, amount |-> amount, currency |-> currency, unit |-> unit, interval |-> interval,
   first |-> first, end |-> end, trial |-> trial, category |-> category, active |-> active,
   payer |-> IF id = 1 THEN 7 ELSE None, lead |-> 3,
   name |-> CASE id = 1 -> <<4, 3>> [] id = 2 -> <<5, 7>> [] OTHER -> <<6>>, notes |-> IF id = 9 THEN <<5>> ELSE <<>>]
MCStatRows == {
  {Sub(1, 7236, "EUR", cycle[1], cycle[2], 10, end, IF end = 74 THEN 80 ELSE None, 1, TRUE),
   Sub(2, 36036, "USD", "month", 1, 45, None, trial, None, TRUE),
   Sub(3, 720000, "JPY", "year", 1, 20, None, None, 2, TRUE),
   Sub(9, 7200, "EUR", "month", 1, 0, None, None, 1, FALSE)} :
  cycle \in {<<"day", 3>>, <<"week", 2>>, <<"month", 2>>, <<"never", 1>>, <<"month", 0>>},
  end \in {None, 40, 74}, trial \in {None, 65, 80}}
MCStatQueries ==
  [rows : MCStatRows, today : {75}, months : {3}, currency : {""}, reference : {"EUR"},
   categories : {{1}}, payers : {{7}}]
  \cup [rows : {CHOOSE one \in MCStatRows : TRUE}, today : {75}, months : {0, 1, 4}, currency : {"USD", "XXX"},
        reference : {"EUR"}, categories : {{1}}, payers : {{7}}]
MCListRows == {some \in MCStatRows : (\E r \in some : r.trial = 80) /\ \E r \in some : r.id = 1 /\ r.end = None}
MCListQueries ==
  [rows : MCListRows, today : {75}, currency : {""}, reference : {"EUR"}, category : {None},
   payer : {None}, active : {None}, search : {<<1>>, <<2>>, <<7>>, <<3, 2>>}]
  \cup [rows : MCListRows, today : {75}, currency : {"XXX", "USD"}, reference : {"EUR"}, category : {None, 1},
        payer : {7}, active : {None, TRUE}, search : {<<>>}]

-----------------------------------------------------------------------------
(* The process: every value of the address, and of two more variables.        *)

Given(url, address, interface, secure, attempts) ==
  [DATABASE_URL |-> url, LISTEN_ADDR |-> address, WEBUI_DIR |-> interface,
   SESSION_COOKIE_SECURE |-> secure, AUTH_RATELIMIT_MAX_ATTEMPTS |-> attempts]
MCEnvironments ==
  {Given("text", address, interface, secure, attempts) :
     address \in {Unset, "empty", "address", "text"}, interface \in {Unset, "text"},
     secure \in {Unset, "false", "text"}, attempts \in {"empty", "two", "zero"}}
  \cup {Given(Unset, Unset, Unset, Unset, Unset)}
MCWebRequests == [path : {"api", "asset", "page"}, file : BOOLEAN, index : BOOLEAN]

-----------------------------------------------------------------------------
vars == <<focus, deviceVars, outboxVars, reply, rateVars, lifeVars>>

Init ==
  /\ DeviceInit /\ OutboxInit /\ ScheduleInit /\ RatesInit /\ LifeInit
  /\ focus \in {"feed", "outbox", "schedule", "rates", "process"}
  /\ focus # "feed" => rows[1] = NoRow
  /\ focus # "process" => env = Given(Unset, Unset, Unset, Unset, Unset)

OnFeed(A) == focus = "feed" /\ A /\ UNCHANGED <<focus, outboxVars, reply, rateVars, lifeVars>>
OnOutbox(A) == focus = "outbox" /\ A /\ UNCHANGED <<focus, deviceVars, reply, rateVars, lifeVars>>
OnProcess(A) == focus = "process" /\ A /\ UNCHANGED <<focus, deviceVars, outboxVars, reply, rateVars>>

Next ==
  \/ OnFeed(DeviceNext)
  \/ OnOutbox(OutboxNext)
  \/ focus = "schedule" /\ ScheduleNext /\ UNCHANGED <<focus, deviceVars, outboxVars, rateVars, lifeVars>>
  \/ focus = "rates" /\ FiguresNext
     /\ UNCHANGED <<focus, deviceVars, outboxVars, reply, lifeVars>>
  \/ OnProcess(LifeNext)

(* The focus never changes: each conjunct is one assumption per part.         *)
Fairness ==
  /\ WF_vars(OnFeed(TransactionEnds) \/ OnProcess(MainGoesOn))
  /\ WF_vars(OnFeed(DrainGoesOn) \/ OnProcess(StatementEnds))

Spec == Init /\ [][Next]_vars /\ Fairness
=============================================================================
