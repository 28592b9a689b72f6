------------------------------ MODULE Listing ------------------------------
(* GET /subscriptions: the rows of a household filtered, searched, sorted and *)
(* totalled with the last rates.  A text is a sequence of letters, which are  *)
(* natural numbers in the order of their code points.                         *)
EXTENDS Statistics, Schedule

CONSTANTS
  Space,         \* the letter that trim removes
  Folding,       \* [letters -> Seq]: without case, accent or ligature; a lone accent folds to nothing
  ListQueries    \* rows of a household, the day and the parameters

\* A letter of a folded text folds to itself: folding is idempotent.
ASSUME ListingAssumption ==
  /\ Folding \in Seq(Seq(DOMAIN Folding)) /\ Space \in DOMAIN Folding
  /\ \A c \in DOMAIN Folding : \A i \in DOMAIN Folding[c] : Folding[Folding[c][i]] = <<Folding[c][i]>>
  /\ \A q \in ListQueries :
       /\ ArePriced(q.rows) /\ IsHouse(q.rows) /\ q.today \in Days /\ q.search \in Seq(DOMAIN Folding)
       /\ \A r \in q.rows : r.name \in Seq(DOMAIN Folding)

Stored(row) == IsCycle(row.unit, row.interval)

-----------------------------------------------------------------------------
(* core/text.rs *)

FoldForSearch(text) == FlattenSeq([i \in DOMAIN text |-> Folding[text[i]]])

HasPart(text, part) == \E i \in 1 .. Len(text) : SubSeq(text, i, Len(text)) # <<>> /\ IsPrefix(part, SubSeq(text, i, Len(text)))

MatchesSearch(haystack, needle) ==
  FoldForSearch(needle) = <<>> \/ HasPart(FoldForSearch(haystack), FoldForSearch(needle))

IsBlank(text) == \A i \in DOMAIN text : text[i] = Space

-----------------------------------------------------------------------------
(* The rows of the answer: the filters hold together, an absent one excludes  *)
(* nothing; the search looks at the name and at the notes.                    *)

Filtered(q) ==
  {r \in q.rows : /\ q.category = None \/ r.category = q.category
                  /\ q.payer = None \/ r.payer = q.payer
                  /\ q.active = None \/ r.active = q.active}

Shown(q, search) ==
  {r \in Filtered(q) : IsBlank(search) \/ MatchesSearch(r.name, search) \/ MatchesSearch(r.notes, search)}

(* What the total adds: the full prices of the rows that are live. *)
ActiveAmounts(rows, today) ==
  SetToSeq({[amount |-> r.amount, currency |-> r.currency, id |-> r.id] :
              r \in {x \in LiveRows(rows, today) : IsMoney(x)}})

SortCriterion(sort) == IF sort \in {"amount", "next_due"} THEN sort ELSE "name"

(* The rates are loaded only when something needs them. *)
RatesForMutant(amounts, criterion) == IF criterion # "amount" THEN {} ELSE LoadRateTable
RatesFor(amounts, criterion) ==
  IF amounts = <<>> /\ criterion # "amount" THEN {} ELSE LoadRateTable

(* The rounded monthly cost, converted; nothing without rate or cycle.       *)
MonthlyInReference(row, target, table) ==
  IF ~IsMoney(row) \/ ~Stored(row) THEN None
  ELSE LET cost == RoundTo(MonthlyCost(row.amount, row.unit, row.interval), Decimals[row.currency])
           converted == ConvertDated([amount |-> cost, currency |-> row.currency], target, table)
       IN IF converted = {} THEN None ELSE (CHOOSE c \in converted : TRUE).amount

(* The lexicographic order of two folded names, the id after it. *)
Before(s, t) ==
  \/ IsStrictPrefix(s, t)
  \/ \E i \in DOMAIN s : i \in DOMAIN t /\ s[i] < t[i] /\ SubSeq(s, 1, i - 1) = SubSeq(t, 1, i - 1)

ByName(p, r) == Before(p.folded, r.folded) \/ (p.folded = r.folded /\ p.id < r.id)

NoneLast(a, b) == IF a = None THEN FALSE ELSE b = None \/ a < b

Precedes(criterion, p, r) ==
  LET first(a, b) ==
        \/ criterion = "amount" /\ a.cost # None /\ (b.cost = None \/ a.cost > b.cost)
        \/ criterion = "next_due" /\ NoneLast(a.due, b.due)
  IN first(p, r) \/ (~first(r, p) /\ ByName(p, r))

ListSubscriptions(q, sort) ==
  LET rows == Shown(q, q.search)
      target == Target(q)
      amounts == ActiveAmounts(rows, q.today)
      criterion == SortCriterion(sort)
      table == RatesFor(amounts, criterion)
      items == {[id |-> r.id, folded |-> FoldForSearch(r.name), due |-> NextPayment(r, q.today),
                 cost |-> IF criterion = "amount" THEN MonthlyInReference(r, target, table) ELSE None] : r \in rows}
      order == {pair \in items \X items : Precedes(criterion, pair[1], pair[2])}
  IN IF target \notin Currencies THEN [refused |-> TRUE, items |-> <<>>, total |-> Unreadable]
     ELSE [refused |-> FALSE, items |-> Sorted(items, order),
           total |-> AggregateConverted(amounts, target, table)]

(* The list of one state under each of the three criteria. *)
Criteria == {"name", "amount", "next_due"}
GetList ==
  /\ asked = NoQuery
  /\ \E q \in ListQueries : Ask("list", q, [c \in Criteria |-> ListSubscriptions(q, c)])

(* The rates and what is computed with them. *)
FiguresNext == RatesNext \/ GetStatistics \/ GetList
FiguresSpec == RatesInit /\ [][FiguresNext]_rateVars

-----------------------------------------------------------------------------
(* The criterion chooses an order and nothing else: the subscriptions and     *)
(* the total are those of the list by name, although the rates are read only  *)
(* when something seems to need them (server/subscriptions.rs,                *)
(* list_subscriptions).                                                       *)
SortKeepsTheView ==
  asked.op = "list" =>
    \A c \in Criteria :
      LET ids(answer) == {answer.items[i].id : i \in DOMAIN answer.items}
      IN /\ asked.body[c].total = asked.body["name"].total
         /\ ids(asked.body[c]) = ids(asked.body["name"])

(* In the list by date nothing without a payment to come is before something  *)
(* with one, and the dates rise; in the list by cost the costs fall, and what *)
(* has no rate is at the end (server/subscriptions.rs, sort_subscriptions).   *)
OrderIsAsAsked ==
  asked.op = "list" =>
  \A criterion \in {"amount", "next_due"} :
    LET items == asked.body[criterion].items
        key(item) == IF criterion = "amount" THEN item.cost ELSE item.due
    IN \A i, j \in DOMAIN items :
         i < j /\ key(items[j]) # None =>
           /\ key(items[i]) # None
           /\ IF criterion = "amount" THEN key(items[i]) >= key(items[j]) ELSE key(items[i]) <= key(items[j])

(* A subscription is found by its own name, however the name is accented, and *)
(* by what the name folds to (core/text.rs, matches_search).                  *)
FoundByItsName ==
  asked.op = "list" =>
  \A r \in Filtered(asked.q) :
    \A words \in {r.name, FoldForSearch(r.name)} :
      r \in Shown(asked.q, words)

(* The three together: a list shows what was asked, all of it, in its order.  *)
ListIsAsAsked == SortKeepsTheView /\ OrderIsAsAsked /\ FoundByItsName
=============================================================================
