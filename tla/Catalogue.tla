----------------------------- MODULE Catalogue -----------------------------
(* The rows a household owns - categories, payers, payment methods,          *)
(* subscriptions - as the REST routes, the import and the export read and    *)
(* write them, with what they refer to (server/categories.rs, payers.rs,     *)
(* payment_methods.rs, subscriptions.rs, data.rs and their repositories).    *)
(*                                                                           *)
(* A route of one statement is one action.  A guarded deletion is two (the   *)
(* count, then the deletion and its tombstone, in one transaction that       *)
(* commits there), an export four, an import one per row; they are jobs.     *)
(* The keys of a creation are in Idempotency, the same rows written by a     *)
(* push in SyncPush; retention of tombstones is in ChangeFeed.               *)
EXTENDS Naturals, SequencesExt

CONSTANTS CategoryIds, PayerIds, MethodIds, SubscriptionIds,
          Owners, NoOwner, Nothing,
          NotAnId,             \* a text of an envelope that is no identifier
          Names, Blank,        \* names of categories up to case; Blank is refused
          Supported, FirstCurrency,
          FirstRows, Bundles,  \* rows at the start; envelopes clients hold
          Jobs, MaxWrites, MaxJobs, MaxStops

Ids == CategoryIds \cup PayerIds \cup MethodIds \cup SubscriptionIds
Guarded == CategoryIds \cup PayerIds
References == Ids \cup {Nothing}
Labels == CategoryIds \cup {NotAnId}   \* what an envelope calls a category

Gone == [home |-> NoOwner, name |-> Blank, ref |-> Nothing, held |-> FALSE]

ASSUME CatalogueAssumption ==
  /\ CategoryIds \cap PayerIds = {} /\ Guarded \cap (MethodIds \cup SubscriptionIds) = {}
  /\ MethodIds \cap SubscriptionIds = {}
  /\ IsFiniteSet(Ids) /\ Nothing \notin Ids /\ NotAnId \notin References /\ NoOwner \notin Owners
  /\ Names # {} /\ Blank \notin Names
  /\ FirstCurrency \in Supported

\* At the start the names of the categories are unique, and what is held is there.
ASSUME FirstRowsAssumption ==
  /\ FirstRows \in [Ids -> {Gone} \cup
       [home : Owners, name : Names \cup {Blank}, ref : References, held : BOOLEAN]]
  /\ \A c, d \in CategoryIds : c # d /\ FirstRows[c].home \in Owners /\ FirstRows[c].home = FirstRows[d].home =>
       FirstRows[c].name # FirstRows[d].name
  /\ \A s \in SubscriptionIds : FirstRows[s].held =>
       FirstRows[s].ref \in Guarded /\ FirstRows[FirstRows[s].ref].home = FirstRows[s].home

\* The envelopes that the extractor of POST /import lets through: it types the
\* fields; an identifier, a name, an amount or a date that is wrong is met row by
\* row by the handler.  valid: the fields of a subscription that are not modelled.
MethodLines == [id : MethodIds \cup {NotAnId}, name : Names \cup {Blank}]
CategoryLines == [id : Labels, name : Names \cup {Blank}]
SubscriptionLines == [id : SubscriptionIds \cup {NotAnId}, ref : References \cup {NotAnId}, valid : BOOLEAN]

ASSUME BundlesAssumption ==
  \A b \in Bundles : b \in [currency : {b.currency}, cats : Seq(CategoryLines),
                            methods : Seq(MethodLines), subs : Seq(SubscriptionLines)]

VARIABLES
  rows,       \* the four tables by identifier; held: what ref pointed to was there
  tombs,      \* tombstones: <<household, identifier>>
  currency,   \* the reference currency of each household
  job,        \* the requests of several statements
  writes, started, stops,
  envelope    \* the last export, which a client may import

catalogueVars == <<rows, tombs, currency, job, writes, started, stops, envelope>>

NoEnvelope == [currency |-> "none", cats |-> <<>>, methods |-> <<>>, subs |-> <<>>]

NoJob == [pc |-> "idle", home |-> NoOwner, id |-> Nothing, bundle |-> NoEnvelope, all |-> NoEnvelope,
          existing |-> [n \in Names |-> Nothing], map |-> [i \in Labels |-> i], before |-> {}]

CatalogueInit ==
  /\ rows = FirstRows
  /\ tombs = {}
  /\ currency = [h \in Owners |-> FirstCurrency]
  /\ job = [j \in Jobs |-> NoJob]
  /\ writes = 0 /\ started = 0 /\ stops = 0
  /\ envelope = NoEnvelope

Live(i) == rows[i] # Gone
Owned(i, home) == Live(i) /\ rows[i].home = home

NameTaken(home, name) == \E c \in CategoryIds : Owned(c, home) /\ rows[c].name = name

Write ==
  /\ writes < MaxWrites
  /\ writes' = writes + 1

-----------------------------------------------------------------------------
(* One statement each.                                                       *)

\* A row created or updated with a reference: nothing checks that ref is there.
BeingDeleted(i, home) == \E j \in Jobs : job[j].pc = "delete" /\ job[j].id = i /\ job[j].home = home
Subscription(home, ref) ==
  [home |-> home, name |-> Blank, ref |-> ref,
   held |-> ref \in Guarded /\ Owned(ref, home) /\ ~BeingDeleted(ref, home)]

\* The primary key of a table is global; the name of a category is unique in its household.
CategoryCreatableMutant(home, i, name) == name # Blank /\ ~Live(i)
CategoryCreatable(home, i, name) == name # Blank /\ ~Live(i) /\ ~NameTaken(home, name)

CreateCategory(home, i, name) ==
  /\ Write
  /\ CategoryCreatable(home, i, name)
  /\ rows' = [rows EXCEPT ![i] = [Gone EXCEPT !.home = home, !.name = name]]
  /\ UNCHANGED <<tombs, currency, job, started, stops, envelope>>

CreateEntry(home, i, name) ==
  /\ Write
  /\ i \in PayerIds \cup MethodIds /\ name # Blank /\ ~Live(i)
  /\ rows' = [rows EXCEPT ![i] = [Gone EXCEPT !.home = home, !.name = name]]
  /\ UNCHANGED <<tombs, currency, job, started, stops, envelope>>

CreateSubscription(home, i, ref) ==
  /\ Write
  /\ ~Live(i)
  /\ rows' = [rows EXCEPT ![i] = Subscription(home, ref)]
  /\ UNCHANGED <<tombs, currency, job, started, stops, envelope>>

\* The last update received stands.
UpdateSubscription(home, i, ref) ==
  /\ Write
  /\ Owned(i, home)
  /\ rows' = [rows EXCEPT ![i] = Subscription(home, ref)]
  /\ UNCHANGED <<tombs, currency, job, started, stops, envelope>>

RenameCategory(home, i, name) ==
  /\ Write
  /\ Owned(i, home) /\ name # Blank /\ (rows[i].name # name => ~NameTaken(home, name))
  /\ rows' = [rows EXCEPT ![i].name = name]
  /\ UNCHANGED <<tombs, currency, job, started, stops, envelope>>

RenameEntry(home, i, name) ==
  /\ Write
  /\ i \in PayerIds \cup MethodIds /\ Owned(i, home) /\ name # Blank
  /\ rows' = [rows EXCEPT ![i].name = name]
  /\ UNCHANGED <<tombs, currency, job, started, stops, envelope>>

\* The row and its tombstone go in one transaction.
Deleted(home, i) ==
  /\ rows' = [rows EXCEPT ![i] = Gone]
  /\ tombs' = tombs \cup {<<home, i>>}

\* A payment method and a subscription are deleted whatever refers to them.
DeleteUnguarded(home, i) ==
  /\ Write
  /\ i \notin Guarded /\ Owned(i, home)
  /\ Deleted(home, i)
  /\ UNCHANGED <<currency, job, started, stops, envelope>>

SetReferenceCurrency(home, code) ==
  /\ Write
  /\ code \in Supported
  /\ currency' = [currency EXCEPT ![home] = code]
  /\ UNCHANGED <<rows, tombs, job, started, stops, envelope>>

-----------------------------------------------------------------------------
(* Jobs.                                                                     *)

JobAt(j, pc) == job[j].pc = pc
Start(j, first) ==
  /\ JobAt(j, "idle")
  /\ started < MaxJobs
  /\ started' = started + 1
  /\ job' = [job EXCEPT ![j] = first]

\* DELETE of a category or a payer: the subscriptions of the household that refer
\* to it are counted; one is enough to refuse.
ReferencedMutant(home, i) == \E s \in SubscriptionIds : Owned(s, home) /\ rows[s].ref = i /\ i \in CategoryIds
Referenced(home, i) == \E s \in SubscriptionIds : Owned(s, home) /\ rows[s].ref = i

CountReferences(j, home, i) ==
  /\ i \in Guarded
  /\ ~Referenced(home, i)
  /\ Start(j, [NoJob EXCEPT !.pc = "delete", !.home = home, !.id = i])
  /\ UNCHANGED <<rows, tombs, currency, writes, stops, envelope>>

DeleteGuarded(j) ==
  /\ JobAt(j, "delete")
  /\ IF Owned(job[j].id, job[j].home)
     THEN Deleted(job[j].home, job[j].id)
     ELSE UNCHANGED <<rows, tombs>>
  /\ job' = [job EXCEPT ![j] = NoJob]
  /\ UNCHANGED <<currency, writes, started, stops, envelope>>

\* GET /export: four lists read one after the other; payers are not among them.
ExportedCategories(home) == {c \in CategoryIds : Owned(c, home)}

ExportCategories(j, home) ==
  /\ LET cats == ExportedCategories(home) IN
     Start(j, [NoJob EXCEPT !.pc = "export_methods", !.home = home, !.before = {i \in Ids : Live(i)},
                            !.bundle.cats = SetToSeq({[id |-> c, name |-> rows[c].name] : c \in cats})])
  /\ UNCHANGED <<rows, tombs, currency, writes, stops, envelope>>

ExportMethods(j) ==
  /\ JobAt(j, "export_methods")
  /\ job' = [job EXCEPT ![j].pc = "export_subscriptions",
                        ![j].bundle.methods = 
         SetToSeq({[id |-> m, name |-> rows[m].name] : m \in {i \in MethodIds : Owned(i, job[j].home)}})]
  /\ UNCHANGED <<rows, tombs, currency, writes, started, stops, envelope>>

RowToCreateRequest(s) == [id |-> s, ref |-> rows[s].ref, valid |-> TRUE]

ExportSubscriptions(j) ==
  /\ JobAt(j, "export_subscriptions")
  /\ job' = [job EXCEPT ![j].pc = "export_currency",
       ![j].bundle.subs = SetToSeq({RowToCreateRequest(s) : s \in {t \in SubscriptionIds : Owned(t, job[j].home)}})]
  /\ UNCHANGED <<rows, tombs, currency, writes, started, stops, envelope>>

ExportCurrency(j) ==
  /\ JobAt(j, "export_currency")
  /\ envelope' = [job[j].bundle EXCEPT !.currency = currency[job[j].home]]
  /\ job' = [job EXCEPT ![j] = NoJob]
  /\ UNCHANGED <<rows, tombs, currency, writes, started, stops>>

\* POST /import: the currency, the categories merged by name, the methods, the
\* subscriptions.  existing and map are locals of the handler: the categories by
\* name, and the identifier of the bundle to the one it stands for here.
BeginImport(j, home, bundle) ==
  /\ Start(j, [NoJob EXCEPT !.pc = "list_existing", !.home = home, !.bundle = bundle, !.all = bundle])
  /\ currency' = IF bundle.currency \in Supported THEN [currency EXCEPT ![home] = bundle.currency] ELSE currency
  /\ UNCHANGED <<rows, tombs, writes, stops, envelope>>

ListExisting(j) ==
  /\ JobAt(j, "list_existing")
  /\ LET here(n) == {c \in CategoryIds : Owned(c, job[j].home) /\ rows[c].name = n} IN
     job' = [job EXCEPT ![j].pc = "import_categories",
       ![j].existing = [n \in Names |-> IF here(n) = {} THEN Nothing ELSE CHOOSE c \in here(n) : TRUE]]
  /\ UNCHANGED <<rows, tombs, currency, writes, started, stops, envelope>>

\* A known name is reused, whatever the line calls it; else the category is created
\* under its own identifier, or rejected (no identifier, no name, an identifier that
\* is taken), or found to exist since the listing (and then not mapped).
RemappedMutant(map, from, to) == map
Remapped(map, from, to) == [map EXCEPT ![from] = to]

ImportCategory(j) ==
  /\ JobAt(j, "import_categories") /\ job[j].bundle.cats # <<>>
  /\ LET c == Head(job[j].bundle.cats)
         home == job[j].home
         known == IF c.name = Blank THEN Nothing ELSE job[j].existing[c.name]
     IN IF known # Nothing
        THEN /\ job' = [job EXCEPT ![j].bundle.cats = Tail(@), ![j].map = Remapped(@, c.id, known)]
             /\ UNCHANGED rows
        ELSE IF c.id # NotAnId /\ CategoryCreatable(home, c.id, c.name)
        THEN /\ rows' = [rows EXCEPT ![c.id] = [Gone EXCEPT !.home = home, !.name = c.name]]
             /\ job' = [job EXCEPT ![j].bundle.cats = Tail(@), ![j].existing[c.name] = c.id]
        ELSE /\ job' = [job EXCEPT ![j].bundle.cats = Tail(@)]
             /\ UNCHANGED rows
  /\ UNCHANGED <<tombs, currency, writes, started, stops, envelope>>

\* A line is rejected for its identifier or its name, or because it is taken.
ImportMethod(j) ==
  /\ JobAt(j, "import_categories") /\ job[j].bundle.cats = <<>> /\ job[j].bundle.methods # <<>>
  /\ LET m == Head(job[j].bundle.methods) IN
     rows' = IF m.id = NotAnId \/ m.name = Blank \/ Live(m.id) THEN rows
             ELSE [rows EXCEPT ![m.id] = [Gone EXCEPT !.home = job[j].home, !.name = m.name]]
  /\ job' = [job EXCEPT ![j].bundle.methods = Tail(@)]
  /\ UNCHANGED <<tombs, currency, writes, started, stops, envelope>>

\* A reference that is no category of the bundle is kept as it is.
MappedRef(map, ref) == IF ref \in Labels THEN map[ref] ELSE ref

\* A line that can be stored: identifiers, once mapped, and fields that are valid.
\* Any other is rejected with its reason, and the import goes on.
Sound(map, s) == s.id # NotAnId /\ s.valid /\ MappedRef(map, s.ref) # NotAnId

ImportSubscription(j) ==
  /\ JobAt(j, "import_categories") /\ job[j].bundle.cats = <<>> /\ job[j].bundle.methods = <<>>
  /\ job[j].bundle.subs # <<>>
  /\ LET s == Head(job[j].bundle.subs) IN
     rows' = IF ~Sound(job[j].map, s) \/ Live(s.id) THEN rows
             ELSE [rows EXCEPT ![s.id] = Subscription(job[j].home, MappedRef(job[j].map, s.ref))]
  /\ job' = [job EXCEPT ![j].bundle.subs = Tail(@)]
  /\ UNCHANGED <<tombs, currency, writes, started, stops, envelope>>

ImportAnswers(j) ==
  /\ JobAt(j, "import_categories")
  /\ job[j].bundle.cats = <<>> /\ job[j].bundle.methods = <<>> /\ job[j].bundle.subs = <<>>
  /\ job' = [job EXCEPT ![j] = NoJob]
  /\ UNCHANGED <<rows, tombs, currency, writes, started, stops, envelope>>

\* A statement fails (500), the connection ends or the process stops: what was
\* committed stays, the transaction of a deletion is rolled back.
StopJob(j) ==
  /\ ~JobAt(j, "idle")
  /\ stops < MaxStops
  /\ stops' = stops + 1
  /\ job' = [job EXCEPT ![j] = NoJob]
  /\ UNCHANGED <<rows, tombs, currency, writes, started, envelope>>

StatementOf(home) ==
  \/ \E i \in CategoryIds, n \in Names : CreateCategory(home, i, n) \/ RenameCategory(home, i, n)
  \/ \E i \in PayerIds \cup MethodIds, n \in Names : CreateEntry(home, i, n) \/ RenameEntry(home, i, n)
  \/ \E i \in SubscriptionIds, r \in References \ SubscriptionIds :
       CreateSubscription(home, i, r) \/ UpdateSubscription(home, i, r)
  \/ \E i \in MethodIds \cup SubscriptionIds : DeleteUnguarded(home, i)
  \/ \E code \in Supported : SetReferenceCurrency(home, code)

JobStep(j) ==
  \/ \E home \in Owners, i \in Guarded : CountReferences(j, home, i)
  \/ DeleteGuarded(j)
  \/ \E home \in Owners : ExportCategories(j, home)
  \/ ExportMethods(j) \/ ExportSubscriptions(j) \/ ExportCurrency(j)
  \/ \E home \in Owners, b \in Bundles \cup ({envelope} \ {NoEnvelope}) : BeginImport(j, home, b)
  \/ ListExisting(j) \/ ImportCategory(j) \/ ImportMethod(j) \/ ImportSubscription(j) \/ ImportAnswers(j)
  \/ StopJob(j)

CatalogueNext == (\E home \in Owners : StatementOf(home)) \/ \E j \in Jobs : JobStep(j)

CatalogueSpec == CatalogueInit /\ [][CatalogueNext]_catalogueVars

-----------------------------------------------------------------------------
(* Properties.                                                               *)

\* The values of the variables; no two categories of a household share a name.
CatalogueTypeOK ==
  /\ \A i \in Ids : Live(i) => rows[i].home \in Owners /\ rows[i].ref \in References
  /\ \A c, d \in CategoryIds : c # d /\ Live(c) /\ Live(d) => rows[c].home # rows[d].home \/ rows[c].name # rows[d].name
  /\ tombs \subseteq Owners \X Ids
  /\ currency \in [Owners -> Supported]

\* A category or a payer is never removed from under a subscription: a reference
\* that pointed to a row of the household when it was written, with no deletion of
\* that row past its count, points to it as long as it stands (the count of delete,
\* storage/categories.rs and payers.rs; a reference itself is checked by nothing).
HeldReferencesStay ==
  \A s \in SubscriptionIds : Live(s) /\ rows[s].held => Owned(rows[s].ref, rows[s].home)

\* What a household no longer has, it deleted: a row leaves its household only
\* with a tombstone of that household, whatever the route and whoever asks
\* (delete, the four repositories).
DeletedByItsOwner ==
  \A i \in Ids : Live(i) /\ rows[i]' # rows[i] =>
        \/ rows'[i].home = rows[i].home
        \/ rows'[i] = Gone /\ <<rows[i].home, i>> \in tombs'

\* The merge by name keeps the links: a subscription that an import creates refers
\* to the category its bundle named, under the identifier that category has here,
\* when the handler listed or created it (import_data, data.rs).
ImportLinks ==
  \A j \in Jobs : JobAt(j, "import_categories") /\ job'[j].bundle.subs # job[j].bundle.subs =>
        \A s \in SubscriptionIds, n \in DOMAIN job[j].all.cats :
          LET c == job[j].all.cats[n] IN
          /\ ~Live(s) /\ rows'[s] # Gone
          /\ Head(job[j].bundle.subs).ref = c.id
          /\ c.name # Blank /\ job[j].existing[c.name] # Nothing
          => rows'[s].ref = job[j].existing[c.name]

\* An import that answers has lost no subscription in silence, whatever lines before
\* it were rejected: each that can be stored is, by this import or by one that
\* stopped half way before it, or its identifier was taken, or it was deleted since
\* (import_data, data.rs).
ImportCompletes ==
  \A j \in Jobs : JobAt(j, "import_categories") /\ job'[j] = NoJob /\ stops' = stops =>
        \A n \in DOMAIN job[j].all.subs : LET s == job[j].all.subs[n] IN
          Sound(job[j].map, s) => Live(s.id) \/ \E home \in Owners : <<home, s.id>> \in tombs

\* An export misses no link: a category that was there from before the export to
\* its end is in it, so that no exported subscription refers to one left out
\* (export_data, data.rs: four reads, no transaction).
ExportHolds ==
  \A j \in Jobs : JobAt(j, "export_currency") /\ job'[j] = NoJob /\ envelope' # envelope =>
        \A c \in CategoryIds \cap job[j].before : Owned(c, job[j].home) /\ (\A home \in Owners : <<home, c>> \notin tombs) =>
           \E n \in DOMAIN envelope'.cats : envelope'.cats[n].id = c

\* The three together: an envelope loses neither a subscription nor a link, on
\* its way out and on its way in.
TransfersKeep == [][ImportLinks /\ ImportCompletes /\ ExportHolds]_catalogueVars
=============================================================================
