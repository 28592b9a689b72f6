--------------------------- MODULE CatalogueProofs ---------------------------
(* Theorems about Catalogue, for every value of its constants.              *)
EXTENDS Catalogue, FiniteSetTheorems, SequenceTheorems, TLAPS

-----------------------------------------------------------------------------
(* What the tables and the jobs hold. *)

Row == [home : Owners, name : Names \cup {Blank}, ref : References, held : BOOLEAN]

Codes == Supported \cup {NoEnvelope.currency} \cup {b.currency : b \in Bundles}
Envelopes == [currency : Codes, cats : Seq(CategoryLines), methods : Seq(MethodLines), subs : Seq(SubscriptionLines)]

JobPlaces == {"idle", "delete", "export_methods", "export_subscriptions", "export_currency",
              "list_existing", "import_categories"}
JobRecord == [pc : JobPlaces, home : Owners \cup {NoOwner}, id : Ids \cup {Nothing}, bundle : Envelopes,
              all : Envelopes, existing : [Names -> CategoryIds \cup {Nothing}],
              map : [Labels -> Labels], before : SUBSET Ids]

CatalogueTyped ==
  /\ rows \in [Ids -> Row \cup {Gone}]
  /\ tombs \subseteq Owners \X Ids
  /\ currency \in [Owners -> Supported]
  /\ job \in [Jobs -> JobRecord]
  /\ envelope \in Envelopes

\* A job works for a household; a deletion is of what can be guarded.
JobPlaced(q) == (q.pc # "idle" => q.home \in Owners) /\ (q.pc = "delete" => q.id \in Guarded)
JobsPlaced == \A j \in Jobs : JobPlaced(job[j])

\* No two categories of a household share a name.
NamesUnique ==
  \A c, d \in CategoryIds :
    c # d /\ Live(c) /\ Live(d) => rows[c].home # rows[d].home \/ rows[c].name # rows[d].name

\* What a held reference points to can be guarded, and is there.
HeldThere ==
  \A s \in SubscriptionIds : Live(s) /\ rows[s].held =>
    rows[s].ref \in Guarded /\ Owned(rows[s].ref, rows[s].home)

\* A deletion past its count removes nothing that a reference holds.
PastCount ==
  \A j \in Jobs, s \in SubscriptionIds : JobAt(j, "delete") /\ Live(s) /\ rows[s].held =>
    ~(rows[s].ref = job[j].id /\ rows[s].home = job[j].home)

CatalogueInv == CatalogueTyped /\ JobsPlaced /\ NamesUnique /\ HeldThere /\ PastCount

-----------------------------------------------------------------------------
(* Values. *)

\* An absent row is no row and belongs to nobody.
LEMMA GoneRow == Gone \notin Row /\ Gone.home = NoOwner
  BY CatalogueAssumption DEF Gone, Row

\* A row is live exactly when it has an owner.
LEMMA RowFacts ==
  ASSUME CatalogueTyped, NEW i \in Ids
  PROVE  /\ Live(i) <=> rows[i] \in Row
         /\ Live(i) => rows[i].home \in Owners
         /\ rows[i].home \in Owners => Live(i)
<1>1. rows[i] \in Row \cup {Gone}
  BY DEF CatalogueTyped
<1>2. rows[i] \in Row => rows[i].home \in Owners
  BY DEF Row
<1>3. QED
  BY <1>1, <1>2, GoneRow, CatalogueAssumption DEF Live

\* The empty sequence is a sequence of anything.
LEMMA EmptySequence == ASSUME NEW S PROVE <<>> \in Seq(S)
  OBVIOUS

\* A row that a statement writes.
LEMMA NewRows ==
  ASSUME CatalogueTyped, NEW home \in Owners
  PROVE  /\ \A name \in Names \cup {Blank} : [Gone EXCEPT !.home = home, !.name = name] \in Row
         /\ \A ref \in References : Subscription(home, ref) \in Row
<1>1. ASSUME NEW name \in Names \cup {Blank}
      PROVE  [Gone EXCEPT !.home = home, !.name = name] \in Row
  BY DEF Gone, Row, References
<1>2. ASSUME NEW ref \in References
      PROVE  Subscription(home, ref) \in Row
  <2> DEFINE h == ref \in Guarded /\ Owned(ref, home) /\ ~BeingDeleted(ref, home)
  <2>1. h \in BOOLEAN
    OBVIOUS
  <2>2. Subscription(home, ref) = [home |-> home, name |-> Blank, ref |-> ref, held |-> h]
    BY DEF Subscription
  <2> HIDE DEF h
  <2>3. QED
    BY <2>1, <2>2 DEF Row
<1>3. QED
  BY <1>1, <1>2

\* No envelope, and what may be imported, are envelopes.
LEMMA EnvelopeValues ==
  /\ NoEnvelope \in Envelopes
  /\ Bundles \subseteq Envelopes
<1>1. NoEnvelope \in Envelopes
  BY EmptySequence DEF NoEnvelope, Envelopes, Codes
<1>2. ASSUME NEW b \in Bundles PROVE b \in Envelopes
  <2>1. {b.currency} \subseteq Codes
    BY DEF Codes
  <2>2. QED
    BY <2>1, BundlesAssumption DEF Envelopes
<1>3. QED
  BY <1>1, <1>2

\* A job at rest is a job.
LEMMA IdleJob == NoJob \in JobRecord
<1>1. [n \in Names |-> Nothing] \in [Names -> CategoryIds \cup {Nothing}] /\ [i \in Labels |-> i] \in [Labels -> Labels]
  OBVIOUS
<1>2. QED
  BY <1>1, EnvelopeValues DEF NoJob, JobRecord, JobPlaces

\* The lists of an export hold each element of the set once.
LEMMA SetToSeqLists ==
  ASSUME NEW S, IsFiniteSet(S)
  PROVE  /\ SetToSeq(S) \in Seq(S)
         /\ \A x \in S : \E n \in DOMAIN SetToSeq(S) : SetToSeq(S)[n] = x
         /\ \A m, n \in DOMAIN SetToSeq(S) : m # n => SetToSeq(S)[m] # SetToSeq(S)[n]
<1> DEFINE N == Cardinality(S)
           f == SetToSeq(S)
<1>1. N \in Nat /\ ExistsBijection(1..N, S)
  BY FS_CardinalityType
<1>2. PICK g \in [1..N -> S] : IsInjective(g)
  BY <1>1 DEF ExistsBijection, Bijection, Injection, IsInjective
<1>3. f \in [1..N -> S] /\ IsInjective(f)
  BY <1>2 DEF SetToSeq
<1>4. \A x \in S : \E n \in 1..N : f[n] = x
  <2>1. f \in Injection(1..N, S)
    BY <1>3 DEF Injection, IsInjective
  <2>2. IsFiniteSet(1..N) /\ Cardinality(1..N) = N
    BY <1>1, FS_Interval
  <2>3. f \in Surjection(1..N, S)
    BY <2>1, <2>2, FS_Injection
  <2>4. QED
    BY <2>3 DEF Surjection
<1>5. f \in Seq(S) /\ DOMAIN f = 1..N
  BY <1>1, <1>3
<1>6. QED
  BY <1>3, <1>4, <1>5 DEF IsInjective

-----------------------------------------------------------------------------
(* What a step does to the tables. *)

\* A row that is created, or updated by its household.
Written(i, r) ==
  /\ i \in Ids /\ r \in Row /\ rows' = [rows EXCEPT ![i] = r] /\ UNCHANGED tombs
  /\ Live(i) => rows[i].home = r.home
  /\ i \in CategoryIds => \A d \in CategoryIds \ {i} : Owned(d, r.home) => rows[d].name # r.name
  /\ i \in SubscriptionIds /\ r.held =>
       r.ref \in Guarded /\ Owned(r.ref, r.home) /\ ~BeingDeleted(r.ref, r.home)

\* A row that its household deletes: a guarded one by a job past its count.
Removed(home, i) ==
  /\ home \in Owners /\ i \in Ids /\ Owned(i, home) /\ Deleted(home, i)
  /\ i \in Guarded => \E j \in Jobs : JobAt(j, "delete") /\ job[j].id = i /\ job[j].home = home

TablesStep ==
  \/ UNCHANGED <<rows, tombs>>
  \/ \E i, r : Written(i, r)
  \/ \E home, i : Removed(home, i)

\* Writing a subscription of one's own keeps the tables in order.
LEMMA SubscriptionWritten ==
  ASSUME CatalogueTyped, NEW home \in Owners, NEW i \in SubscriptionIds, NEW ref \in References,
         ~Live(i) \/ Owned(i, home), rows' = [rows EXCEPT ![i] = Subscription(home, ref)], UNCHANGED tombs
  PROVE  TablesStep
<1> DEFINE r == Subscription(home, ref)
<1>1. i \in Ids /\ i \notin CategoryIds
  BY CatalogueAssumption DEF Ids, Guarded
<1>2. r \in Row /\ r.home = home
  BY NewRows DEF Subscription
<1>3. r.held => ref \in Guarded /\ Owned(ref, home) /\ ~BeingDeleted(ref, home)
  BY DEF Subscription
<1>4. r.ref = ref
  BY DEF Subscription
<1> HIDE DEF r
<1>5. Written(i, r)
  BY <1>1, <1>2, <1>3, <1>4 DEF Written, Owned, r
<1>6. QED
  BY <1>5 DEF TablesStep

\* Creating an entry under a free name keeps the tables in order.
LEMMA EntryWritten ==
  ASSUME CatalogueTyped, NEW home \in Owners, NEW name \in Names \cup {Blank}, NEW i \in Ids \ SubscriptionIds,
         ~Live(i), i \in CategoryIds => ~NameTaken(home, name),
         rows' = [rows EXCEPT ![i] = [Gone EXCEPT !.home = home, !.name = name]], UNCHANGED tombs
  PROVE  TablesStep
<1> DEFINE r == [Gone EXCEPT !.home = home, !.name = name]
<1>1. r \in Row /\ r.home = home /\ r.name = name
  BY NewRows DEF Gone
<1> HIDE DEF r
<1>2. Written(i, r)
  BY <1>1 DEF Written, NameTaken, r
<1>3. QED
  BY <1>2 DEF TablesStep

\* Renaming an entry to a free name keeps the tables in order.
LEMMA Renamed ==
  ASSUME CatalogueInv, NEW home \in Owners, NEW name \in Names, NEW i \in Ids \ SubscriptionIds,
         Owned(i, home), i \in CategoryIds /\ rows[i].name # name => ~NameTaken(home, name),
         rows' = [rows EXCEPT ![i].name = name], UNCHANGED tombs
  PROVE  TablesStep
<1> DEFINE r == [rows[i] EXCEPT !.name = name]
<1>1. CatalogueTyped /\ rows[i] \in Row /\ rows[i].home = home
  BY RowFacts DEF CatalogueInv, Owned
<1>2. r \in Row /\ r.home = home /\ r.name = name
  BY <1>1 DEF Row
<1>3. rows' = [rows EXCEPT ![i] = r]
  OBVIOUS
<1> HIDE DEF r
<1>4. ASSUME i \in CategoryIds, NEW d \in CategoryIds \ {i}, Owned(d, home)
      PROVE  rows[d].name # name
  <2>1. CASE rows[i].name = name
    BY <1>1, <1>4, <2>1 DEF CatalogueInv, NamesUnique, Owned
  <2>2. CASE rows[i].name # name
    BY <1>4, <2>2 DEF NameTaken
  <2>3. QED
    BY <2>1, <2>2
<1>5. Written(i, r)
  BY <1>1, <1>2, <1>3, <1>4 DEF Written
<1>6. QED
  BY <1>5 DEF TablesStep

\* A route of one statement keeps the tables in order and moves no job.
LEMMA StatementWrites ==
  ASSUME CatalogueInv, NEW home \in Owners, StatementOf(home)
  PROVE  TablesStep /\ UNCHANGED job /\ UNCHANGED envelope
<1> USE DEF CatalogueInv
<1>1. ASSUME NEW i \in CategoryIds, NEW n \in Names, CreateCategory(home, i, n)
      PROVE  TablesStep
  <2>1. i \in Ids \ SubscriptionIds
    BY CatalogueAssumption DEF Ids, Guarded
  <2>2. QED
    BY <1>1, <2>1, EntryWritten DEF CreateCategory, CategoryCreatable
<1>2. ASSUME NEW i \in PayerIds \cup MethodIds, NEW n \in Names, CreateEntry(home, i, n)
      PROVE  TablesStep
  <2>1. i \in Ids \ SubscriptionIds /\ i \notin CategoryIds
    BY CatalogueAssumption DEF Ids, Guarded
  <2>2. QED
    BY <1>2, <2>1, EntryWritten DEF CreateEntry
<1>3. ASSUME NEW i \in SubscriptionIds, NEW ref \in References,
             CreateSubscription(home, i, ref) \/ UpdateSubscription(home, i, ref)
      PROVE  TablesStep
  BY <1>3, SubscriptionWritten DEF CreateSubscription, UpdateSubscription
<1>4. ASSUME NEW i \in CategoryIds, NEW n \in Names, RenameCategory(home, i, n)
      PROVE  TablesStep
  <2>1. i \in Ids \ SubscriptionIds
    BY CatalogueAssumption DEF Ids, Guarded
  <2>2. QED
    BY <1>4, <2>1, Renamed DEF RenameCategory
<1>5. ASSUME NEW i \in PayerIds \cup MethodIds, NEW n \in Names, RenameEntry(home, i, n)
      PROVE  TablesStep
  <2>1. i \in Ids \ SubscriptionIds /\ i \notin CategoryIds
    BY CatalogueAssumption DEF Ids, Guarded
  <2>2. QED
    BY <1>5, <2>1, Renamed DEF RenameEntry
<1>6. ASSUME NEW i \in MethodIds \cup SubscriptionIds, DeleteUnguarded(home, i)
      PROVE  TablesStep
  <2>1. i \in Ids
    BY DEF Ids
  <2>2. QED
    BY <1>6, <2>1 DEF DeleteUnguarded, TablesStep, Removed
<1>7. ASSUME NEW code \in Supported, SetReferenceCurrency(home, code)
      PROVE  TablesStep
  BY <1>7 DEF SetReferenceCurrency, TablesStep
<1>8. TablesStep
  BY <1>1, <1>2, <1>3, <1>4, <1>5, <1>6, <1>7 DEF StatementOf, References
<1>9. QED
  BY <1>8 DEF StatementOf, CreateCategory, CreateEntry, CreateSubscription, UpdateSubscription, RenameCategory,
              RenameEntry, DeleteUnguarded, SetReferenceCurrency

-----------------------------------------------------------------------------
(* What a step does to the jobs. *)

\* The job j becomes q; it goes to a deletion only when nothing is counted.
JobBecomes(j, q) ==
  /\ q \in JobRecord /\ JobPlaced(q) /\ job' = [job EXCEPT ![j] = q]
  /\ q.pc = "delete" => UNCHANGED rows /\ ~Referenced(q.home, q.id)

\* A job that ends is at rest again.
LEMMA JobEnds ==
  ASSUME CatalogueTyped, NEW j \in Jobs, job' = [job EXCEPT ![j] = NoJob]
  PROVE  \E q : JobBecomes(j, q)
<1>1. JobBecomes(j, NoJob)
  BY IdleJob DEF JobBecomes, JobPlaced, NoJob
<1>2. QED
  BY <1>1

\* A job that is there, and where it may go on.
LEMMA JobThere ==
  ASSUME CatalogueInv, NEW j \in Jobs
  PROVE  /\ job[j] \in JobRecord /\ JobPlaced(job[j]) /\ CatalogueTyped
         /\ job[j].bundle \in Envelopes
         /\ job[j].bundle.cats \in Seq(CategoryLines)
         /\ job[j].bundle.methods \in Seq(MethodLines)
         /\ job[j].bundle.subs \in Seq(SubscriptionLines)
<1>1. job[j] \in JobRecord /\ JobPlaced(job[j]) /\ CatalogueTyped
  BY DEF CatalogueInv, CatalogueTyped, JobsPlaced
<1>2. job[j].bundle \in Envelopes
  BY <1>1 DEF JobRecord
<1>3. QED
  BY <1>1, <1>2 DEF Envelopes

\* The head and the tail of a sequence that is not empty.
LEMMA HeadAndTail ==
  ASSUME NEW S, NEW s \in Seq(S), s # <<>>
  PROVE  Head(s) \in S /\ Tail(s) \in Seq(S)
  OBVIOUS

\* Both statements of a guarded deletion keep the tables and the place of their job.
LEMMA DeletionStep ==
  ASSUME CatalogueInv, NEW j \in Jobs,
         (\E home \in Owners, i \in Guarded : CountReferences(j, home, i)) \/ DeleteGuarded(j)
  PROVE  TablesStep /\ UNCHANGED <<currency, envelope>> /\ \E q : JobBecomes(j, q)
<1>1. ASSUME NEW home \in Owners, NEW i \in Guarded, CountReferences(j, home, i)
      PROVE  TablesStep /\ UNCHANGED <<currency, envelope>> /\ \E q : JobBecomes(j, q)
  <2> DEFINE q == [NoJob EXCEPT !.pc = "delete", !.home = home, !.id = i]
  <2>1. q \in JobRecord /\ q.pc = "delete" /\ q.home = home /\ q.id = i
    BY IdleJob DEF JobRecord, JobPlaces, Ids, Guarded
  <2>2. job' = [job EXCEPT ![j] = q] /\ UNCHANGED <<rows, tombs, currency, envelope>> /\ ~Referenced(home, i)
    BY <1>1 DEF CountReferences, Start
  <2> HIDE DEF q
  <2>3. JobBecomes(j, q)
    BY <2>1, <2>2 DEF JobBecomes, JobPlaced
  <2>4. QED
    BY <2>2, <2>3 DEF TablesStep
<1>2. CASE DeleteGuarded(j)
  <2>1. job[j].home \in Owners /\ job[j].id \in Guarded /\ job[j].id \in Ids
    BY <1>2, JobThere DEF DeleteGuarded, JobAt, JobPlaced, Ids, Guarded
  <2>2. TablesStep
    BY <1>2, <2>1 DEF DeleteGuarded, TablesStep, Removed
  <2>3. job' = [job EXCEPT ![j] = NoJob] /\ UNCHANGED <<currency, envelope>>
    BY <1>2 DEF DeleteGuarded
  <2>4. QED
    BY <2>2, <2>3, JobEnds, JobThere
<1>3. QED
  BY <1>1, <1>2

\* A function takes finitely many values on a finite set.
LEMMA FiniteImage ==
  ASSUME NEW S, IsFiniteSet(S), NEW f, f = [x \in S |-> f[x]]
  PROVE  IsFiniteSet({f[x] : x \in S})
<1> DEFINE T == {f[x] : x \in S}
<1>1. f \in Surjection(S, T)
  BY DEF Surjection
<1>2. QED
  BY <1>1, FS_Surjection

CategoryLine(c) == [id |-> c, name |-> rows[c].name]
MethodLine(m) == [id |-> m, name |-> rows[m].name]

\* What an export reads of each table is finite.
LEMMA ExportedFinite ==
  ASSUME NEW home
  PROVE  /\ IsFiniteSet({CategoryLine(c) : c \in ExportedCategories(home)})
         /\ IsFiniteSet({MethodLine(m) : m \in {i \in MethodIds : Owned(i, home)}})
         /\ IsFiniteSet({RowToCreateRequest(s) : s \in {t \in SubscriptionIds : Owned(t, home)}})
<1> DEFINE C == ExportedCategories(home)
           M == {m \in MethodIds : Owned(m, home)}
           S == {t \in SubscriptionIds : Owned(t, home)}
           f == [c \in C |-> CategoryLine(c)]
           g == [t \in S |-> RowToCreateRequest(t)]
           l == [m \in M |-> MethodLine(m)]
<1>1. C \in SUBSET Ids /\ M \in SUBSET Ids /\ S \in SUBSET Ids
  BY DEF ExportedCategories, Ids
<1>2. IsFiniteSet(C) /\ IsFiniteSet(M) /\ IsFiniteSet(S)
  BY <1>1, CatalogueAssumption, FS_Subset
<1>3. IsFiniteSet({f[c] : c \in C}) /\ IsFiniteSet({g[t] : t \in S}) /\ IsFiniteSet({l[m] : m \in M})
  <2> HIDE DEF C, S, M
  <2>1. IsFiniteSet({f[c] : c \in C})
    BY <1>2, FiniteImage
  <2>2. IsFiniteSet({g[t] : t \in S})
    BY <1>2, FiniteImage
  <2>3. IsFiniteSet({l[m] : m \in M})
    BY <1>2, FiniteImage
  <2>4. QED
    BY <2>1, <2>2, <2>3
<1>4. /\ {f[c] : c \in C} = {CategoryLine(c) : c \in C} /\ {g[t] : t \in S} = {RowToCreateRequest(t) : t \in S}
      /\ {l[m] : m \in M} = {MethodLine(m) : m \in M}
  OBVIOUS
<1>5. QED
  BY <1>2, <1>3, <1>4

\* A sequence over a set is one over a larger set.
LEMMA SubsetSequence == ASSUME NEW S, NEW T, S \subseteq T, NEW s \in Seq(S) PROVE s \in Seq(T)
  OBVIOUS

\* The reads of an export write nothing but the envelope.
LEMMA ExportStep ==
  ASSUME CatalogueInv, NEW j \in Jobs,
         (\E home \in Owners : ExportCategories(j, home)) \/ ExportMethods(j) \/ ExportSubscriptions(j) \/ ExportCurrency(j)
  PROVE  UNCHANGED <<rows, tombs, currency>> /\ envelope' \in Envelopes /\ \E q : JobBecomes(j, q)
<1> DEFINE b == job[j].bundle
<1>1. CatalogueTyped /\ job[j] \in JobRecord /\ JobPlaced(job[j]) /\ b \in Envelopes /\ envelope \in Envelopes
  BY JobThere DEF CatalogueTyped
<1>2. ASSUME NEW home \in Owners, ExportCategories(j, home)
      PROVE  UNCHANGED <<rows, tombs, currency, envelope>> /\ \E q : JobBecomes(j, q)
  <2> DEFINE lines == {CategoryLine(c) : c \in ExportedCategories(home)}
             here == {i \in Ids : Live(i)}
             q == [NoJob EXCEPT !.pc = "export_methods", !.home = home, !.before = here,
                                !.bundle = [NoEnvelope EXCEPT !.cats = SetToSeq(lines)]]
  <2>1. lines \subseteq CategoryLines
    <3>1. \A c \in ExportedCategories(home) : c \in CategoryIds /\ c \in Ids /\ rows[c] \in Row
      BY <1>1, RowFacts DEF ExportedCategories, Owned, Ids
    <3>2. QED
      BY <3>1 DEF CategoryLine, CategoryLines, Labels, Row
  <2>2. SetToSeq(lines) \in Seq(CategoryLines)
    BY <2>1, ExportedFinite, SetToSeqLists, SubsetSequence
  <2>3. job' = [job EXCEPT ![j] = [NoJob EXCEPT !.pc = "export_methods", !.home = home, !.before = here,
                                                !.bundle.cats = SetToSeq(lines)]]
    BY <1>2 DEF ExportCategories, Start, CategoryLine
  <2>4. job' = [job EXCEPT ![j] = q]
    BY <2>3 DEF NoJob
  <2>5. here \in SUBSET Ids
    OBVIOUS
  <2>6. [NoEnvelope EXCEPT !.cats = SetToSeq(lines)] \in Envelopes
    BY <2>2, EnvelopeValues DEF Envelopes
  <2> HIDE DEF lines, here
  <2>7. q \in JobRecord /\ q.pc = "export_methods" /\ q.home = home
    BY <2>5, <2>6, IdleJob DEF JobRecord, JobPlaces
  <2> HIDE DEF q
  <2>8. JobBecomes(j, q)
    BY <2>4, <2>7 DEF JobBecomes, JobPlaced
  <2>9. UNCHANGED <<rows, tombs, currency, envelope>>
    BY <1>2 DEF ExportCategories
  <2>10. QED
    BY <2>8, <2>9
<1>3. CASE ExportMethods(j)
  <2> DEFINE list == SetToSeq({MethodLine(m) : m \in {i \in MethodIds : Owned(i, job[j].home)}})
             q == [job[j] EXCEPT !.pc = "export_subscriptions", !.bundle = [b EXCEPT !.methods = list]]
  <2>1. list \in Seq(MethodLines)
    <3> DEFINE here == {MethodLine(m) : m \in {i \in MethodIds : Owned(i, job[j].home)}}
    <3>0. \A m \in MethodIds : Live(m) => m \in Ids /\ rows[m] \in Row
      BY <1>1, RowFacts DEF Ids
    <3>1. ASSUME NEW m \in MethodIds, Owned(m, job[j].home) PROVE MethodLine(m) \in MethodLines
      <4>1. rows[m] \in Row
        BY <3>0, <3>1 DEF Owned
      <4>2. rows[m].name \in Names \cup {Blank}
        BY <4>1 DEF Row
      <4>3. QED
        BY <4>2 DEF MethodLine, MethodLines
    <3>2. IsFiniteSet(here) /\ here \subseteq MethodLines
      BY <3>1, ExportedFinite
    <3> HIDE DEF here
    <3>3. SetToSeq(here) \in Seq(MethodLines)
      BY <3>2, SetToSeqLists, SubsetSequence
    <3>4. QED
      BY <3>3 DEF here
  <2>2. job' = [job EXCEPT ![j] = q] /\ UNCHANGED <<rows, tombs, currency, envelope>> /\ job[j].pc = "export_methods"
    BY <1>3 DEF ExportMethods, MethodLine, JobAt
  <2>3. [b EXCEPT !.methods = list] \in Envelopes
    BY <1>1, <2>1 DEF Envelopes
  <2> HIDE DEF list
  <2>4. q \in JobRecord /\ q.pc = "export_subscriptions" /\ q.home = job[j].home
    BY <1>1, <2>3 DEF JobRecord, JobPlaces
  <2> HIDE DEF q
  <2>5. JobBecomes(j, q)
    BY <1>1, <2>2, <2>4 DEF JobBecomes, JobPlaced
  <2>6. QED
    BY <1>1, <2>2, <2>5
<1>4. CASE ExportSubscriptions(j)
  <2> DEFINE lines == {RowToCreateRequest(s) : s \in {t \in SubscriptionIds : Owned(t, job[j].home)}}
             q == [job[j] EXCEPT !.pc = "export_currency", !.bundle = [b EXCEPT !.subs = SetToSeq(lines)]]
  <2>1. lines \subseteq SubscriptionLines
    <3>1. \A s \in SubscriptionIds : Live(s) => s \in Ids /\ rows[s] \in Row
      BY <1>1, RowFacts DEF Ids
    <3>2. ASSUME NEW s \in SubscriptionIds, Owned(s, job[j].home) PROVE RowToCreateRequest(s) \in SubscriptionLines
      <4>1. rows[s] \in Row
        BY <3>1, <3>2 DEF Owned
      <4>2. rows[s].ref \in References
        BY <4>1 DEF Row
      <4>3. QED
        BY <4>2 DEF RowToCreateRequest, SubscriptionLines
    <3>3. QED
      BY <3>2
  <2>2. SetToSeq(lines) \in Seq(SubscriptionLines)
    <3>1. IsFiniteSet(lines)
      BY ExportedFinite
    <3> HIDE DEF lines
    <3>2. QED
      BY <2>1, <3>1, SetToSeqLists, SubsetSequence
  <2>3. job' = [job EXCEPT ![j] = q] /\ UNCHANGED <<rows, tombs, currency, envelope>> /\ job[j].pc = "export_subscriptions"
    BY <1>4 DEF ExportSubscriptions, JobAt
  <2>4. [b EXCEPT !.subs = SetToSeq(lines)] \in Envelopes
    BY <1>1, <2>2 DEF Envelopes
  <2> HIDE DEF lines
  <2>5. q \in JobRecord /\ q.pc = "export_currency" /\ q.home = job[j].home
    BY <1>1, <2>4 DEF JobRecord, JobPlaces
  <2> HIDE DEF q
  <2>6. JobBecomes(j, q)
    BY <1>1, <2>3, <2>5 DEF JobBecomes, JobPlaced
  <2>7. QED
    BY <1>1, <2>3, <2>6
<1>5. CASE ExportCurrency(j)
  <2>1. job[j].home \in Owners
    BY <1>1, <1>5 DEF ExportCurrency, JobAt, JobPlaced
  <2>2. currency[job[j].home] \in Codes
    BY <1>1, <2>1 DEF CatalogueTyped, Codes
  <2>3. envelope' \in Envelopes
    BY <1>1, <1>5, <2>2 DEF ExportCurrency, Envelopes
  <2>4. job' = [job EXCEPT ![j] = NoJob] /\ UNCHANGED <<rows, tombs, currency>>
    BY <1>5 DEF ExportCurrency
  <2>5. QED
    BY <1>1, <2>3, <2>4, JobEnds
<1>6. QED
  BY <1>1, <1>2, <1>3, <1>4, <1>5

\* The envelope of an import goes on without the line it has dealt with.
LEMMA ShorterEnvelopes ==
  ASSUME NEW b \in Envelopes
  PROVE  /\ b.cats # <<>> => [b EXCEPT !.cats = Tail(b.cats)] \in Envelopes
         /\ b.methods # <<>> => [b EXCEPT !.methods = Tail(b.methods)] \in Envelopes
         /\ b.subs # <<>> => [b EXCEPT !.subs = Tail(b.subs)] \in Envelopes
<1>1. b.cats \in Seq(CategoryLines) /\ b.methods \in Seq(MethodLines) /\ b.subs \in Seq(SubscriptionLines)
  BY DEF Envelopes
<1>2. /\ b.cats # <<>> => Tail(b.cats) \in Seq(CategoryLines)
      /\ b.methods # <<>> => Tail(b.methods) \in Seq(MethodLines)
      /\ b.subs # <<>> => Tail(b.subs) \in Seq(SubscriptionLines)
  BY <1>1, HeadAndTail
<1>3. QED
  BY <1>2 DEF Envelopes

\* An import begins by setting the currency.
LEMMA BeginImportStep ==
  ASSUME CatalogueInv, NEW j \in Jobs, NEW home \in Owners, NEW bundle \in Bundles \cup ({envelope} \ {NoEnvelope}),
         BeginImport(j, home, bundle)
  PROVE  UNCHANGED <<rows, tombs, envelope>> /\ currency' \in [Owners -> Supported] /\ \E q : JobBecomes(j, q)
<1> DEFINE q == [NoJob EXCEPT !.pc = "list_existing", !.home = home, !.bundle = bundle, !.all = bundle]
<1>1. bundle \in Envelopes /\ currency \in [Owners -> Supported]
  BY EnvelopeValues DEF CatalogueInv, CatalogueTyped
<1>2. q \in JobRecord /\ q.pc = "list_existing" /\ q.home = home
  BY <1>1, IdleJob DEF JobRecord, JobPlaces
<1>3. job' = [job EXCEPT ![j] = q] /\ UNCHANGED <<rows, tombs, envelope>>
  BY DEF BeginImport, Start
<1> HIDE DEF q
<1>4. JobBecomes(j, q)
  BY <1>2, <1>3 DEF JobBecomes, JobPlaced
<1>5. currency' \in [Owners -> Supported]
  BY <1>1 DEF BeginImport
<1>6. QED
  BY <1>3, <1>4, <1>5

\* Reading the names in use writes nothing.
LEMMA ListExistingStep ==
  ASSUME CatalogueInv, NEW j \in Jobs, ListExisting(j)
  PROVE  UNCHANGED <<rows, tombs, currency, envelope>> /\ \E q : JobBecomes(j, q)
<1> DEFINE here(n) == {c \in CategoryIds : Owned(c, job[j].home) /\ rows[c].name = n}
           found == [n \in Names |-> IF here(n) = {} THEN Nothing ELSE CHOOSE c \in here(n) : TRUE]
           q == [job[j] EXCEPT !.pc = "import_categories", !.existing = found]
<1>1. job[j] \in JobRecord /\ JobPlaced(job[j]) /\ job[j].pc = "list_existing"
  BY JobThere DEF ListExisting, JobAt
<1>2. found \in [Names -> CategoryIds \cup {Nothing}]
  <2>1. \A n \in Names : here(n) # {} => (CHOOSE c \in here(n) : TRUE) \in here(n)
    OBVIOUS
  <2>2. QED
    BY <2>1
<1>3. job' = [job EXCEPT ![j] = q] /\ UNCHANGED <<rows, tombs, currency, envelope>>
  BY DEF ListExisting
<1> HIDE DEF found
<1>4. q \in JobRecord /\ q.pc = "import_categories" /\ q.home = job[j].home
  BY <1>1, <1>2 DEF JobRecord, JobPlaces
<1> HIDE DEF q
<1>5. JobBecomes(j, q)
  BY <1>1, <1>3, <1>4 DEF JobBecomes, JobPlaced
<1>6. QED
  BY <1>3, <1>5

\* One category of an import keeps the tables and the place of its job.
LEMMA ImportCategoryStep ==
  ASSUME CatalogueInv, NEW j \in Jobs, ImportCategory(j)
  PROVE  TablesStep /\ UNCHANGED <<currency, envelope>> /\ \E q : JobBecomes(j, q)
<1> DEFINE b == job[j].bundle
           c == Head(b.cats)
           home == job[j].home
           known == IF c.name = Blank THEN Nothing ELSE job[j].existing[c.name]
           rest == [b EXCEPT !.cats = Tail(b.cats)]
<1>1. job[j] \in JobRecord /\ JobPlaced(job[j]) /\ CatalogueTyped /\ b \in Envelopes
  BY JobThere
<1>2. job[j].pc = "import_categories" /\ b.cats # <<>> /\ home \in Owners
  BY <1>1 DEF ImportCategory, JobAt, JobPlaced
<1>3. rest \in Envelopes /\ c \in CategoryLines
  BY <1>1, <1>2, JobThere, HeadAndTail, ShorterEnvelopes
<1>4. c.id \in Labels /\ c.name \in Names \cup {Blank} /\ CategoryIds \subseteq Labels /\ (c.id # NotAnId => c.id \in CategoryIds)
  BY <1>3 DEF CategoryLines, Labels
<1>5. UNCHANGED <<tombs, currency, envelope>>
  BY DEF ImportCategory
<1>6. CASE known # Nothing
  <2> DEFINE q == [job[j] EXCEPT !.bundle = rest, !.map = Remapped(job[j].map, c.id, known)]
  <2>1. known \in CategoryIds
    BY <1>1, <1>4, <1>6 DEF JobRecord
  <2>2. Remapped(job[j].map, c.id, known) \in [Labels -> Labels]
    BY <1>1, <1>4, <2>1 DEF Remapped, JobRecord
  <2>3. job' = [job EXCEPT ![j] = q] /\ UNCHANGED rows
    BY <1>6 DEF ImportCategory
  <2> HIDE DEF rest, known
  <2>4. q \in JobRecord /\ q.pc = "import_categories" /\ q.home = home
    BY <1>1, <1>2, <1>3, <2>2 DEF JobRecord
  <2> HIDE DEF q
  <2>5. JobBecomes(j, q)
    BY <1>2, <2>3, <2>4 DEF JobBecomes, JobPlaced
  <2>6. QED
    BY <1>5, <2>3, <2>5 DEF TablesStep
<1>7. CASE known = Nothing /\ c.id # NotAnId /\ CategoryCreatable(home, c.id, c.name)
  <2> DEFINE q == [job[j] EXCEPT !.bundle = rest, !.existing = [job[j].existing EXCEPT ![c.name] = c.id]]
  <2>1. [job[j].existing EXCEPT ![c.name] = c.id] \in [Names -> CategoryIds \cup {Nothing}]
    BY <1>1, <1>4, <1>7 DEF JobRecord
  <2>2. job' = [job EXCEPT ![j] = q] /\ rows' = [rows EXCEPT ![c.id] = [Gone EXCEPT !.home = home, !.name = c.name]]
    <3>1. /\ job' = [job EXCEPT ![j].bundle.cats = Tail(@), ![j].existing[c.name] = c.id]
          /\ rows' = [rows EXCEPT ![c.id] = [Gone EXCEPT !.home = home, !.name = c.name]]
      BY <1>7 DEF ImportCategory
    <3> HIDE DEF c, known
    <3>2. [job EXCEPT ![j].bundle.cats = Tail(@), ![j].existing[c.name] = c.id] = [job EXCEPT ![j] = q]
      BY <1>1
    <3>3. QED
      BY <3>1, <3>2
  <2> HIDE DEF rest, known
  <2>3. q \in JobRecord /\ q.pc = "import_categories" /\ q.home = home
    BY <1>1, <1>2, <1>3, <2>1 DEF JobRecord
  <2> HIDE DEF q
  <2>4. JobBecomes(j, q)
    BY <1>2, <2>2, <2>3 DEF JobBecomes, JobPlaced
  <2>5. TablesStep
    <3>1. c.id \in Ids \ SubscriptionIds
      BY <1>4, <1>7, CatalogueAssumption DEF Ids, Guarded
    <3>2. QED
      BY <1>1, <1>2, <1>4, <1>5, <1>7, <2>2, <3>1, EntryWritten DEF CategoryCreatable
  <2>6. QED
    BY <1>5, <2>4, <2>5
<1>8. CASE known = Nothing /\ ~(c.id # NotAnId /\ CategoryCreatable(home, c.id, c.name))
  <2> DEFINE q == [job[j] EXCEPT !.bundle = rest]
  <2>1. job' = [job EXCEPT ![j] = q] /\ UNCHANGED rows
    BY <1>8 DEF ImportCategory
  <2> HIDE DEF rest, known
  <2>2. q \in JobRecord /\ q.pc = "import_categories" /\ q.home = home
    BY <1>1, <1>2, <1>3 DEF JobRecord
  <2> HIDE DEF q
  <2>3. JobBecomes(j, q)
    BY <1>2, <2>1, <2>2 DEF JobBecomes, JobPlaced
  <2>4. QED
    BY <1>5, <2>1, <2>3 DEF TablesStep
<1>9. QED
  BY <1>6, <1>7, <1>8

\* One payment method of an import keeps them too.
LEMMA ImportMethodStep ==
  ASSUME CatalogueInv, NEW j \in Jobs, ImportMethod(j)
  PROVE  TablesStep /\ UNCHANGED <<currency, envelope>> /\ \E q : JobBecomes(j, q)
<1> DEFINE b == job[j].bundle
           m == Head(b.methods)
           rest == [b EXCEPT !.methods = Tail(b.methods)]
           q == [job[j] EXCEPT !.bundle = rest]
<1>1. job[j] \in JobRecord /\ JobPlaced(job[j]) /\ CatalogueTyped /\ b \in Envelopes
  BY JobThere
<1>2. job[j].pc = "import_categories" /\ b.methods # <<>> /\ job[j].home \in Owners
  BY <1>1 DEF ImportMethod, JobAt, JobPlaced
<1>3. rest \in Envelopes /\ m \in MethodLines
  BY <1>1, <1>2, JobThere, HeadAndTail, ShorterEnvelopes
<1>4. job' = [job EXCEPT ![j] = q] /\ UNCHANGED <<tombs, currency, envelope>>
  BY DEF ImportMethod
<1>5. JobBecomes(j, q)
  <2> HIDE DEF rest
  <2>1. q \in JobRecord /\ q.pc = "import_categories" /\ q.home = job[j].home
    BY <1>1, <1>2, <1>3 DEF JobRecord
  <2> HIDE DEF q
  <2>2. QED
    BY <1>2, <1>4, <2>1 DEF JobBecomes, JobPlaced
<1>6. TablesStep
  <2>1. m.id \in MethodIds \cup {NotAnId} /\ m.name \in Names \cup {Blank}
    BY <1>3 DEF MethodLines
  <2>2. CASE m.id = NotAnId \/ m.name = Blank \/ Live(m.id)
    BY <1>4, <2>2 DEF ImportMethod, TablesStep
  <2>3. CASE ~(m.id = NotAnId \/ m.name = Blank \/ Live(m.id))
    <3>1. m.id \in Ids \ SubscriptionIds /\ m.id \notin CategoryIds
      BY <2>1, <2>3, CatalogueAssumption DEF Ids, Guarded
    <3>2. rows' = [rows EXCEPT ![m.id] = [Gone EXCEPT !.home = job[j].home, !.name = m.name]]
      BY <2>3 DEF ImportMethod
    <3> HIDE DEF m
    <3>3. QED
      BY <1>1, <1>2, <1>4, <2>1, <2>3, <3>1, <3>2, EntryWritten
  <2>4. QED
    BY <2>2, <2>3
<1>7. QED
  BY <1>4, <1>5, <1>6

\* A line that can be stored names a subscription, and refers to what a row may.
LEMMA SoundLines ==
  ASSUME NEW map \in [Labels -> Labels], NEW s \in SubscriptionLines, Sound(map, s)
  PROVE  s.id \in SubscriptionIds /\ s.id \in Ids /\ MappedRef(map, s.ref) \in References
<1>1. s.id \in SubscriptionIds
  BY DEF SubscriptionLines, Sound
<1>2. s.ref \in References \cup {NotAnId} /\ MappedRef(map, s.ref) # NotAnId
  BY DEF SubscriptionLines, Sound
<1>3. CategoryIds \subseteq References /\ NotAnId \in Labels
  BY DEF References, Ids, Labels
<1>4. MappedRef(map, s.ref) \in References
  <2>1. CASE s.ref \in Labels
    <3>1. MappedRef(map, s.ref) \in Labels
      BY <2>1 DEF MappedRef
    <3>2. QED
      BY <1>2, <1>3, <3>1 DEF Labels
  <2>2. CASE s.ref \notin Labels
    BY <1>2, <1>3, <2>2 DEF MappedRef
  <2>3. QED
    BY <2>1, <2>2
<1>5. QED
  BY <1>1, <1>4 DEF Ids

\* One subscription of an import keeps them too.
LEMMA ImportSubscriptionStep ==
  ASSUME CatalogueInv, NEW j \in Jobs, ImportSubscription(j)
  PROVE  TablesStep /\ UNCHANGED <<currency, envelope>> /\ \E q : JobBecomes(j, q)
<1> DEFINE b == job[j].bundle
           s == Head(b.subs)
           rest == [b EXCEPT !.subs = Tail(b.subs)]
           q == [job[j] EXCEPT !.bundle = rest]
<1>1. job[j] \in JobRecord /\ JobPlaced(job[j]) /\ CatalogueTyped /\ b \in Envelopes
  BY JobThere
<1>2. job[j].pc = "import_categories" /\ b.subs # <<>> /\ job[j].home \in Owners
  BY <1>1 DEF ImportSubscription, JobAt, JobPlaced
<1>3. rest \in Envelopes /\ s \in SubscriptionLines
  BY <1>1, <1>2, JobThere, HeadAndTail, ShorterEnvelopes
<1>4. job' = [job EXCEPT ![j] = q] /\ UNCHANGED <<tombs, currency, envelope>>
  BY DEF ImportSubscription
<1>5. JobBecomes(j, q)
  <2> HIDE DEF rest
  <2>1. q \in JobRecord /\ q.pc = "import_categories" /\ q.home = job[j].home
    BY <1>1, <1>2, <1>3 DEF JobRecord
  <2> HIDE DEF q
  <2>2. QED
    BY <1>2, <1>4, <2>1 DEF JobBecomes, JobPlaced
<1>6. TablesStep
  <2>1. job[j].map \in [Labels -> Labels]
    BY <1>1 DEF JobRecord
  <2>2. CASE ~Sound(job[j].map, s) \/ Live(s.id)
    BY <1>4, <2>2 DEF ImportSubscription, TablesStep
  <2>3. CASE Sound(job[j].map, s) /\ ~Live(s.id)
    <3>1. rows' = [rows EXCEPT ![s.id] = Subscription(job[j].home, MappedRef(job[j].map, s.ref))]
      BY <2>3 DEF ImportSubscription
    <3>2. s.id \in SubscriptionIds /\ MappedRef(job[j].map, s.ref) \in References
      BY <1>3, <2>1, <2>3, SoundLines
    <3> HIDE DEF s
    <3>3. QED
      BY <1>1, <1>2, <1>4, <2>3, <3>1, <3>2, SubscriptionWritten
  <2>4. QED
    BY <2>2, <2>3
<1>7. QED
  BY <1>4, <1>5, <1>6

\* So does every statement of a job.
LEMMA JobSteps ==
  ASSUME CatalogueInv, NEW j \in Jobs, JobStep(j)
  PROVE  TablesStep /\ currency' \in [Owners -> Supported] /\ envelope' \in Envelopes /\ \E q : JobBecomes(j, q)
<1>1. CatalogueTyped /\ currency \in [Owners -> Supported] /\ envelope \in Envelopes
  BY DEF CatalogueInv, CatalogueTyped
<1>2. CASE (\E home \in Owners, i \in Guarded : CountReferences(j, home, i)) \/ DeleteGuarded(j)
  BY <1>1, <1>2, DeletionStep
<1>3. CASE (\E home \in Owners : ExportCategories(j, home)) \/ ExportMethods(j) \/ ExportSubscriptions(j) \/ ExportCurrency(j)
  BY <1>1, <1>3, ExportStep DEF TablesStep
<1>4. ASSUME NEW home \in Owners, NEW b \in Bundles \cup ({envelope} \ {NoEnvelope}), BeginImport(j, home, b)
      PROVE  TablesStep /\ currency' \in [Owners -> Supported] /\ envelope' \in Envelopes /\ \E q : JobBecomes(j, q)
  BY <1>1, <1>4, BeginImportStep DEF TablesStep
<1>5. CASE ListExisting(j)
  BY <1>1, <1>5, ListExistingStep DEF TablesStep
<1>6. CASE ImportCategory(j)
  BY <1>1, <1>6, ImportCategoryStep
<1>7. CASE ImportMethod(j)
  BY <1>1, <1>7, ImportMethodStep
<1>8. CASE ImportSubscription(j)
  BY <1>1, <1>8, ImportSubscriptionStep
<1>9. CASE ImportAnswers(j) \/ StopJob(j)
  <2>1. job' = [job EXCEPT ![j] = NoJob] /\ UNCHANGED <<rows, tombs, currency, envelope>>
    BY <1>9 DEF ImportAnswers, StopJob
  <2>2. QED
    BY <1>1, <2>1, JobEnds DEF TablesStep
<1>10. QED
  BY <1>2, <1>3, <1>4, <1>5, <1>6, <1>7, <1>8, <1>9 DEF JobStep

-----------------------------------------------------------------------------
(* The invariant. *)

\* The invariant holds at first.
LEMMA CatalogueInitInv == CatalogueInit => CatalogueInv
<1> SUFFICES ASSUME CatalogueInit PROVE CatalogueInv
  OBVIOUS
<1> USE DEF CatalogueInit
<1>1. CatalogueTyped
  <2>1. rows \in [Ids -> Row \cup {Gone}]
    BY FirstRowsAssumption DEF Row
  <2>2. QED
    BY <2>1, IdleJob, EnvelopeValues, CatalogueAssumption DEF CatalogueTyped
<1>2. JobsPlaced
  BY DEF JobsPlaced, JobPlaced, NoJob
<1>3. NamesUnique
  <2> SUFFICES ASSUME NEW c \in CategoryIds, NEW d \in CategoryIds, c # d, Live(c), rows[c].home = rows[d].home
               PROVE  rows[c].name # rows[d].name
    BY DEF NamesUnique
  <2>1. rows[c].home \in Owners
    BY <1>1, RowFacts DEF Ids
  <2>2. QED
    BY <2>1, FirstRowsAssumption
<1>4. HeldThere
  <2> SUFFICES ASSUME NEW s \in SubscriptionIds, Live(s), rows[s].held
               PROVE  rows[s].ref \in Guarded /\ Owned(rows[s].ref, rows[s].home)
    BY DEF HeldThere
  <2>1. s \in Ids /\ Guarded \subseteq Ids
    BY DEF Ids, Guarded
  <2>2. rows[s].ref \in Guarded /\ rows[rows[s].ref].home = rows[s].home
    BY FirstRowsAssumption
  <2>3. rows[s].home \in Owners
    BY <1>1, <2>1, RowFacts
  <2>4. QED
    BY <1>1, <2>1, <2>2, <2>3, RowFacts DEF Owned
<1>5. PastCount
  BY DEF PastCount, JobAt, NoJob
<1>6. QED
  BY <1>1, <1>2, <1>3, <1>4, <1>5 DEF CatalogueInv

\* The tables keep what the invariant says of them.
LEMMA TablesKept ==
  ASSUME CatalogueInv, TablesStep
  PROVE  rows' \in [Ids -> Row \cup {Gone}] /\ tombs' \subseteq Owners \X Ids /\ NamesUnique' /\ HeldThere'
<1>1. CatalogueTyped /\ rows \in [Ids -> Row \cup {Gone}] /\ tombs \subseteq Owners \X Ids /\ NamesUnique /\ HeldThere /\ PastCount
  BY DEF CatalogueInv, CatalogueTyped
<1>2. CategoryIds \subseteq Ids /\ SubscriptionIds \subseteq Ids /\ Guarded \subseteq Ids /\ Guarded \cap SubscriptionIds = {}
  BY CatalogueAssumption DEF Ids, Guarded
<1>3. CASE UNCHANGED <<rows, tombs>>
  BY <1>1, <1>3 DEF NamesUnique, HeldThere, Live, Owned
<1>4. ASSUME NEW i, NEW r, Written(i, r)
      PROVE  rows' \in [Ids -> Row \cup {Gone}] /\ tombs' = tombs /\ NamesUnique' /\ HeldThere'
  <2>1. /\ i \in Ids /\ r \in Row /\ rows' = [rows EXCEPT ![i] = r] /\ tombs' = tombs
        /\ Live(i) => rows[i].home = r.home
        /\ r # Gone /\ r.home \in Owners
    BY <1>4, GoneRow DEF Written, Row
  <2>2. rows' \in [Ids -> Row \cup {Gone}]
    BY <1>1, <2>1
  <2>3. rows'[i] = r /\ Live(i)' /\ \A k \in Ids \ {i} : rows'[k] = rows[k] /\ (Live(k)' <=> Live(k))
    BY <1>1, <2>1 DEF Live
  <2>4. NamesUnique'
    <3> SUFFICES ASSUME NEW c \in CategoryIds, NEW d \in CategoryIds, c # d, Live(c)', Live(d)', rows'[c].home = rows'[d].home
                 PROVE  rows'[c].name # rows'[d].name
      BY DEF NamesUnique
    <3>1. CASE c # i /\ d # i
      BY <1>1, <1>2, <2>3, <3>1 DEF NamesUnique
    <3>2. CASE c = i
      BY <1>2, <1>4, <2>3, <3>2 DEF Written, Owned
    <3>3. CASE d = i
      BY <1>2, <1>4, <2>3, <3>3 DEF Written, Owned
    <3>4. QED
      BY <3>1, <3>2, <3>3
  <2>5. \A k \in Guarded, home \in Owners : Owned(k, home) => Owned(k, home)'
    BY <1>2, <2>1, <2>3 DEF Owned
  <2>6. HeldThere'
    <3> SUFFICES ASSUME NEW s \in SubscriptionIds, Live(s)', rows'[s].held
                 PROVE  rows'[s].ref \in Guarded /\ Owned(rows[s].ref, rows[s].home)'
      BY DEF HeldThere, Owned, Live
    <3>1. CASE s = i
      BY <1>4, <2>1, <2>3, <2>5, <3>1 DEF Written
    <3>2. CASE s # i
      <4>1. rows[s].ref \in Guarded /\ Owned(rows[s].ref, rows[s].home) /\ rows[s].home \in Owners
        BY <1>1, <1>2, <2>3, <3>2, RowFacts DEF HeldThere
      <4>2. QED
        BY <1>2, <2>3, <2>5, <3>2, <4>1
    <3>3. QED
      BY <3>1, <3>2
  <2>7. QED
    BY <2>1, <2>2, <2>4, <2>6
<1>5. ASSUME NEW home, NEW i, Removed(home, i)
      PROVE  rows' \in [Ids -> Row \cup {Gone}] /\ tombs' \subseteq Owners \X Ids /\ NamesUnique' /\ HeldThere'
  <2>1. home \in Owners /\ i \in Ids /\ Owned(i, home) /\ rows' = [rows EXCEPT ![i] = Gone] /\ tombs' = tombs \cup {<<home, i>>}
    BY <1>5 DEF Removed, Deleted
  <2>2. rows' \in [Ids -> Row \cup {Gone}] /\ tombs' \subseteq Owners \X Ids
    BY <1>1, <2>1
  <2>3. ~Live(i)' /\ \A k \in Ids \ {i} : rows'[k] = rows[k] /\ (Live(k)' <=> Live(k))
    BY <1>1, <2>1 DEF Live
  <2>4. NamesUnique'
    BY <1>1, <1>2, <2>3 DEF NamesUnique
  <2>5. HeldThere'
    <3> SUFFICES ASSUME NEW s \in SubscriptionIds, Live(s)', rows'[s].held
                 PROVE  rows'[s].ref \in Guarded /\ Owned(rows[s].ref, rows[s].home)'
      BY DEF HeldThere, Owned, Live
    <3>1. s # i /\ s \in Ids /\ Live(s) /\ rows'[s] = rows[s]
      BY <1>2, <2>3
    <3>2. rows[s].ref \in Guarded /\ Owned(rows[s].ref, rows[s].home)
      BY <1>1, <3>1 DEF HeldThere
    <3>3. rows[s].ref # i
      <4>1. SUFFICES ASSUME rows[s].ref = i PROVE FALSE
        OBVIOUS
      <4>2. rows[s].home = home
        BY <2>1, <3>2, <4>1 DEF Owned
      <4>3. \E j \in Jobs : JobAt(j, "delete") /\ job[j].id = i /\ job[j].home = home
        BY <1>5, <3>2, <4>1 DEF Removed
      <4>4. QED
        BY <1>1, <3>1, <4>1, <4>2, <4>3 DEF PastCount
    <3>4. QED
      BY <1>2, <2>3, <3>1, <3>2, <3>3 DEF Owned
  <2>6. QED
    BY <2>2, <2>4, <2>5
<1>6. QED
  BY <1>1, <1>3, <1>4, <1>5 DEF TablesStep

\* A deletion past its count has no held reference left, whatever else is written.
LEMMA PastCountKept ==
  ASSUME CatalogueInv, TablesStep, UNCHANGED job \/ \E j \in Jobs : \E q : JobBecomes(j, q)
  PROVE  PastCount'
<1>1. /\ rows \in [Ids -> Row \cup {Gone}] /\ job \in [Jobs -> JobRecord] /\ PastCount
      /\ SubscriptionIds \subseteq Ids /\ SubscriptionIds \cap Guarded = {}
  BY CatalogueAssumption DEF CatalogueInv, CatalogueTyped, Ids, Guarded
<1>2. \A k \in Jobs : job'[k] = job[k] \/ (job'[k].pc = "delete" => UNCHANGED rows /\ ~Referenced(job'[k].home, job'[k].id))
  BY <1>1 DEF JobBecomes
<1> SUFFICES ASSUME NEW k \in Jobs, NEW s \in SubscriptionIds, job'[k].pc = "delete", Live(s)', rows'[s].held,
                    rows'[s].ref = job'[k].id, rows'[s].home = job'[k].home
             PROVE  FALSE
  BY DEF PastCount, JobAt
<1>3. CASE job'[k] # job[k]
  BY <1>1, <1>2, <1>3 DEF Referenced, Owned, Live
<1>4. CASE job'[k] = job[k] /\ rows'[s] = rows[s]
  BY <1>1, <1>4 DEF PastCount, JobAt, Live
<1>5. CASE job'[k] = job[k] /\ rows'[s] # rows[s]
  <2>1. PICK i, r : Written(i, r) /\ i = s
    BY <1>1, <1>5 DEF TablesStep, Written, Removed, Deleted, Live
  <2>2. rows'[s] = r
    BY <1>1, <2>1 DEF Written
  <2>3. ~BeingDeleted(r.ref, r.home)
    BY <2>1, <2>2 DEF Written
  <2>4. QED
    BY <1>5, <2>2, <2>3 DEF BeingDeleted
<1>6. QED
  BY <1>3, <1>4, <1>5

\* What any step may do to the tables and to the jobs.
LEMMA CatalogueStep ==
  ASSUME CatalogueInv, CatalogueNext
  PROVE  /\ TablesStep /\ currency' \in [Owners -> Supported] /\ envelope' \in Envelopes
         /\ UNCHANGED job \/ \E j \in Jobs : \E q : JobBecomes(j, q)
<1>1. ASSUME NEW home \in Owners, StatementOf(home)
      PROVE  TablesStep /\ currency' \in [Owners -> Supported] /\ envelope' \in Envelopes /\ UNCHANGED job
  <2>1. currency \in [Owners -> Supported] /\ envelope \in Envelopes
    BY DEF CatalogueInv, CatalogueTyped
  <2>2. currency' \in [Owners -> Supported]
    BY <1>1, <2>1 DEF StatementOf, CreateCategory, CreateEntry, CreateSubscription, UpdateSubscription, RenameCategory,
                    RenameEntry, DeleteUnguarded, SetReferenceCurrency
  <2>3. QED
    BY <1>1, <2>1, <2>2, StatementWrites
<1>2. ASSUME NEW j \in Jobs, JobStep(j)
      PROVE  TablesStep /\ currency' \in [Owners -> Supported] /\ envelope' \in Envelopes /\ \E q : JobBecomes(j, q)
  BY <1>2, JobSteps
<1>3. QED
  BY <1>1, <1>2 DEF CatalogueNext

\* Every step keeps the invariant.
LEMMA CatalogueStepInv == CatalogueInv /\ [CatalogueNext]_catalogueVars => CatalogueInv'
<1> SUFFICES ASSUME CatalogueInv, [CatalogueNext]_catalogueVars PROVE CatalogueInv'
  OBVIOUS
<1>1. CASE CatalogueNext
  <2>1. /\ TablesStep /\ currency' \in [Owners -> Supported] /\ envelope' \in Envelopes
        /\ UNCHANGED job \/ \E j \in Jobs : \E q : JobBecomes(j, q)
    BY <1>1, CatalogueStep
  <2>2. job' \in [Jobs -> JobRecord] /\ JobsPlaced'
    BY <2>1 DEF CatalogueInv, CatalogueTyped, JobsPlaced, JobBecomes
  <2>3. CatalogueTyped' /\ NamesUnique' /\ HeldThere'
    BY <2>1, <2>2, TablesKept DEF CatalogueTyped
  <2>4. PastCount'
    BY <2>1, PastCountKept
  <2>5. QED
    BY <2>2, <2>3, <2>4 DEF CatalogueInv
<1>2. CASE UNCHANGED catalogueVars
  BY <1>2 DEF catalogueVars, CatalogueInv, CatalogueTyped, JobsPlaced, NamesUnique, HeldThere, PastCount, Live, Owned, JobAt
<1>3. QED
  BY <1>1, <1>2

\* The invariant always holds.
LEMMA CatalogueAlways == CatalogueSpec => []CatalogueInv
  BY CatalogueInitInv, CatalogueStepInv, PTL DEF CatalogueSpec

-----------------------------------------------------------------------------
(* The theorems. *)

\* The values of the variables, and the names of a household's categories are unique.
THEOREM CatalogueTyping == CatalogueSpec => []CatalogueTypeOK
<1>1. CatalogueInv => CatalogueTypeOK
  <2> SUFFICES ASSUME CatalogueInv PROVE CatalogueTypeOK
    OBVIOUS
  <2>1. \A i \in Ids : Live(i) => rows[i].home \in Owners /\ rows[i].ref \in References
    BY RowFacts DEF CatalogueInv, Row
  <2>2. QED
    BY <2>1 DEF CatalogueInv, CatalogueTyped, NamesUnique, CatalogueTypeOK
<1>2. QED
  BY CatalogueAlways, <1>1, PTL

\* Whatever is written between the count of the references and the deletion, a
\* category or a payer is not removed from under a subscription that holds it.
THEOREM HeldStay == CatalogueSpec => []HeldReferencesStay
<1>1. CatalogueInv => HeldReferencesStay
  BY DEF CatalogueInv, HeldThere, HeldReferencesStay
<1>2. QED
  BY CatalogueAlways, <1>1, PTL

\* A row leaves its household only with a tombstone of that household.
THEOREM OwnersDelete == CatalogueSpec => [][DeletedByItsOwner]_catalogueVars
<1>1. CatalogueInv /\ CatalogueNext => DeletedByItsOwner
  <2> SUFFICES ASSUME CatalogueInv, TablesStep, NEW i \in Ids, Live(i), rows'[i] # rows[i]
               PROVE  rows'[i].home = rows[i].home \/ (rows'[i] = Gone /\ <<rows[i].home, i>> \in tombs')
    BY CatalogueStep DEF DeletedByItsOwner
  <2>1. rows \in [Ids -> Row \cup {Gone}]
    BY DEF CatalogueInv, CatalogueTyped
  <2>2. ASSUME NEW k, NEW r, Written(k, r) PROVE rows'[i].home = rows[i].home
    BY <2>1, <2>2 DEF Written
  <2>3. ASSUME NEW home, NEW k, Removed(home, k) PROVE rows'[i] = Gone /\ <<rows[i].home, i>> \in tombs'
    BY <2>1, <2>3 DEF Removed, Deleted, Owned
  <2>4. QED
    BY <2>2, <2>3 DEF TablesStep
<1>2. CatalogueInv /\ [CatalogueNext]_catalogueVars => [DeletedByItsOwner]_catalogueVars
  BY <1>1
<1>3. QED
  BY CatalogueAlways, <1>2, PTL DEF CatalogueSpec

-----------------------------------------------------------------------------
(* Import and export. *)

\* An identifier that is taken, or whose row was deleted: it never goes back to neither.
Settled(i) == Live(i) \/ \E home \in Owners : <<home, i>> \in tombs

\* An identifier that was stored, taken or deleted stays so.
LEMMA SettledStays ==
  ASSUME CatalogueInv, TablesStep, NEW i \in Ids, Settled(i)
  PROVE  Settled(i)'
<1>1. rows \in [Ids -> Row \cup {Gone}]
  BY DEF CatalogueInv, CatalogueTyped
<1>2. CASE UNCHANGED <<rows, tombs>>
  BY <1>2 DEF Settled, Live
<1>3. ASSUME NEW k, NEW r, Written(k, r) PROVE Settled(i)'
  BY <1>1, <1>3, GoneRow DEF Written, Settled, Live
<1>4. ASSUME NEW home, NEW k, Removed(home, k) PROVE Settled(i)'
  BY <1>1, <1>4 DEF Removed, Deleted, Settled, Live
<1>5. QED
  BY <1>2, <1>3, <1>4 DEF TablesStep

\* A job moves by its own steps only.
LEMMA WhoActs ==
  ASSUME CatalogueInv, CatalogueNext, NEW k \in Jobs, job'[k] # job[k]
  PROVE  JobStep(k)
<1>1. job \in [Jobs -> JobRecord]
  BY DEF CatalogueInv, CatalogueTyped
<1>2. ASSUME NEW home \in Owners, StatementOf(home) PROVE FALSE
  BY <1>2, StatementWrites
<1>3. ASSUME NEW j \in Jobs, JobStep(j), j # k PROVE FALSE
  <2>1. PICK q : JobBecomes(j, q)
    BY <1>3, JobSteps
  <2>2. QED
    BY <1>1, <1>3, <2>1 DEF JobBecomes
<1>4. QED
  BY <1>2, <1>3 DEF CatalogueNext

\* The envelope lists a category once.
ListedOnce(b) ==
  \A m, n \in DOMAIN b.cats : m # n =>
    b.cats[m].id # b.cats[n].id /\ (b.cats[m].name = Blank \/ b.cats[m].name # b.cats[n].name)

Importing == {"list_existing", "import_categories"}
Exporting == {"export_methods", "export_subscriptions", "export_currency"}

\* What an import has not dealt with yet is still in its envelope.
SubscriptionsPending(q) ==
  q.pc \in Importing => \A n \in DOMAIN q.all.subs :
    \/ \E m \in DOMAIN q.bundle.subs : q.bundle.subs[m] = q.all.subs[n]
    \/ q.all.subs[n].id \in Ids /\ Settled(q.all.subs[n].id)
    \/ q.bundle.cats = <<>> /\ ~Sound(q.map, q.all.subs[n])

\* The categories dealt with are the first ones of the envelope.
DealtWith(q) == Len(q.all.cats) - Len(q.bundle.cats)
CategoriesPending(q) ==
  q.pc \in Importing =>
    /\ Len(q.bundle.cats) <= Len(q.all.cats)
    /\ \A m \in DOMAIN q.bundle.cats : q.bundle.cats[m] = q.all.cats[DealtWith(q) + m]
    /\ q.pc = "list_existing" => DealtWith(q) = 0

\* What was dealt with is linked, when the envelope lists a category once.
CategoriesLinked(q) ==
  q.pc \in Importing =>
    /\ ListedOnce(q.all)
    /\ \A n \in DOMAIN q.all.cats : n > DealtWith(q) => q.map[q.all.cats[n].id] = q.all.cats[n].id
    /\ q.pc = "import_categories" => \A n \in DOMAIN q.all.cats :
         LET c == q.all.cats[n] IN
         n <= DealtWith(q) /\ c.name # Blank /\ q.existing[c.name] # Nothing => q.map[c.id] = q.existing[c.name]

\* An export lists each of its categories once, and none that was there all along is left out.
ExportComplete(q) ==
  q.pc \in Exporting =>
    /\ \A c \in CategoryIds \cap q.before : (\A home \in Owners : <<home, c>> \notin tombs) =>
         Live(c) /\ (rows[c].home = q.home => \E n \in DOMAIN q.bundle.cats : q.bundle.cats[n].id = c)
    /\ ListedOnce(q.bundle)

TransfersInv ==
  /\ stops \in Nat /\ ListedOnce(envelope)
  /\ \A j \in Jobs : SubscriptionsPending(job[j]) /\ CategoriesPending(job[j]) /\ ExportComplete(job[j])

LinksInv == \A j \in Jobs : CategoriesLinked(job[j])

ExportLines(home) == {CategoryLine(c) : c \in ExportedCategories(home)}

\* An export lists each category of its owner, once by identifier and by name.
LEMMA ExportListsOnce ==
  ASSUME CatalogueInv, NEW home \in Owners, NEW b,
         b.cats = SetToSeq(ExportLines(home))
  PROVE  /\ ListedOnce(b)
         /\ \A c \in CategoryIds : Owned(c, home) => \E n \in DOMAIN b.cats : b.cats[n].id = c
<1> DEFINE lines == ExportLines(home)
<1>1. IsFiniteSet(lines)
  BY ExportedFinite DEF ExportLines
<1>2. \A x \in lines : \E c \in CategoryIds : Owned(c, home) /\ x = CategoryLine(c)
  BY DEF ExportedCategories, ExportLines
<1>3. \A x, y \in lines : x # y => x.id # y.id /\ x.name # y.name
  <2> SUFFICES ASSUME NEW c \in CategoryIds, NEW d \in CategoryIds, Owned(c, home), Owned(d, home), CategoryLine(c) # CategoryLine(d)
               PROVE  c # d /\ rows[c].name # rows[d].name
    BY <1>2 DEF CategoryLine
  <2>1. c # d
    OBVIOUS
  <2>2. QED
    BY <2>1 DEF CatalogueInv, NamesUnique, Owned
<1>4. \A c \in CategoryIds : Owned(c, home) => CategoryLine(c) \in lines /\ CategoryLine(c).id = c
  BY DEF ExportedCategories, CategoryLine, ExportLines
<1> HIDE DEF lines
<1> DEFINE list == SetToSeq(lines)
<1>5. /\ list \in Seq(lines)
      /\ \A x \in lines : \E n \in DOMAIN list : list[n] = x
      /\ \A m, n \in DOMAIN list : m # n => list[m] # list[n]
  BY <1>1, SetToSeqLists
<1>6. b.cats = list
  BY DEF lines
<1> HIDE DEF list
<1>7. \A n \in DOMAIN list : list[n] \in lines
  BY <1>5
<1>8. ListedOnce(b)
  BY <1>3, <1>5, <1>6, <1>7 DEF ListedOnce
<1>9. ASSUME NEW c \in CategoryIds, Owned(c, home)
      PROVE  \E n \in DOMAIN b.cats : b.cats[n].id = c
  <2>1. PICK n \in DOMAIN list : list[n] = CategoryLine(c)
    BY <1>4, <1>5, <1>9
  <2>2. QED
    BY <1>4, <1>6, <1>9, <2>1
<1>10. QED
  BY <1>8, <1>9

\* A category that was there all along stays, and stays in the envelope of an export that goes on.
LEMMA ExportKept ==
  ASSUME CatalogueInv, TablesStep, NEW k \in Jobs, ExportComplete(job[k]),
         job'[k].pc \in Exporting =>
           /\ job[k].pc \in Exporting /\ job'[k].home = job[k].home /\ job'[k].before = job[k].before
           /\ job'[k].bundle.cats = job[k].bundle.cats
  PROVE  ExportComplete(job[k])'
<1> DEFINE q == job[k]
<1>1. rows \in [Ids -> Row \cup {Gone}] /\ tombs \subseteq tombs'
  <2>1. rows \in [Ids -> Row \cup {Gone}]
    BY DEF CatalogueInv, CatalogueTyped
  <2>2. ASSUME NEW i, NEW r, Written(i, r) PROVE tombs \subseteq tombs'
    BY <2>2 DEF Written
  <2>3. ASSUME NEW home, NEW i, Removed(home, i) PROVE tombs \subseteq tombs'
    BY <2>3 DEF Removed, Deleted
  <2>4. QED
    BY <2>1, <2>2, <2>3 DEF TablesStep
<1> SUFFICES ASSUME job'[k].pc \in Exporting
             PROVE  /\ ListedOnce(job'[k].bundle)
                    /\ \A c \in CategoryIds \cap q.before : (\A home \in Owners : <<home, c>> \notin tombs') =>
                         rows'[c] # Gone /\ (rows'[c].home = q.home => \E n \in DOMAIN q.bundle.cats : q.bundle.cats[n].id = c)
  BY DEF ExportComplete, ListedOnce, Live
<1>2. ListedOnce(job'[k].bundle)
  BY DEF ExportComplete, ListedOnce
<1>3. ASSUME NEW c \in CategoryIds \cap q.before, \A home \in Owners : <<home, c>> \notin tombs'
      PROVE  rows'[c] # Gone /\ (rows'[c].home = q.home => \E n \in DOMAIN q.bundle.cats : q.bundle.cats[n].id = c)
  <2>1. Live(c) /\ (rows[c].home = q.home => \E n \in DOMAIN q.bundle.cats : q.bundle.cats[n].id = c)
    BY <1>1, <1>3 DEF ExportComplete
  <2>2. c \in Ids
    BY DEF Ids
  <2>3. rows'[c] # Gone /\ rows'[c].home = rows[c].home
    <3>1. CASE UNCHANGED <<rows, tombs>>
      BY <2>1, <3>1 DEF Live
    <3>2. ASSUME NEW i, NEW r, Written(i, r) PROVE rows'[c] # Gone /\ rows'[c].home = rows[c].home
      BY <1>1, <2>1, <2>2, <3>2, GoneRow DEF Written, Live
    <3>3. ASSUME NEW home, NEW i, Removed(home, i) PROVE rows'[c] # Gone /\ rows'[c].home = rows[c].home
      BY <1>1, <1>3, <2>1, <2>2, <3>3 DEF Removed, Deleted, Live
    <3>4. QED
      BY <3>1, <3>2, <3>3 DEF TablesStep
  <2>4. QED
    BY <2>1, <2>3
<1>4. QED
  BY <1>2, <1>3

\* The tables move, and a job that exports or imports stays where it is.
LEMMA WaitingStays ==
  ASSUME CatalogueInv, TablesStep, NEW k \in Jobs,
         SubscriptionsPending(job[k]) /\ CategoriesPending(job[k]) /\ ExportComplete(job[k]), job'[k] = job[k]
  PROVE  (SubscriptionsPending(job[k]) /\ CategoriesPending(job[k]) /\ ExportComplete(job[k]))'
<1> DEFINE q == job[k]
<1>1. q \in JobRecord /\ q.all.subs \in Seq(SubscriptionLines)
  BY JobThere DEF JobRecord, Envelopes
<1>2. rows \in [Ids -> Row \cup {Gone}] /\ tombs \subseteq tombs'
  <2>1. rows \in [Ids -> Row \cup {Gone}]
    BY DEF CatalogueInv, CatalogueTyped
  <2>2. ASSUME NEW i, NEW r, Written(i, r) PROVE tombs \subseteq tombs'
    BY <2>2 DEF Written
  <2>3. ASSUME NEW home, NEW i, Removed(home, i) PROVE tombs \subseteq tombs'
    BY <2>3 DEF Removed, Deleted
  <2>4. QED
    BY <2>1, <2>2, <2>3 DEF TablesStep
<1>3. SubscriptionsPending(job[k])'
  <2>1. \A i \in Ids : (rows[i] # Gone \/ \E home \in Owners : <<home, i>> \in tombs) =>
                        (rows'[i] # Gone \/ \E home \in Owners : <<home, i>> \in tombs')
    BY SettledStays DEF Settled, Live
  <2>2. QED
    BY <2>1 DEF SubscriptionsPending, Settled, Live, Sound, MappedRef
<1>4. CategoriesPending(job[k])'
  BY DEF CategoriesPending, DealtWith
<1>5. ExportComplete(job[k])'
  BY ExportKept DEF ExportComplete
<1>6. QED
  BY <1>3, <1>4, <1>5

\* The elements of a sequence are its head and those of its tail.
LEMMA TailOf ==
  ASSUME NEW S, NEW s \in Seq(S), s # <<>>
  PROVE  /\ Len(s) \in Nat /\ Len(s) > 0 /\ DOMAIN s = 1 .. Len(s)
         /\ Len(Tail(s)) = Len(s) - 1 /\ DOMAIN Tail(s) = 1 .. Len(s) - 1
         /\ \A m \in DOMAIN Tail(s) : m + 1 \in DOMAIN s /\ Tail(s)[m] = s[m + 1]
         /\ \A m \in DOMAIN s : s[m] = Head(s) \/ \E l \in DOMAIN Tail(s) : Tail(s)[l] = s[m]
<1>1. /\ Len(s) \in Nat /\ Len(s) > 0 /\ DOMAIN s = 1 .. Len(s)
      /\ Len(Tail(s)) = Len(s) - 1 /\ DOMAIN Tail(s) = 1 .. Len(s) - 1
  OBVIOUS
<1>2. \A m \in DOMAIN Tail(s) : m + 1 \in DOMAIN s /\ Tail(s)[m] = s[m + 1]
  BY <1>1
<1>3. ASSUME NEW m \in DOMAIN s, s[m] # Head(s) PROVE \E l \in DOMAIN Tail(s) : Tail(s)[l] = s[m]
  <2>1. Head(s) = s[1]
    OBVIOUS
  <2>2. m \in 2 .. Len(s)
    BY <1>1, <1>3, <2>1
  <2>3. m - 1 \in DOMAIN Tail(s) /\ (m - 1) + 1 = m
    BY <1>1, <2>2
  <2>4. QED
    BY <1>2, <2>3
<1>4. QED
  BY <1>1, <1>2, <1>3

\* A line is stored or its identifier was taken, or it is refused when the categories are done.
StoredOrRefused(k, s) ==
  \/ s.id \in Ids /\ rows'[s.id] # Gone
  \/ job[k].bundle.cats = <<>> /\ ~Sound(job[k].map, s)

\* An import goes on: of its envelope, a part has lost its first line, or none has.
ImportGoesOn(k) ==
  /\ job[k].pc \in Importing /\ job'[k].pc = "import_categories" /\ job'[k].all = job[k].all
  /\ \/ job'[k].bundle.cats = job[k].bundle.cats
     \/ job[k].pc = "import_categories" /\ job[k].bundle.cats # <<>> /\ job'[k].bundle.cats = Tail(job[k].bundle.cats)
  /\ \/ job'[k].bundle.subs = job[k].bundle.subs
     \/ /\ job[k].bundle.subs # <<>> /\ job'[k].bundle.subs = Tail(job[k].bundle.subs)
        /\ StoredOrRefused(k, Head(job[k].bundle.subs))
  /\ job[k].bundle.cats = <<>> => job'[k].map = job[k].map

\* An import of one category leaves the other lines to do.
LEMMA ImportCategoryTail ==
  ASSUME CatalogueInv, NEW k \in Jobs, ImportCategory(k)
  PROVE  /\ job'[k].pc = job[k].pc /\ job'[k].all = job[k].all /\ job'[k].bundle.subs = job[k].bundle.subs
         /\ job'[k].bundle.cats = Tail(job[k].bundle.cats)
<1>0. job \in [Jobs -> JobRecord]
  BY DEF CatalogueInv, CatalogueTyped
<1>1. \/ \E f : job' = [job EXCEPT ![k].bundle.cats = Tail(@), ![k].map = f]
      \/ \E n, i : job' = [job EXCEPT ![k].bundle.cats = Tail(@), ![k].existing[n] = i]
      \/ job' = [job EXCEPT ![k].bundle.cats = Tail(@)]
  BY Zenon DEF ImportCategory
<1>2. ASSUME NEW f, job' = [job EXCEPT ![k].bundle.cats = Tail(@), ![k].map = f]
      PROVE  /\ job'[k].pc = job[k].pc /\ job'[k].all = job[k].all /\ job'[k].bundle.subs = job[k].bundle.subs
             /\ job'[k].bundle.cats = Tail(job[k].bundle.cats)
  BY <1>0, <1>2 DEF JobRecord, Envelopes
<1>3. ASSUME NEW n, NEW i, job' = [job EXCEPT ![k].bundle.cats = Tail(@), ![k].existing[n] = i]
      PROVE  /\ job'[k].pc = job[k].pc /\ job'[k].all = job[k].all /\ job'[k].bundle.subs = job[k].bundle.subs
             /\ job'[k].bundle.cats = Tail(job[k].bundle.cats)
  BY <1>0, <1>3 DEF JobRecord, Envelopes
<1>4. ASSUME job' = [job EXCEPT ![k].bundle.cats = Tail(@)]
      PROVE  /\ job'[k].pc = job[k].pc /\ job'[k].all = job[k].all /\ job'[k].bundle.subs = job[k].bundle.subs
             /\ job'[k].bundle.cats = Tail(job[k].bundle.cats)
  BY <1>0, <1>4 DEF JobRecord, Envelopes
<1>5. QED
  BY <1>1, <1>2, <1>3, <1>4

\* A statement after which a job is importing begins an import or goes on with one.
LEMMA ImportForms ==
  ASSUME CatalogueInv, NEW k \in Jobs, JobStep(k), job'[k].pc \in Importing
  PROVE  \/ ImportGoesOn(k)
         \/ \E home \in Owners, b \in Bundles \cup ({envelope} \ {NoEnvelope}) : BeginImport(k, home, b)
<1>1. job \in [Jobs -> JobRecord] /\ rows \in [Ids -> Row \cup {Gone}] /\ job[k] \in JobRecord
  BY DEF CatalogueInv, CatalogueTyped
<1>2. \A j \in Jobs : \A q : job' = [job EXCEPT ![j] = q] => job'[j] = q
  BY <1>1
<1>3. NoJob.pc \notin Importing
  BY DEF NoJob, Importing
<1>4. CASE \E home \in Owners, i \in Guarded : CountReferences(k, home, i)
  BY <1>1, <1>4 DEF CountReferences, Start, NoJob, Importing
<1>5. CASE DeleteGuarded(k) \/ ExportCurrency(k) \/ ImportAnswers(k) \/ StopJob(k)
  BY <1>2, <1>3, <1>5 DEF DeleteGuarded, ExportCurrency, ImportAnswers, StopJob
<1>6. CASE \E home \in Owners : ExportCategories(k, home)
  BY <1>1, <1>6 DEF ExportCategories, Start, NoJob, Importing
<1>7. CASE ExportMethods(k) \/ ExportSubscriptions(k)
  BY <1>1, <1>7 DEF ExportMethods, ExportSubscriptions, JobAt, Importing, JobRecord
<1>8. CASE ListExisting(k)
  BY <1>1, <1>8 DEF ListExisting, JobAt, Importing, ImportGoesOn, JobRecord
<1>9. CASE ImportCategory(k)
  <2>1. /\ job'[k].pc = job[k].pc /\ job'[k].all = job[k].all /\ job'[k].bundle.subs = job[k].bundle.subs
        /\ job'[k].bundle.cats = Tail(job[k].bundle.cats)
    BY <1>9, ImportCategoryTail
  <2>2. QED
    BY <1>9, <2>1 DEF ImportCategory, JobAt, ImportGoesOn, Importing
<1>10. CASE ImportMethod(k)
  <2>1. /\ job'[k].pc = job[k].pc /\ job'[k].all = job[k].all /\ job'[k].bundle.subs = job[k].bundle.subs
        /\ job'[k].bundle.cats = job[k].bundle.cats /\ job'[k].map = job[k].map
    BY <1>1, <1>10 DEF ImportMethod, JobRecord, Envelopes
  <2>2. QED
    BY <1>10, <2>1 DEF ImportMethod, JobAt, ImportGoesOn, Importing
<1>11. CASE ImportSubscription(k)
  <2>1. /\ job'[k].pc = job[k].pc /\ job'[k].all = job[k].all /\ job'[k].bundle.subs = Tail(job[k].bundle.subs)
        /\ job'[k].bundle.cats = job[k].bundle.cats /\ job'[k].map = job[k].map
    BY <1>1, <1>11 DEF ImportSubscription, JobRecord, Envelopes
  <2>2. StoredOrRefused(k, Head(job[k].bundle.subs))
    <3> DEFINE s == Head(job[k].bundle.subs)
    <3>1. /\ job[k].bundle.subs \in Seq(SubscriptionLines) /\ job[k].bundle.subs # <<>> /\ job[k].bundle.cats = <<>>
          /\ job[k].home \in Owners /\ job[k].map \in [Labels -> Labels]
      BY <1>1, <1>11, JobThere DEF ImportSubscription, JobAt, JobPlaced, JobRecord
    <3>2. s \in SubscriptionLines
      BY <3>1, HeadAndTail
    <3>3. rows' = IF ~Sound(job[k].map, s) \/ Live(s.id) THEN rows
                  ELSE [rows EXCEPT ![s.id] = Subscription(job[k].home, MappedRef(job[k].map, s.ref))]
      BY <1>11 DEF ImportSubscription
    <3>4. Subscription(job[k].home, MappedRef(job[k].map, s.ref)) # Gone
      <4>1. \A home, ref : Subscription(home, ref).home = home
        BY DEF Subscription
      <4>2. QED
        BY <3>1, <4>1, GoneRow, CatalogueAssumption
    <3> HIDE DEF s
    <3>5. ASSUME ~Sound(job[k].map, s) PROVE StoredOrRefused(k, s)
      BY <3>1, <3>5 DEF StoredOrRefused
    <3>6. ASSUME Sound(job[k].map, s) PROVE StoredOrRefused(k, s)
      <4>1. s.id \in Ids
        BY <3>1, <3>2, <3>6, SoundLines
      <4>2. rows'[s.id] # Gone
        BY <1>1, <3>3, <3>4, <3>6, <4>1 DEF Live
      <4>3. QED
        BY <4>1, <4>2 DEF StoredOrRefused
    <3>7. QED
      BY <3>5, <3>6 DEF s
  <2>3. QED
    BY <1>11, <2>1, <2>2 DEF ImportSubscription, JobAt, ImportGoesOn, Importing
<1>12. QED
  BY <1>4, <1>5, <1>6, <1>7, <1>8, <1>9, <1>10, <1>11 DEF JobStep

\* Whatever step is taken, what an import has not dealt with yet is still in its envelope.
LEMMA SubscriptionsGoOn ==
  ASSUME CatalogueInv, TablesStep, NEW k \in Jobs, SubscriptionsPending(job[k]), ImportGoesOn(k), job'[k] \in JobRecord
  PROVE  SubscriptionsPending(job[k])'
<1> DEFINE all == job[k].all.subs
           left == job[k].bundle.subs
           left2 == job'[k].bundle.subs
<1>1. all \in Seq(SubscriptionLines) /\ left \in Seq(SubscriptionLines)
  BY JobThere DEF JobRecord, Envelopes
<1>2. \A i \in Ids : (rows[i] # Gone \/ \E home \in Owners : <<home, i>> \in tombs) =>
                      (rows'[i] # Gone \/ \E home \in Owners : <<home, i>> \in tombs')
  BY SettledStays DEF Settled, Live
<1>3. job'[k].all.subs = all /\ job[k].pc \in Importing
  BY DEF ImportGoesOn
<1> DEFINE Refused(line) == job[k].bundle.cats = <<>> /\ ~Sound(job[k].map, line)
           Refused2(line) == job'[k].bundle.cats = <<>> /\ ~Sound(job'[k].map, line)
           There(i) == i \in Ids /\ (rows[i] # Gone \/ \E home \in Owners : <<home, i>> \in tombs)
           There2(i) == i \in Ids /\ (rows'[i] # Gone \/ \E home \in Owners : <<home, i>> \in tombs')
<1>4. left2 = left \/ (left # <<>> /\ left2 = Tail(left) /\ (There2(Head(left).id) \/ Refused(Head(left))))
  BY DEF ImportGoesOn, StoredOrRefused
<1>5. \A n \in DOMAIN all : (\E m \in DOMAIN left : left[m] = all[n]) \/ There(all[n].id) \/ Refused(all[n])
  BY <1>3 DEF SubscriptionsPending, Settled, Live
<1>6. \A line : Refused(line) => Refused2(line)
  BY DEF ImportGoesOn
<1>7. \A i : There(i) => There2(i)
  BY <1>2
<1>8. ASSUME NEW n \in DOMAIN all
      PROVE  (\E m \in DOMAIN left2 : left2[m] = all[n]) \/ There2(all[n].id) \/ Refused2(all[n])
  <2> HIDE DEF all, left, left2, Refused, Refused2, There, There2
  <2>2. CASE \E m \in DOMAIN left : left[m] = all[n]
    <3>1. PICK m \in DOMAIN left : left[m] = all[n]
      BY <2>2
    <3>2. CASE left2 = left
      BY <3>1, <3>2
    <3>3. CASE left # <<>> /\ left2 = Tail(left) /\ (There2(Head(left).id) \/ Refused(Head(left)))
      <4>1. left[m] = Head(left) \/ \E l \in DOMAIN Tail(left) : Tail(left)[l] = left[m]
        BY <1>1, <3>3, TailOf
      <4>2. QED
        BY <1>6, <3>1, <3>3, <4>1
    <3>4. QED
      BY <1>4, <3>2, <3>3
  <2>3. QED
    BY <1>5, <1>6, <1>7, <2>2
<1>9. QED
  BY <1>3, <1>8 DEF SubscriptionsPending, Settled, Live, Sound, MappedRef

\* The lines that are dealt with and those left make the whole envelope, statement
\* after statement.
LEMMA CategoriesGoOn ==
  ASSUME CatalogueInv, NEW k \in Jobs, CategoriesPending(job[k]), ImportGoesOn(k), job'[k] \in JobRecord
  PROVE  /\ CategoriesPending(job[k])'
         /\ \/ job'[k].bundle.cats = job[k].bundle.cats /\ DealtWith(job[k])' = DealtWith(job[k])
            \/ /\ job[k].pc = "import_categories" /\ job[k].bundle.cats # <<>>
               /\ DealtWith(job[k]) + 1 \in DOMAIN job[k].all.cats
               /\ Head(job[k].bundle.cats) = job[k].all.cats[DealtWith(job[k]) + 1]
               /\ DealtWith(job[k])' = DealtWith(job[k]) + 1
         /\ DealtWith(job[k]) \in Nat
<1> DEFINE all == job[k].all.cats
           left == job[k].bundle.cats
           left2 == job'[k].bundle.cats
           pc2 == job'[k].pc
<1>1. all \in Seq(CategoryLines) /\ left \in Seq(CategoryLines) /\ left2 \in Seq(CategoryLines)
  BY JobThere DEF JobRecord, Envelopes
<1>2. job'[k].all.cats = all /\ job[k].pc \in Importing /\ pc2 = "import_categories"
  BY DEF ImportGoesOn
<1>3. left2 = left \/ (job[k].pc = "import_categories" /\ left # <<>> /\ left2 = Tail(left))
  BY DEF ImportGoesOn
<1>4. Len(left) <= Len(all) /\ \A m \in DOMAIN left : left[m] = all[Len(all) - Len(left) + m]
  BY <1>2 DEF CategoriesPending, DealtWith
<1>5. /\ Len(left2) <= Len(all) /\ \A m \in DOMAIN left2 : left2[m] = all[Len(all) - Len(left2) + m]
      /\ \/ left2 = left
         \/ /\ job[k].pc = "import_categories" /\ left # <<>> /\ Len(all) - Len(left) + 1 \in DOMAIN all
            /\ Head(left) = all[Len(all) - Len(left) + 1]
            /\ Len(all) - Len(left2) = Len(all) - Len(left) + 1
      /\ Len(all) - Len(left) \in Nat
  <2> HIDE DEF all, left, left2
  <2>0. Len(all) \in Nat /\ Len(left) \in Nat /\ DOMAIN all = 1 .. Len(all)
    BY <1>1
  <2>1. CASE left2 = left
    BY <1>4, <2>0, <2>1
  <2>2. CASE job[k].pc = "import_categories" /\ left # <<>> /\ left2 = Tail(left)
    <3>1. /\ Len(left) > 0 /\ Len(left2) = Len(left) - 1 /\ DOMAIN left = 1 .. Len(left)
          /\ \A m \in DOMAIN left2 : m + 1 \in DOMAIN left /\ left2[m] = left[m + 1]
          /\ DOMAIN left2 = 1 .. Len(left) - 1
      BY <1>1, <2>2, TailOf
    <3>2. ASSUME NEW m \in DOMAIN left2 PROVE left2[m] = all[Len(all) - Len(left2) + m]
      <4>1. left2[m] = all[Len(all) - Len(left) + (m + 1)]
        BY <1>4, <3>1
      <4>2. Len(all) - Len(left) + (m + 1) = Len(all) - Len(left2) + m
        BY <2>0, <3>1
      <4>3. QED
        BY <4>1, <4>2
    <3>3. Head(left) = left[1] /\ 1 \in DOMAIN left
      BY <1>1, <2>2, <3>1
    <3>4. Len(all) - Len(left) + 1 \in DOMAIN all /\ Len(left2) <= Len(all) /\ Len(all) - Len(left) \in Nat
      BY <1>4, <2>0, <3>1
    <3>5. Head(left) = all[Len(all) - Len(left) + 1]
      BY <1>4, <3>3
    <3>6. Len(all) - Len(left2) = Len(all) - Len(left) + 1
      BY <2>0, <3>1
    <3>7. QED
      BY <2>2, <3>2, <3>4, <3>5, <3>6
  <2>3. QED
    BY <1>3, <2>1, <2>2
<1>6. DealtWith(job[k]) = Len(all) - Len(left) /\ DealtWith(job[k])' = Len(all) - Len(left2)
  BY <1>2 DEF DealtWith
<1>7. CategoriesPending(job[k])'
  BY <1>2, <1>5, <1>6 DEF CategoriesPending, DealtWith
<1>8. QED
  BY <1>5, <1>6, <1>7

\* What was dealt with is linked, and stays so.
LEMMA LinksGoOn ==
  ASSUME CatalogueInv, NEW k \in Jobs, CategoriesPending(job[k]), CategoriesLinked(job[k]),
         JobStep(k), ImportGoesOn(k), job'[k] \in JobRecord
  PROVE  CategoriesLinked(job[k])'
<1> DEFINE q == job[k]
           r == job'[k]
           all == job[k].all.cats
           d == DealtWith(job[k])
           e == DealtWith(job[k])'
<1>1. job \in [Jobs -> JobRecord] /\ q \in JobRecord /\ all \in Seq(CategoryLines) /\ q.bundle.cats \in Seq(CategoryLines)
  BY JobThere DEF CatalogueTyped, JobRecord, Envelopes
<1>2. /\ \/ r.bundle.cats = q.bundle.cats /\ e = d
         \/ /\ q.pc = "import_categories" /\ q.bundle.cats # <<>> /\ d + 1 \in DOMAIN all
            /\ Head(q.bundle.cats) = all[d + 1] /\ e = d + 1
      /\ d \in Nat /\ DOMAIN all \subseteq Nat
  BY <1>1, CategoriesGoOn
<1>3. q.pc \in Importing /\ r.pc = "import_categories" /\ r.all = q.all
  BY DEF ImportGoesOn
<1>4. /\ ListedOnce(q.all)
      /\ \A n \in DOMAIN all : n > d => q.map[all[n].id] = all[n].id
      /\ q.pc = "import_categories" => \A n \in DOMAIN all :
           n <= d /\ all[n].name # Blank /\ q.existing[all[n].name] # Nothing => q.map[all[n].id] = q.existing[all[n].name]
  BY <1>3 DEF CategoriesLinked
<1>5. \A m, n \in DOMAIN all : m # n => all[m].id # all[n].id /\ (all[m].name = Blank \/ all[m].name # all[n].name)
  BY <1>4 DEF ListedOnce
<1>6. \A n \in DOMAIN all : all[n].id \in Labels /\ all[n].name \in Names \cup {Blank}
  <2> HIDE DEF all
  <2>1. \A n \in DOMAIN all : all[n] \in CategoryLines
    BY <1>1
  <2>2. QED
    BY <2>1 DEF CategoryLines
<1> DEFINE Linked(map, existing, f) ==
             /\ \A n \in DOMAIN all : n > f => map[all[n].id] = all[n].id
             /\ \A n \in DOMAIN all :
                  n <= f /\ all[n].name # Blank /\ existing[all[n].name] # Nothing => map[all[n].id] = existing[all[n].name]
<1>7. q.map \in [Labels -> Labels] /\ q.existing \in [Names -> CategoryIds \cup {Nothing}]
  BY <1>1 DEF JobRecord
<1>8. CASE ListExisting(k)
  <2>1. d = 0 /\ r.map = q.map /\ r.bundle.cats = q.bundle.cats
    BY <1>1, <1>8 DEF ListExisting, JobAt, CategoriesPending, Importing, JobRecord
  <2>2. e = d /\ q.pc # "import_categories"
    BY <1>2, <1>3, <1>8, <2>1 DEF ListExisting, JobAt
  <2>3. \A n \in DOMAIN all : n > d /\ n > e /\ ~(n <= e)
    <3>1. d = 0 /\ e = 0
      BY <2>1, <2>2
    <3> HIDE DEF d, e, all
    <3>2. \A n \in DOMAIN all : n \in Nat /\ n > 0
      BY <1>1
    <3>3. QED
      BY <3>1, <3>2
  <2>4. Linked(r.map, r.existing, e)
    <3> HIDE DEF d, e
    <3>1. QED
      BY <1>4, <2>1, <2>3
  <2>5. QED
    BY <1>3, <1>4, <2>4 DEF CategoriesLinked, DealtWith
<1>9. CASE ImportMethod(k) \/ ImportSubscription(k)
  <2>1. r.map = q.map /\ r.existing = q.existing /\ r.bundle.cats = q.bundle.cats /\ q.bundle.cats = <<>>
    <3>1. CASE ImportMethod(k)
      BY <1>1, <3>1 DEF ImportMethod, JobRecord, Envelopes
    <3>2. CASE ImportSubscription(k)
      BY <1>1, <3>2 DEF ImportSubscription, JobRecord, Envelopes
    <3>3. QED
      BY <1>9, <3>1, <3>2
  <2>2. e = d /\ q.pc = "import_categories"
    BY <1>2, <1>9, <2>1 DEF ImportMethod, ImportSubscription, JobAt
  <2>3. Linked(r.map, r.existing, e)
    BY <1>4, <2>1, <2>2
  <2>4. QED
    BY <1>3, <1>4, <2>3 DEF CategoriesLinked, DealtWith
<1>10. CASE ImportCategory(k)
  <2> DEFINE c == Head(q.bundle.cats)
             known == IF c.name = Blank THEN Nothing ELSE q.existing[c.name]
  <2>1. q.pc = "import_categories" /\ q.bundle.cats # <<>>
    BY <1>10 DEF ImportCategory, JobAt
  <2>2. r.bundle.cats # q.bundle.cats
    <3>1. r.bundle.cats = Tail(q.bundle.cats)
      BY <1>10, <2>1, ImportCategoryTail
    <3>2. Len(Tail(q.bundle.cats)) # Len(q.bundle.cats)
      BY <1>1, <2>1
    <3>3. QED
      BY <3>1, <3>2
  <2>3. d + 1 \in DOMAIN all /\ c = all[d + 1] /\ e = d + 1
    BY <1>2, <2>2
  <2>4. c.id \in Labels /\ c.name \in Names \cup {Blank}
    BY <1>6, <2>3
  <2>5. \/ known # Nothing /\ job' = [job EXCEPT ![k].bundle.cats = Tail(@), ![k].map = Remapped(@, c.id, known)]
        \/ c.name # Blank /\ job' = [job EXCEPT ![k].bundle.cats = Tail(@), ![k].existing[c.name] = c.id]
        \/ known = Nothing /\ job' = [job EXCEPT ![k].bundle.cats = Tail(@)]
    BY <1>10 DEF ImportCategory, CategoryCreatable
  <2>6. \/ known # Nothing /\ r.map = [q.map EXCEPT ![c.id] = known] /\ r.existing = q.existing
        \/ c.name # Blank /\ r.map = q.map /\ r.existing = [q.existing EXCEPT ![c.name] = c.id]
        \/ known = Nothing /\ r.map = q.map /\ r.existing = q.existing
    <3> HIDE DEF known
    <3>1. ASSUME known # Nothing, job' = [job EXCEPT ![k].bundle.cats = Tail(@), ![k].map = Remapped(@, c.id, known)]
          PROVE  r.map = [q.map EXCEPT ![c.id] = known] /\ r.existing = q.existing
      BY <1>1, <3>1 DEF Remapped, JobRecord
    <3>2. ASSUME c.name # Blank, job' = [job EXCEPT ![k].bundle.cats = Tail(@), ![k].existing[c.name] = c.id]
          PROVE  r.map = q.map /\ r.existing = [q.existing EXCEPT ![c.name] = c.id]
      BY <1>1, <3>2 DEF JobRecord
    <3>3. ASSUME known = Nothing, job' = [job EXCEPT ![k].bundle.cats = Tail(@)]
          PROVE  r.map = q.map /\ r.existing = q.existing
      BY <1>1, <3>3 DEF JobRecord
    <3>4. QED
      BY <2>5, <3>1, <3>2, <3>3
  <2>7. \A n \in DOMAIN all : n # d + 1 =>
          all[n].id # c.id /\ (all[n].name = Blank \/ all[n].name # c.name)
    BY <1>5, <2>3
  <2>8. Linked(r.map, r.existing, d + 1)
    <3> DEFINE m == q.map
               x == q.existing
               m2 == r.map
               x2 == r.existing
    <3>1. \A n \in DOMAIN all : n > d => m[all[n].id] = all[n].id
      BY <1>4
    <3>2. \A n \in DOMAIN all : n <= d /\ all[n].name # Blank /\ x[all[n].name] # Nothing => m[all[n].id] = x[all[n].name]
      BY <1>4, <2>1
    <3>3. m \in [Labels -> Labels] /\ x \in [Names -> CategoryIds \cup {Nothing}]
      BY <1>7
    <3>4. \/ known # Nothing /\ m2 = [m EXCEPT ![c.id] = known] /\ x2 = x
          \/ c.name # Blank /\ m2 = m /\ x2 = [x EXCEPT ![c.name] = c.id]
          \/ known = Nothing /\ m2 = m /\ x2 = x
      BY <2>6
    <3>5. known = IF c.name = Blank THEN Nothing ELSE x[c.name]
      OBVIOUS
    <3> HIDE DEF m, x, m2, x2, c, d, all, known
    <3>6. ASSUME NEW n \in DOMAIN all, n > d + 1 PROVE m2[all[n].id] = all[n].id
      BY <1>2, <1>6, <2>4, <2>7, <3>1, <3>3, <3>4, <3>6
    <3>7. ASSUME NEW n \in DOMAIN all, n <= d + 1, all[n].name # Blank, x2[all[n].name] # Nothing
          PROVE  m2[all[n].id] = x2[all[n].name]
      <4>1. CASE n = d + 1
        <5>1. m[c.id] = c.id
          BY <1>2, <2>3, <3>1
        <5>2. QED
          BY <2>3, <2>4, <3>3, <3>4, <3>5, <3>7, <4>1, <5>1
      <4>2. CASE n # d + 1
        <5>1. n <= d
          BY <1>2, <3>7, <4>2
        <5>2. QED
          BY <1>6, <2>4, <2>7, <3>2, <3>3, <3>4, <3>7, <4>2, <5>1
      <4>3. QED
        BY <4>1, <4>2
    <3>8. QED
      BY <3>6, <3>7 DEF m2, x2
  <2>9. QED
    BY <1>3, <1>4, <2>3, <2>8 DEF CategoriesLinked, DealtWith
<1>11. ~(ImportAnswers(k) \/ StopJob(k))
  BY <1>1, <1>3 DEF ImportAnswers, StopJob, NoJob
<1>12. ~\E home \in Owners, i \in Guarded : CountReferences(k, home, i)
  BY <1>3 DEF CountReferences, Start, JobAt, Importing
<1>13. ~\E home \in Owners : ExportCategories(k, home)
  BY <1>3 DEF ExportCategories, Start, JobAt, Importing
<1>14. ~\E home \in Owners, b \in Bundles \cup ({envelope} \ {NoEnvelope}) : BeginImport(k, home, b)
  BY <1>3 DEF BeginImport, Start, JobAt, Importing
<1>15. ~(DeleteGuarded(k) \/ ExportMethods(k) \/ ExportSubscriptions(k) \/ ExportCurrency(k))
  BY <1>3 DEF DeleteGuarded, ExportMethods, ExportSubscriptions, ExportCurrency, JobAt, Importing
<1>16. QED
  BY <1>8, <1>9, <1>10, <1>11, <1>12, <1>13, <1>14, <1>15 DEF JobStep

\* An import that begins has dealt with nothing.
LEMMA ImportBegins ==
  ASSUME CatalogueInv, NEW k \in Jobs, NEW home \in Owners, NEW b \in Bundles \cup ({envelope} \ {NoEnvelope}),
         BeginImport(k, home, b)
  PROVE  /\ (SubscriptionsPending(job[k]) /\ CategoriesPending(job[k]))'
         /\ ListedOnce(b) => CategoriesLinked(job[k])'
<1> DEFINE r == job'[k]
           all == b.cats
<1>1. b \in Envelopes /\ all \in Seq(CategoryLines)
  BY EnvelopeValues DEF CatalogueInv, CatalogueTyped, Envelopes
<1>2. r.pc = "list_existing" /\ r.bundle = b /\ r.all = b /\ r.map = [i \in Labels |-> i]
  BY DEF BeginImport, Start, NoJob, CatalogueInv, CatalogueTyped
<1>3. SubscriptionsPending(job[k])'
  BY <1>2 DEF SubscriptionsPending
<1>4. Len(all) \in Nat /\ DOMAIN all = 1 .. Len(all)
  BY <1>1
<1>5. CategoriesPending(job[k])'
  <2>1. Len(all) <= Len(all) /\ Len(all) - Len(all) = 0 /\ \A m \in DOMAIN all : 0 + m = m
    BY <1>4
  <2> HIDE DEF all
  <2>2. QED
    BY <1>2, <2>1 DEF CategoriesPending, DealtWith, all
<1>6. ASSUME NEW n \in DOMAIN all PROVE r.map[all[n].id] = all[n].id
  <2>1. all[n] \in CategoryLines
    BY <1>1, <1>6
  <2>2. QED
    BY <1>2, <2>1 DEF CategoryLines
<1>7. ASSUME ListedOnce(b) PROVE CategoriesLinked(job[k])'
  BY <1>2, <1>6, <1>7 DEF CategoriesLinked, ListedOnce
<1>8. QED
  BY <1>3, <1>5, <1>7

\* An export goes on with the categories it listed first.
LEMMA ExportForms ==
  ASSUME CatalogueInv, NEW k \in Jobs, JobStep(k), job'[k].pc \in Exporting
  PROVE  \/ /\ job[k].pc \in Exporting /\ job'[k].home = job[k].home /\ job'[k].before = job[k].before
            /\ job'[k].bundle.cats = job[k].bundle.cats
         \/ /\ UNCHANGED <<rows, tombs>> /\ job'[k].before = {i \in Ids : Live(i)} /\ job'[k].home \in Owners
            /\ job'[k].bundle.cats = SetToSeq(ExportLines(job'[k].home))
<1>1. job \in [Jobs -> JobRecord] /\ job[k] \in JobRecord
  BY DEF CatalogueInv, CatalogueTyped
<1>2. CASE \E home \in Owners : ExportCategories(k, home)
  BY <1>1, <1>2 DEF ExportCategories, Start, NoJob, NoEnvelope, CategoryLine, ExportLines
<1>3. CASE ExportMethods(k) \/ ExportSubscriptions(k)
  BY <1>1, <1>3 DEF ExportMethods, ExportSubscriptions, JobAt, Exporting, JobRecord, Envelopes
<1>4. ~(DeleteGuarded(k) \/ ExportCurrency(k) \/ ImportAnswers(k) \/ StopJob(k))
  BY <1>1 DEF DeleteGuarded, ExportCurrency, ImportAnswers, StopJob, NoJob, Exporting
<1>5. ~\E home \in Owners, i \in Guarded : CountReferences(k, home, i)
  BY <1>1 DEF CountReferences, Start, NoJob, Exporting
<1>6. ~\E home \in Owners, b \in Bundles \cup ({envelope} \ {NoEnvelope}) : BeginImport(k, home, b)
  BY <1>1 DEF BeginImport, Start, NoJob, Exporting
<1>7. ~ListExisting(k)
  BY <1>1 DEF ListExisting, Exporting, JobRecord
<1>8. ~ImportCategory(k)
  BY <1>1, ImportCategoryTail DEF ImportCategory, JobAt, Exporting
<1>9. ~ImportMethod(k)
  BY <1>1 DEF ImportMethod, JobAt, Exporting, JobRecord
<1>10. ~ImportSubscription(k)
  BY <1>1 DEF ImportSubscription, JobAt, Exporting, JobRecord
<1>11. QED
  BY <1>2, <1>3, <1>4, <1>5, <1>6, <1>7, <1>8, <1>9, <1>10 DEF JobStep

\* What an export has read and has still to read stays complete.
LEMMA ExportGoesOn ==
  ASSUME CatalogueInv, TablesStep, NEW k \in Jobs, JobStep(k), ExportComplete(job[k])
  PROVE  ExportComplete(job[k])'
<1>1. CASE job'[k].pc \notin Exporting
  BY <1>1 DEF ExportComplete
<1>2. CASE /\ job'[k].pc \in Exporting
           /\ job[k].pc \in Exporting /\ job'[k].home = job[k].home /\ job'[k].before = job[k].before
           /\ job'[k].bundle.cats = job[k].bundle.cats
  BY <1>2, ExportKept
<1>3. CASE /\ job'[k].pc \in Exporting
           /\ UNCHANGED <<rows, tombs>> /\ job'[k].before = {i \in Ids : Live(i)} /\ job'[k].home \in Owners
           /\ job'[k].bundle.cats = SetToSeq(ExportLines(job'[k].home))
  <2> DEFINE b == job'[k].bundle
             home == job'[k].home
  <2>1. ListedOnce(b) /\ \A c \in CategoryIds : Owned(c, home) => \E n \in DOMAIN b.cats : b.cats[n].id = c
    <3>1. home \in Owners /\ b.cats = SetToSeq(ExportLines(home))
      BY <1>3
    <3> HIDE DEF b, home
    <3>2. QED
      BY <3>1, ExportListsOnce
  <2>2. \A c \in CategoryIds \cap job'[k].before : rows'[c] # Gone /\ rows'[c] = rows[c]
    BY <1>3 DEF Live
  <2>3. \A c \in CategoryIds \cap job'[k].before :
          rows'[c] # Gone /\ (rows'[c].home = home => \E n \in DOMAIN b.cats : b.cats[n].id = c)
    BY <2>1, <2>2 DEF Owned, Live
  <2>4. QED
    BY <2>1, <2>3 DEF ExportComplete, Live, ListedOnce
<1>4. QED
  BY <1>1, <1>2, <1>3, ExportForms

\* The count of the stops, and the last export, which lists a category once.
LEMMA LastExport ==
  ASSUME CatalogueInv, TransfersInv, CatalogueNext
  PROVE  stops' \in Nat /\ ListedOnce(envelope')
<1>1. stops \in Nat /\ ListedOnce(envelope)
  BY DEF TransfersInv
<1>2. ASSUME NEW home \in Owners, StatementOf(home) PROVE UNCHANGED <<stops, envelope>>
  BY <1>2 DEF StatementOf, CreateCategory, CreateEntry, CreateSubscription, UpdateSubscription, RenameCategory,
              RenameEntry, DeleteUnguarded, SetReferenceCurrency
<1>3. ASSUME NEW j \in Jobs, JobStep(j), ~ExportCurrency(j) PROVE envelope' = envelope
  BY <1>3 DEF JobStep, CountReferences, DeleteGuarded, ExportCategories, ExportMethods, ExportSubscriptions,
              BeginImport, ListExisting, ImportCategory, ImportMethod, ImportSubscription, ImportAnswers, StopJob
<1>4. ASSUME NEW j \in Jobs, JobStep(j) PROVE stops' = stops \/ stops' = stops + 1
  BY <1>4 DEF JobStep, CountReferences, DeleteGuarded, ExportCategories, ExportMethods, ExportSubscriptions, ExportCurrency,
              BeginImport, ListExisting, ImportCategory, ImportMethod, ImportSubscription, ImportAnswers, StopJob
<1>5. ASSUME NEW j \in Jobs, ExportCurrency(j) PROVE ListedOnce(envelope')
  <2>1. ListedOnce(job[j].bundle)
    BY <1>5 DEF TransfersInv, ExportComplete, ExportCurrency, JobAt, Exporting
  <2>2. job[j].bundle \in Envelopes
    BY JobThere
  <2>3. envelope'.cats = job[j].bundle.cats
    BY <1>5, <2>2 DEF ExportCurrency, Envelopes
  <2>4. QED
    BY <2>1, <2>3 DEF ListedOnce
<1>6. ASSUME NEW home \in Owners, StatementOf(home) PROVE stops' \in Nat /\ ListedOnce(envelope')
  BY <1>1, <1>2, <1>6
<1>7. ASSUME NEW j \in Jobs, JobStep(j) PROVE stops' \in Nat /\ ListedOnce(envelope')
  <2>1. stops' \in Nat
    BY <1>1, <1>4, <1>7
  <2>2. ListedOnce(envelope')
    BY <1>1, <1>3, <1>5, <1>7
  <2>3. QED
    BY <2>1, <2>2
<1>8. QED
  BY <1>6, <1>7 DEF CatalogueNext

\* Every step keeps what is said of transfers.
LEMMA TransfersStep ==
  ASSUME CatalogueInv, TransfersInv, [CatalogueNext]_catalogueVars
  PROVE  TransfersInv'
<1>1. CASE CatalogueNext
  <2>1. TablesStep /\ job' \in [Jobs -> JobRecord]
    BY <1>1, CatalogueStep, CatalogueStepInv DEF CatalogueInv, CatalogueTyped
  <2>2. ASSUME NEW k \in Jobs
        PROVE  (SubscriptionsPending(job[k]) /\ CategoriesPending(job[k]) /\ ExportComplete(job[k]))'
    <3>1. SubscriptionsPending(job[k]) /\ CategoriesPending(job[k]) /\ ExportComplete(job[k])
      BY DEF TransfersInv
    <3>2. CASE job'[k] = job[k]
      BY <2>1, <3>1, <3>2, WaitingStays
    <3>3. CASE job'[k] # job[k]
      <4>1. JobStep(k) /\ job'[k] \in JobRecord
        BY <1>1, <2>1, <3>3, WhoActs
      <4>2. ExportComplete(job[k])'
        BY <2>1, <3>1, <4>1, ExportGoesOn
      <4>3. (SubscriptionsPending(job[k]) /\ CategoriesPending(job[k]))'
        <5>1. CASE job'[k].pc \notin Importing
          BY <5>1 DEF SubscriptionsPending, CategoriesPending
        <5>2. CASE ImportGoesOn(k)
          BY <2>1, <3>1, <4>1, <5>2, SubscriptionsGoOn, CategoriesGoOn
        <5>3. ASSUME NEW home \in Owners, NEW b \in Bundles \cup ({envelope} \ {NoEnvelope}), BeginImport(k, home, b)
              PROVE  (SubscriptionsPending(job[k]) /\ CategoriesPending(job[k]))'
          BY <5>3, ImportBegins
        <5>4. QED
          BY <4>1, <5>1, <5>2, <5>3, ImportForms
      <4>4. QED
        BY <4>2, <4>3
    <3>4. QED
      BY <3>2, <3>3
  <2>3. stops' \in Nat /\ ListedOnce(envelope')
    BY <1>1, LastExport
  <2>4. QED
    BY <2>2, <2>3 DEF TransfersInv, ListedOnce
<1>2. CASE UNCHANGED catalogueVars
  <2>1. rows' = rows /\ tombs' = tombs /\ job' = job /\ stops' = stops /\ envelope' = envelope
    BY <1>2 DEF catalogueVars
  <2>2. ASSUME NEW k \in Jobs
        PROVE  (SubscriptionsPending(job[k]) /\ CategoriesPending(job[k]) /\ ExportComplete(job[k]))'
    <3>1. SubscriptionsPending(job[k]) /\ CategoriesPending(job[k]) /\ ExportComplete(job[k])
      BY DEF TransfersInv
    <3>2. SubscriptionsPending(job[k])'
      BY <2>1, <3>1 DEF SubscriptionsPending, Settled, Live
    <3>3. CategoriesPending(job[k])'
      BY <2>1, <3>1 DEF CategoriesPending, DealtWith
    <3>4. ExportComplete(job[k])'
      BY <2>1, <3>1 DEF ExportComplete, Live, ListedOnce
    <3>5. QED
      BY <3>2, <3>3, <3>4
  <2>3. QED
    BY <2>1, <2>2 DEF TransfersInv, ListedOnce
<1>3. QED
  BY <1>1, <1>2

\* With envelopes that list a category once, the links of an import hold too.
LEMMA LinksStep ==
  ASSUME CatalogueInv, TransfersInv, LinksInv, [CatalogueNext]_catalogueVars, \A b \in Bundles : ListedOnce(b)
  PROVE  LinksInv'
<1>1. CASE CatalogueNext
  <2>1. job' \in [Jobs -> JobRecord]
    BY <1>1, CatalogueStepInv DEF CatalogueInv, CatalogueTyped
  <2>2. ASSUME NEW k \in Jobs PROVE CategoriesLinked(job[k])'
    <3>1. CategoriesPending(job[k]) /\ CategoriesLinked(job[k])
      BY DEF TransfersInv, LinksInv
    <3>2. CASE job'[k] = job[k]
      BY <3>1, <3>2 DEF CategoriesLinked, DealtWith
    <3>3. CASE job'[k] # job[k]
      <4>1. JobStep(k) /\ job'[k] \in JobRecord
        BY <1>1, <2>1, <3>3, WhoActs
      <4>2. CASE job'[k].pc \notin Importing
        BY <4>2 DEF CategoriesLinked
      <4>3. CASE ImportGoesOn(k)
        BY <3>1, <4>1, <4>3, LinksGoOn
      <4>4. ASSUME NEW home \in Owners, NEW b \in Bundles \cup ({envelope} \ {NoEnvelope}), BeginImport(k, home, b)
            PROVE  CategoriesLinked(job[k])'
        <5>1. ListedOnce(b)
          BY DEF TransfersInv
        <5>2. QED
          BY <4>4, <5>1, ImportBegins
      <4>5. QED
        BY <4>1, <4>2, <4>3, <4>4, ImportForms
    <3>4. QED
      BY <3>2, <3>3
  <2>3. QED
    BY <2>2 DEF LinksInv
<1>2. CASE UNCHANGED catalogueVars
  BY <1>2 DEF catalogueVars, LinksInv, CategoriesLinked, DealtWith
<1>3. QED
  BY <1>1, <1>2

\* No transfer is under way at first.
LEMMA TransfersInit == CatalogueInit => TransfersInv /\ LinksInv
<1> SUFFICES ASSUME CatalogueInit PROVE TransfersInv /\ LinksInv
  OBVIOUS
<1>1. stops \in Nat /\ ListedOnce(envelope)
  BY DEF CatalogueInit, NoEnvelope, ListedOnce
<1>2. \A j \in Jobs : job[j].pc \notin Importing /\ job[j].pc \notin Exporting
  BY DEF CatalogueInit, NoJob, Importing, Exporting
<1>3. QED
  BY <1>1, <1>2 DEF TransfersInv, LinksInv, SubscriptionsPending, CategoriesPending, CategoriesLinked, ExportComplete

\* How an import ends without a stop: with nothing left in its envelope.
LEMMA ImportEnds ==
  ASSUME CatalogueInv, TransfersInv, CatalogueNext PROVE ImportCompletes
<1> SUFFICES ASSUME NEW j \in Jobs, JobAt(j, "import_categories"), job'[j] = NoJob, stops' = stops,
                    NEW n \in DOMAIN job[j].all.subs, Sound(job[j].map, job[j].all.subs[n])
             PROVE  Settled(job[j].all.subs[n].id)
  BY DEF ImportCompletes, Settled
<1>1. JobStep(j) /\ job[j] \in JobRecord /\ stops \in Nat
  BY WhoActs DEF JobAt, NoJob, CatalogueInv, CatalogueTyped, TransfersInv
<1>2. ImportAnswers(j)
  <2>1. ~StopJob(j)
    BY <1>1 DEF StopJob
  <2>2. ~(ImportMethod(j) \/ ImportSubscription(j))
    BY <1>1 DEF ImportMethod, ImportSubscription, JobAt, NoJob, CatalogueInv, CatalogueTyped
  <2>3. ~ImportCategory(j)
    BY ImportCategoryTail DEF JobAt, NoJob
  <2>4. QED
    BY <1>1, <2>1, <2>2, <2>3 DEF JobStep, CountReferences, DeleteGuarded, ExportCategories, ExportMethods,
       ExportSubscriptions, ExportCurrency, BeginImport, ListExisting, Start, JobAt
<1>3. job[j].bundle.subs = <<>> /\ SubscriptionsPending(job[j])
  BY <1>2 DEF ImportAnswers, TransfersInv
<1>4. DOMAIN job[j].bundle.subs = {}
  BY <1>3
<1>5. QED
  BY <1>3, <1>4 DEF SubscriptionsPending, JobAt, Importing

\* How an export ends: with the categories it listed first.
LEMMA ExportEnds ==
  ASSUME CatalogueInv, TransfersInv, CatalogueNext PROVE ExportHolds
<1> SUFFICES ASSUME NEW j \in Jobs, JobAt(j, "export_currency"), job'[j] = NoJob, envelope' # envelope,
                    NEW c \in CategoryIds \cap job[j].before, Owned(c, job[j].home), \A home \in Owners : <<home, c>> \notin tombs
             PROVE  \E n \in DOMAIN envelope'.cats : envelope'.cats[n].id = c
  BY DEF ExportHolds
<1>1. JobStep(j) /\ job[j].bundle \in Envelopes
  BY WhoActs, JobThere DEF JobAt, NoJob
<1>2. ExportCurrency(j)
  BY <1>1 DEF JobStep, CountReferences, DeleteGuarded, ExportCategories, ExportMethods, ExportSubscriptions,
              BeginImport, ListExisting, ImportCategory, ImportMethod, ImportSubscription, ImportAnswers, StopJob
<1>3. envelope'.cats = job[j].bundle.cats
  BY <1>1, <1>2 DEF ExportCurrency, Envelopes
<1>4. \E n \in DOMAIN job[j].bundle.cats : job[j].bundle.cats[n].id = c
  BY DEF TransfersInv, ExportComplete, JobAt, Exporting, Owned
<1>5. QED
  BY <1>3, <1>4

\* A subscription that is imported refers to what its line referred to.
LEMMA LinksHold ==
  ASSUME CatalogueInv, TransfersInv, LinksInv, CatalogueNext PROVE ImportLinks
<1> SUFFICES ASSUME NEW j \in Jobs, JobAt(j, "import_categories"), job'[j].bundle.subs # job[j].bundle.subs,
                    NEW s \in SubscriptionIds, NEW n \in DOMAIN job[j].all.cats, ~Live(s), rows'[s] # Gone,
                    Head(job[j].bundle.subs).ref = job[j].all.cats[n].id, job[j].all.cats[n].name # Blank,
                    job[j].existing[job[j].all.cats[n].name] # Nothing
             PROVE  rows'[s].ref = job[j].existing[job[j].all.cats[n].name]
  BY DEF ImportLinks
<1> DEFINE all == job[j].all.cats
           h == Head(job[j].bundle.subs)
<1>1. JobStep(j) /\ job[j] \in JobRecord /\ job \in [Jobs -> JobRecord] /\ rows \in [Ids -> Row \cup {Gone}]
  BY WhoActs DEF CatalogueInv, CatalogueTyped
<1>2. rows' # rows
  BY DEF Live
<1>3. ImportSubscription(j)
  <2>1. ~(ImportAnswers(j) \/ StopJob(j))
    BY <1>2 DEF ImportAnswers, StopJob
  <2>2. ~ImportMethod(j)
    BY <1>1 DEF ImportMethod, JobRecord, Envelopes
  <2>3. ~ImportCategory(j)
    BY ImportCategoryTail
  <2>4. QED
    BY <1>1, <2>1, <2>2, <2>3 DEF JobStep, CountReferences, DeleteGuarded, ExportCategories, ExportMethods,
       ExportSubscriptions, ExportCurrency, BeginImport, ListExisting, Start, JobAt
<1>4. rows' = IF ~Sound(job[j].map, h) \/ Live(h.id) THEN rows
              ELSE [rows EXCEPT ![h.id] = Subscription(job[j].home, MappedRef(job[j].map, h.ref))]
  BY <1>3 DEF ImportSubscription
<1>5. rows'[s] = Subscription(job[j].home, MappedRef(job[j].map, h.ref))
  <2> HIDE DEF h
  <2>1. s \in Ids
    BY DEF Ids
  <2>2. QED
    BY <1>1, <1>4, <2>1 DEF Live
<1>6. rows'[s].ref = MappedRef(job[j].map, h.ref)
  BY <1>5 DEF Subscription
<1>7. all \in Seq(CategoryLines) /\ job[j].bundle.cats = <<>>
  BY <1>1, <1>3 DEF JobRecord, Envelopes, ImportSubscription
<1>8. all[n].id \in Labels /\ n <= DealtWith(job[j])
  <2>1. DealtWith(job[j]) = Len(all) - 0
    BY <1>7 DEF DealtWith
  <2> HIDE DEF all
  <2>2. n \in DOMAIN all
    BY DEF all
  <2>3. all[n] \in CategoryLines /\ n \in 1 .. Len(all) /\ Len(all) \in Nat
    BY <1>7, <2>2
  <2>4. QED
    BY <2>1, <2>3 DEF CategoryLines
<1>9. job[j].map[all[n].id] = job[j].existing[all[n].name]
  BY <1>8 DEF LinksInv, CategoriesLinked, JobAt, Importing
<1>10. QED
  BY <1>6, <1>8, <1>9 DEF MappedRef

\* Whatever the envelope, and whatever of its lines are refused: an import that
\* answers has lost no subscription that can be stored, and an export has left out
\* no category that was there all along.
THEOREM TransfersComplete == CatalogueSpec => [][ImportCompletes /\ ExportHolds]_catalogueVars
<1>1. CatalogueInv /\ TransfersInv /\ [CatalogueNext]_catalogueVars => [ImportCompletes /\ ExportHolds]_catalogueVars
  BY ImportEnds, ExportEnds
<1>2. CatalogueSpec => [](CatalogueInv /\ TransfersInv)
  <2>1. CatalogueInit => CatalogueInv /\ TransfersInv
    BY CatalogueInitInv, TransfersInit
  <2>2. CatalogueInv /\ TransfersInv /\ [CatalogueNext]_catalogueVars => (CatalogueInv /\ TransfersInv)'
    BY CatalogueStepInv, TransfersStep
  <2>3. QED
    BY <2>1, <2>2, PTL DEF CatalogueSpec
<1>3. QED
  BY <1>1, <1>2, PTL DEF CatalogueSpec

\* When the envelopes that clients hold list a category once, as those that the
\* program exports do, every transfer keeps the links too.
THEOREM TransfersKept ==
  ASSUME \A b \in Bundles : ListedOnce(b)
  PROVE  CatalogueSpec => TransfersKeep
<1> DEFINE Inv == CatalogueInv /\ TransfersInv /\ LinksInv
<1>1. CatalogueInit => Inv
  BY CatalogueInitInv, TransfersInit
<1>2. Inv /\ [CatalogueNext]_catalogueVars => Inv'
  BY CatalogueStepInv, TransfersStep, LinksStep
<1>3. Inv /\ [CatalogueNext]_catalogueVars => [ImportLinks /\ ImportCompletes /\ ExportHolds]_catalogueVars
  BY ImportEnds, ExportEnds, LinksHold
<1> HIDE DEF Inv
<1>4. QED
  BY <1>1, <1>2, <1>3, PTL DEF CatalogueSpec, TransfersKeep
=============================================================================
