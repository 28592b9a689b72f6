---------------------------- MODULE FiguresProofs ----------------------------
(* Theorems about the calendar, the schedule, the rates, the statistics and   *)
(* the list, for every value of their constants, and the facts about sums,    *)
(* sorting and texts that they need.                                          *)
EXTENDS Listing, FiniteSetTheorems, WellFoundedInduction, TLAPS

-----------------------------------------------------------------------------
(* Induction over numbers and over finite sets, stated with sets. *)

\* The order of the natural numbers, as a set of pairs.
Below == {p \in Nat \X Nat : p[1] < p[2]}

\* A set of natural numbers that is not empty has a least element.
LEMMA Least ==
  ASSUME NEW T \in SUBSET Nat, T # {}
  PROVE  \E n \in T : \A m \in T : ~(m < n)
<1>1. IsWellFoundedOn(Below, Nat)
  BY NatLessThanWellFounded, Zenon DEF OpToRel, Below
<1>2. \E n \in T : \A m \in T : ~(<<m, n>> \in Below)
  BY <1>1, WFMin, Zenon
<1>3. QED
  BY <1>2 DEF Below

\* Induction, over a set of numbers: with zero and with the successor of each of
\* its elements, it is all of them.
LEMMA Count ==
  ASSUME NEW P \in SUBSET Nat, 0 \in P, \A n \in P : n + 1 \in P
  PROVE  P = Nat
<1> SUFFICES ASSUME Nat \ P # {} PROVE FALSE
  OBVIOUS
<1>1. PICK n \in Nat \ P : \A m \in Nat \ P : ~(m < n)
  BY Least
<1>2. n # 0 /\ n - 1 \in Nat /\ n - 1 < n
  BY <1>1
<1>3. n - 1 \in P
  BY <1>1, <1>2
<1>4. QED
  BY <1>1, <1>3

\* Induction over the subsets of a finite set: with the empty one, and with each
\* of its elements when one more member joins, a set of subsets is all of them.
LEMMA Gather ==
  ASSUME NEW S, IsFiniteSet(S), NEW P \in SUBSET (SUBSET S), {} \in P,
         \A T \in P : \A x \in S \ T : T \cup {x} \in P
  PROVE  P = SUBSET S
<1> DEFINE Good == {n \in Nat : \A T \in SUBSET S : Cardinality(T) = n => T \in P}
<1>1. \A T \in SUBSET S : IsFiniteSet(T) /\ Cardinality(T) \in Nat
  BY FS_Subset, FS_CardinalityType
<1>2. 0 \in Good
  BY <1>1, FS_EmptySet
<1>3. ASSUME NEW n \in Good PROVE n + 1 \in Good
  <2>1. SUFFICES ASSUME NEW T \in SUBSET S, Cardinality(T) = n + 1 PROVE T \in P
    OBVIOUS
  <2>2. T # {}
    <3>1. n \in Nat /\ n + 1 # 0
      OBVIOUS
    <3>2. QED
      BY <2>1, <3>1, FS_EmptySet
  <2>3. PICK x \in T : TRUE
    BY <2>2
  <2>4. IsFiniteSet(T) /\ Cardinality(T \ {x}) = n
    BY <1>1, <2>1, FS_RemoveElement
  <2>5. T \ {x} \in P
    BY <1>3, <2>4
  <2>6. x \in S \ (T \ {x}) /\ T = (T \ {x}) \cup {x}
    OBVIOUS
  <2>7. QED
    BY <2>5, <2>6
<1> HIDE DEF Good
<1>4. Good = Nat
  <2>1. Good \in SUBSET Nat
    BY DEF Good
  <2>2. QED
    BY <2>1, <1>2, <1>3, Count, Zenon
<1>5. QED
  BY <1>1, <1>4 DEF Good

-----------------------------------------------------------------------------
(* Sums over a finite set. *)

\* The element that a sum takes first.
Picked(s) == CHOOSE x \in s : TRUE

\* What the fold of a sum computes on a set of subsets that removals stay in.
SumsOn(g, f, D) ==
  /\ g = [s \in D |-> g[s]]
  /\ \A s \in D : g[s] = IF s = {} THEN 0 ELSE f[Picked(s)] + g[s \ {Picked(s)}]

\* The recursion of the community modules: what f sums to over each subset of
\* S.
SumRec(f, S) == CHOOSE g : g = [s \in SUBSET S |-> IF s = {} THEN 0 ELSE f[Picked(s)] + g[s \ {Picked(s)}]]

\* The sum of the library is the value of a recursive function.
LEMMA SumIsRec == ASSUME NEW f, NEW S PROVE SumFunctionOnSet(f, S) = SumRec(f, S)[S]
  BY Zenon DEF SumFunctionOnSet, FoldFunctionOnSet, MapThenFoldSet, SumRec, Picked

\* The subsets of no more than n elements.
UpTo(S, n) == {T \in SUBSET S : Cardinality(T) <= n}

\* The element that is taken is one of them.
LEMMA PickedIn == ASSUME NEW s, s # {} PROVE Picked(s) \in s
  BY DEF Picked

\* That function exists.
LEMMA SumRecExists ==
  ASSUME NEW f, NEW S, IsFiniteSet(S)
  PROVE  \E g : SumsOn(g, f, SUBSET S)
<1> DEFINE Good == {n \in Nat : \E g : SumsOn(g, f, UpTo(S, n))}
<1>1. \A T \in SUBSET S : IsFiniteSet(T) /\ Cardinality(T) \in Nat
  BY FS_Subset, FS_CardinalityType
<1>2. 0 \in Good
  <2>1. UpTo(S, 0) = {{}}
    BY <1>1, FS_EmptySet DEF UpTo
  <2>2. SumsOn([s \in {{}} |-> 0], f, {{}})
    BY DEF SumsOn
  <2>3. QED
    BY <2>1, <2>2
<1>3. ASSUME NEW n \in Good PROVE n + 1 \in Good
  <2>1. PICK g : SumsOn(g, f, UpTo(S, n))
    BY <1>3
  <2> DEFINE h == [s \in UpTo(S, n + 1) |-> IF s = {} THEN 0 ELSE f[Picked(s)] + g[s \ {Picked(s)}]]
  <2>2. ASSUME NEW s \in UpTo(S, n + 1), s # {}
        PROVE  s \ {Picked(s)} \in UpTo(S, n) /\ s \ {Picked(s)} \in UpTo(S, n + 1)
    <3>1. Picked(s) \in s
      BY <2>2, PickedIn
    <3>2. s \in SUBSET S /\ Cardinality(s) <= n + 1
      BY DEF UpTo
    <3>3. Cardinality(s \ {Picked(s)}) = Cardinality(s) - 1
      BY <3>1, <3>2, <1>1, FS_RemoveElement
    <3>4. QED
      BY <3>2, <3>3, <1>1 DEF UpTo
  <2>3. ASSUME NEW s \in UpTo(S, n) PROVE h[s] = g[s]
    <3>1. s \in UpTo(S, n + 1)
      BY <1>1 DEF UpTo
    <3>2. QED
      BY <3>1, <2>1 DEF SumsOn
  <2>4. ASSUME NEW s \in UpTo(S, n + 1)
        PROVE  h[s] = IF s = {} THEN 0 ELSE f[Picked(s)] + h[s \ {Picked(s)}]
    BY <2>2, <2>3
  <2>5. SumsOn(h, f, UpTo(S, n + 1))
    BY <2>4 DEF SumsOn
  <2>6. QED
    BY <2>5
<1> HIDE DEF Good
<1>4. Good = Nat
  <2>1. Good \in SUBSET Nat
    BY DEF Good
  <2>2. QED
    BY <2>1, <1>2, <1>3, Count, Zenon
<1>5. Cardinality(S) \in Nat /\ UpTo(S, Cardinality(S)) = SUBSET S
  BY <1>1, FS_Subset DEF UpTo
<1>6. \E g : SumsOn(g, f, UpTo(S, Cardinality(S)))
  BY <1>4, <1>5 DEF Good
<1>7. QED
  BY <1>5, <1>6

\* It is the only one: on the subsets of a subset it is the function of that one.
LEMMA SumRecAt ==
  ASSUME NEW f, NEW S, IsFiniteSet(S)
  PROVE  SumsOn(SumRec(f, S), f, SUBSET S)
<1>1. PICK g : SumsOn(g, f, SUBSET S)
  BY SumRecExists
<1>2. g = [s \in SUBSET S |-> IF s = {} THEN 0 ELSE f[Picked(s)] + g[s \ {Picked(s)}]]
  BY <1>1, Zenon DEF SumsOn
<1>3. SumRec(f, S) = [s \in SUBSET S |-> IF s = {} THEN 0 ELSE f[Picked(s)] + SumRec(f, S)[s \ {Picked(s)}]]
  BY <1>2, Zenon DEF SumRec
<1>4. QED
  BY <1>3, Zenon DEF SumsOn

\* The recursion has one solution: two functions that satisfy it are equal.
LEMMA SumsUnique ==
  ASSUME NEW f, NEW S, IsFiniteSet(S), NEW g, NEW h, NEW D, SUBSET S \subseteq D,
         SumsOn(g, f, SUBSET S), SumsOn(h, f, D)
  PROVE  \A T \in SUBSET S : g[T] = h[T]
<1> DEFINE Good == {n \in Nat : \A T \in SUBSET S : Cardinality(T) = n => g[T] = h[T]}
<1>1. \A T \in SUBSET S : IsFiniteSet(T) /\ Cardinality(T) \in Nat
  BY FS_Subset, FS_CardinalityType
<1>2. 0 \in Good
  BY <1>1, FS_EmptySet DEF SumsOn
<1>3. ASSUME NEW n \in Good PROVE n + 1 \in Good
  <2>1. SUFFICES ASSUME NEW T \in SUBSET S, Cardinality(T) = n + 1 PROVE g[T] = h[T]
    OBVIOUS
  <2>2. T # {}
    <3>1. n \in Nat /\ n + 1 # 0
      OBVIOUS
    <3>2. QED
      BY <2>1, <3>1, FS_EmptySet
  <2>3. Picked(T) \in T
    BY <2>2, PickedIn
  <2>4. Cardinality(T \ {Picked(T)}) = n
    BY <1>1, <2>1, <2>3, FS_RemoveElement
  <2>5. g[T \ {Picked(T)}] = h[T \ {Picked(T)}]
    BY <1>3, <2>4
  <2>6. QED
    BY <2>2, <2>5 DEF SumsOn
<1> HIDE DEF Good
<1>4. Good = Nat
  <2>1. Good \in SUBSET Nat
    BY DEF Good
  <2>2. QED
    BY <2>1, <1>2, <1>3, Count, Zenon
<1>5. QED
  BY <1>1, <1>4 DEF Good

\* The equation of a sum: nothing, or one element and the sum of the others.
LEMMA SumEquation ==
  ASSUME NEW f, NEW S, IsFiniteSet(S)
  PROVE  SumFunctionOnSet(f, S) = IF S = {} THEN 0
           ELSE f[Picked(S)] + SumFunctionOnSet(f, S \ {Picked(S)})
<1>1. SumsOn(SumRec(f, S), f, SUBSET S)
  BY SumRecAt
<1>2. CASE S = {}
  BY <1>1, <1>2, SumIsRec DEF SumsOn
<1>3. CASE S # {}
  <2> DEFINE T == S \ {Picked(S)}
  <2>1. IsFiniteSet(T) /\ T \in SUBSET S
    BY FS_Subset
  <2>2. SumsOn(SumRec(f, T), f, SUBSET T)
    BY <2>1, SumRecAt
  <2>3. SUBSET T \subseteq SUBSET S /\ T \in SUBSET T
    OBVIOUS
  <2>4. SumRec(f, T)[T] = SumRec(f, S)[T]
    <3> HIDE DEF T
    <3>1. \A U \in SUBSET T : SumRec(f, T)[U] = SumRec(f, S)[U]
      BY <2>1, <2>2, <2>3, <1>1, SumsUnique
    <3>2. QED
      BY <2>3, <3>1
  <2>5. QED
    BY <1>1, <1>3, <2>4, SumIsRec DEF SumsOn
<1>4. QED
  BY <1>2, <1>3

\* What f sums to over S, all of it natural numbers.
SumOn(f, S) == SumFunctionOnSet(f, S)

\* The terms of a sum: natural numbers over a finite set.
Amounts(f, S) == IsFiniteSet(S) /\ \A x \in S : f[x] \in Nat

\* The parts of a finite set are finite, and no larger.
LEMMA FiniteParts ==
  ASSUME NEW S, IsFiniteSet(S)
  PROVE  \A T \in SUBSET S : IsFiniteSet(T) /\ Cardinality(T) \in Nat /\ Cardinality(T) <= Cardinality(S)
  BY FS_Subset, FS_CardinalityType

\* The sum of natural numbers is one, and any element may be taken first.
LEMMA SumNat ==
  ASSUME NEW S, NEW f, Amounts(f, S)
  PROVE  SumFunctionOnSet(f, S) \in Nat
<1> DEFINE P == {T \in SUBSET S : SumOn(f, T) \in Nat}
           Good == {n \in Nat : \A T \in SUBSET S : Cardinality(T) = n => SumOn(f, T) \in Nat}
<1>1. IsFiniteSet(S) /\ \A T \in SUBSET S : IsFiniteSet(T) /\ Cardinality(T) \in Nat
  BY FiniteParts DEF Amounts
<1>2. \A T \in SUBSET S : SumOn(f, T) = IF T = {} THEN 0 ELSE f[Picked(T)] + SumOn(f, T \ {Picked(T)})
  BY <1>1, SumEquation DEF SumOn
<1>3. 0 \in Good
  BY <1>1, <1>2, FS_EmptySet
<1>4. ASSUME NEW n \in Good PROVE n + 1 \in Good
  <2>1. SUFFICES ASSUME NEW T \in SUBSET S, Cardinality(T) = n + 1 PROVE SumOn(f, T) \in Nat
    OBVIOUS
  <2>2. T # {}
    <3>1. n \in Nat /\ n + 1 # 0
      OBVIOUS
    <3>2. QED
      BY <2>1, <3>1, FS_EmptySet
  <2>3. Picked(T) \in T
    BY <2>2, PickedIn
  <2>4. Cardinality(T \ {Picked(T)}) = n
    <3>1. n \in Nat /\ IsFiniteSet(T)
      BY <1>1
    <3>2. QED
      BY <2>1, <2>3, <3>1, FS_RemoveElement
  <2>5. f[Picked(T)] \in Nat /\ SumOn(f, T \ {Picked(T)}) \in Nat
    BY <1>4, <2>3, <2>4 DEF Amounts
  <2>6. QED
    BY <1>2, <2>2, <2>5
<1> HIDE DEF Good
<1>5. Good = Nat
  <2>1. Good \in SUBSET Nat
    BY DEF Good
  <2>2. QED
    BY <2>1, <1>3, <1>4, Count, Zenon
<1>6. QED
  BY <1>1, <1>5 DEF Good, SumOn

\* Any element may be taken first: the choice of the recursion does not matter.
LEMMA SumTake ==
  ASSUME NEW S, NEW f, Amounts(f, S), NEW x \in S
  PROVE  SumFunctionOnSet(f, S) = f[x] + SumFunctionOnSet(f, S \ {x})
<1> DEFINE Good == {n \in Nat : \A T \in SUBSET S : Cardinality(T) = n =>
                      \A y \in T : SumOn(f, T) = f[y] + SumOn(f, T \ {y})}
<1>1. IsFiniteSet(S) /\ \A T \in SUBSET S : IsFiniteSet(T) /\ Cardinality(T) \in Nat
  BY FiniteParts DEF Amounts
<1>2. \A T \in SUBSET S : SumOn(f, T) = IF T = {} THEN 0 ELSE f[Picked(T)] + SumOn(f, T \ {Picked(T)})
  BY <1>1, SumEquation DEF SumOn
<1>2a. \A T \in SUBSET S : SumOn(f, T) \in Nat
  BY <1>1, SumNat DEF SumOn, Amounts
<1>3. 0 \in Good
  BY <1>1, FS_EmptySet
<1>4. ASSUME NEW n \in Good PROVE n + 1 \in Good
  <2>1. SUFFICES ASSUME NEW T \in SUBSET S, Cardinality(T) = n + 1, NEW y \in T
                 PROVE  SumOn(f, T) = f[y] + SumOn(f, T \ {y})
    OBVIOUS
  <2> DEFINE z == Picked(T)
  <2>2. z \in T
    BY PickedIn
  <2>3. Cardinality(T \ {z}) = n /\ Cardinality(T \ {y}) = n
    <3>1. n \in Nat /\ IsFiniteSet(T)
      BY <1>1
    <3> HIDE DEF z
    <3>2. \A w \in T : Cardinality(T \ {w}) = Cardinality(T) - 1
      BY <3>1, FS_RemoveElement
    <3>3. QED
      BY <2>1, <2>2, <3>1, <3>2
  <2>4. SumOn(f, T) = f[z] + SumOn(f, T \ {z})
    BY <1>2
  <2>5. CASE y = z
    BY <2>4, <2>5
  <2>6. CASE y # z
    <3> HIDE DEF z
    <3>1. y \in T \ {z} /\ z \in T \ {y} /\ (T \ {z}) \ {y} = (T \ {y}) \ {z}
      BY <2>2, <2>6
    <3>2. SumOn(f, T \ {z}) = f[y] + SumOn(f, (T \ {z}) \ {y})
      BY <1>4, <2>3, <3>1
    <3>3. SumOn(f, T \ {y}) = f[z] + SumOn(f, (T \ {y}) \ {z})
      BY <1>4, <2>3, <3>1
    <3>4. f[y] \in Nat /\ f[z] \in Nat /\ SumOn(f, (T \ {y}) \ {z}) \in Nat
      BY <2>2, <1>2a DEF Amounts
    <3>5. \A a, b, c \in Nat : a + (b + c) = b + (a + c)
      OBVIOUS
    <3>6. SumOn(f, T) = f[z] + (f[y] + SumOn(f, (T \ {y}) \ {z}))
      BY <2>4, <3>1, <3>2, Zenon
    <3>7. f[z] + (f[y] + SumOn(f, (T \ {y}) \ {z})) = f[y] + (f[z] + SumOn(f, (T \ {y}) \ {z}))
      BY <3>4, <3>5, Zenon
    <3>8. QED
      BY <3>3, <3>6, <3>7, Zenon
  <2>7. QED
    BY <2>5, <2>6
<1> HIDE DEF Good
<1>5. Good = Nat
  <2>1. Good \in SUBSET Nat
    BY DEF Good
  <2>2. QED
    BY <2>1, <1>3, <1>4, Count, Zenon
<1>6. QED
  BY <1>1, <1>5 DEF Good, SumOn

\* One element more.
LEMMA SumAdd ==
  ASSUME NEW S, NEW f, Amounts(f, S), NEW x, x \notin S, f[x] \in Nat
  PROVE  /\ Amounts(f, S \cup {x})
         /\ SumFunctionOnSet(f, S \cup {x}) = f[x] + SumFunctionOnSet(f, S)
<1>1. Amounts(f, S \cup {x})
  BY FS_AddElement DEF Amounts
<1>2. (S \cup {x}) \ {x} = S
  OBVIOUS
<1>3. QED
  BY <1>1, <1>2, SumTake

\* Nothing sums to zero.
LEMMA SumNothing == ASSUME NEW f PROVE SumFunctionOnSet(f, {}) = 0
  BY SumEquation, FS_EmptySet

\* Equal terms, equal sums.
LEMMA SumSame ==
  ASSUME NEW S, NEW f, NEW g, Amounts(f, S), \A x \in S : f[x] = g[x]
  PROVE  SumFunctionOnSet(f, S) = SumFunctionOnSet(g, S)
<1> DEFINE P == {T \in SUBSET S : SumOn(f, T) = SumOn(g, T)}
<1>1. IsFiniteSet(S) /\ {} \in P
  BY SumNothing DEF SumOn, Amounts
<1>2. ASSUME NEW T \in P, NEW x \in S \ T PROVE T \cup {x} \in P
  <2>1. Amounts(f, T) /\ Amounts(g, T) /\ f[x] \in Nat /\ g[x] = f[x] /\ SumOn(f, T) = SumOn(g, T)
    BY FiniteParts DEF Amounts
  <2>2. SumOn(f, T \cup {x}) = f[x] + SumOn(f, T) /\ SumOn(g, T \cup {x}) = g[x] + SumOn(g, T)
    BY <2>1, SumAdd DEF SumOn
  <2>3. QED
    BY <2>1, <2>2
<1>3. P \in SUBSET (SUBSET S)
  OBVIOUS
<1> HIDE DEF P
<1>4. P = SUBSET S
  BY <1>1, <1>2, <1>3, Gather
<1>5. QED
  BY <1>4 DEF P, SumOn

\* Two disjoint sets.
LEMMA SumUnion ==
  ASSUME NEW S, NEW R, NEW f, Amounts(f, S), Amounts(f, R), S \cap R = {}
  PROVE  SumFunctionOnSet(f, S \cup R) = SumFunctionOnSet(f, S) + SumFunctionOnSet(f, R)
<1> DEFINE P == {T \in SUBSET R : Amounts(f, S \cup T) /\ SumOn(f, S \cup T) = SumOn(f, S) + SumOn(f, T)}
<1>1. IsFiniteSet(R) /\ {} \in P
  <2>1. SumOn(f, S) \in Nat /\ SumOn(f, {}) = 0 /\ S \cup {} = S
    BY SumNothing, SumNat DEF SumOn
  <2>2. QED
    BY <2>1 DEF Amounts
<1>2. ASSUME NEW T \in P, NEW x \in R \ T PROVE T \cup {x} \in P
  <2>1. Amounts(f, T) /\ f[x] \in Nat /\ x \notin S \cup T
    BY FiniteParts DEF Amounts
  <2>2. Amounts(f, S \cup T) /\ SumOn(f, S \cup T) = SumOn(f, S) + SumOn(f, T)
    OBVIOUS
  <2>3. SumOn(f, T \cup {x}) = f[x] + SumOn(f, T)
    BY <2>1, SumAdd DEF SumOn
  <2>4. Amounts(f, (S \cup T) \cup {x}) /\ SumOn(f, (S \cup T) \cup {x}) = f[x] + SumOn(f, S \cup T)
    BY <2>1, <2>2, SumAdd DEF SumOn
  <2>5. SumOn(f, S) \in Nat /\ SumOn(f, T) \in Nat
    BY <2>1, SumNat DEF SumOn
  <2>6. (S \cup T) \cup {x} = S \cup (T \cup {x})
    OBVIOUS
  <2>7. QED
    BY <2>1, <2>2, <2>3, <2>4, <2>5, <2>6
<1>3. P \in SUBSET (SUBSET R)
  OBVIOUS
<1> HIDE DEF P
<1>4. P = SUBSET R
  BY <1>1, <1>2, <1>3, Gather
<1>5. QED
  BY <1>4 DEF P, SumOn

\* Fewer terms, a sum no greater.
LEMMA SumPart ==
  ASSUME NEW S, NEW f, Amounts(f, S), NEW T \in SUBSET S
  PROVE  Amounts(f, T) /\ SumFunctionOnSet(f, T) <= SumFunctionOnSet(f, S)
<1>1. Amounts(f, T) /\ Amounts(f, S \ T)
  BY FiniteParts DEF Amounts
<1>2. T \cap (S \ T) = {} /\ T \cup (S \ T) = S
  OBVIOUS
<1>3. SumOn(f, S) = SumOn(f, T) + SumOn(f, S \ T) /\ SumOn(f, T) \in Nat /\ SumOn(f, S \ T) \in Nat
  BY <1>1, <1>2, SumUnion, SumNat DEF SumOn
<1>4. QED
  BY <1>1, <1>3 DEF SumOn

\* Nothing and nothing is nothing.
LEMMA SumZeros ==
  ASSUME NEW S, NEW f, IsFiniteSet(S), \A x \in S : f[x] = 0
  PROVE  SumFunctionOnSet(f, S) = 0
<1> DEFINE P == {T \in SUBSET S : SumOn(f, T) = 0}
<1>1. {} \in P
  BY SumNothing DEF SumOn
<1>2. ASSUME NEW T \in P, NEW x \in S \ T PROVE T \cup {x} \in P
  <2>1. Amounts(f, T) /\ f[x] = 0 /\ SumOn(f, T) = 0
    BY FiniteParts DEF Amounts
  <2>2. SumOn(f, T \cup {x}) = f[x] + SumOn(f, T)
    BY <2>1, SumAdd DEF SumOn
  <2>3. QED
    BY <2>1, <2>2
<1>3. P \in SUBSET (SUBSET S)
  OBVIOUS
<1> HIDE DEF P
<1>4. P = SUBSET S
  BY <1>1, <1>2, <1>3, Gather
<1>5. QED
  BY <1>4 DEF P, SumOn

\* As many ones as elements.
LEMMA SumOnes ==
  ASSUME NEW S, NEW f, IsFiniteSet(S), \A x \in S : f[x] = 1
  PROVE  SumFunctionOnSet(f, S) = Cardinality(S)
<1> DEFINE P == {T \in SUBSET S : SumOn(f, T) = Cardinality(T)}
<1>1. {} \in P
  BY SumNothing, FS_EmptySet DEF SumOn
<1>2. ASSUME NEW T \in P, NEW x \in S \ T PROVE T \cup {x} \in P
  <2>1. Amounts(f, T) /\ f[x] = 1 /\ SumOn(f, T) = Cardinality(T) /\ Cardinality(T) \in Nat
    BY FiniteParts DEF Amounts
  <2>2. SumOn(f, T \cup {x}) = f[x] + SumOn(f, T)
    BY <2>1, SumAdd DEF SumOn
  <2>3. Cardinality(T \cup {x}) = Cardinality(T) + 1
    BY FS_AddElement, FiniteParts
  <2>4. QED
    BY <2>1, <2>2, <2>3
<1>3. P \in SUBSET (SUBSET S)
  OBVIOUS
<1> HIDE DEF P
<1>4. P = SUBSET S
  BY <1>1, <1>2, <1>3, Gather
<1>5. QED
  BY <1>4 DEF P, SumOn

\* The terms of one set through a bijection onto another.
LEMMA SumThrough ==
  ASSUME NEW S, NEW R, NEW h \in [S -> R], NEW f, NEW g, Amounts(g, S),
         \A x, y \in S : h[x] = h[y] => x = y, \A r \in R : \E x \in S : r = h[x],
         \A x \in S : g[x] = f[h[x]]
  PROVE  Amounts(f, R) /\ SumFunctionOnSet(f, R) = SumFunctionOnSet(g, S)
<1> DEFINE Image(T) == {h[x] : x \in T}
           P == {T \in SUBSET S : Amounts(f, Image(T)) /\ SumOn(f, Image(T)) = SumOn(g, T)}
<1>1. IsFiniteSet(S) /\ {} \in P
  <2>1. Image({}) = {} /\ IsFiniteSet({}) /\ SumOn(f, {}) = 0 /\ SumOn(g, {}) = 0
    BY SumNothing, FS_EmptySet DEF SumOn
  <2>2. QED
    BY <2>1 DEF Amounts
<1>2. ASSUME NEW T \in P, NEW x \in S \ T PROVE T \cup {x} \in P
  <2>1. Amounts(g, T) /\ g[x] \in Nat /\ g[x] = f[h[x]] /\ x \notin T
    BY FiniteParts DEF Amounts
  <2>2. Amounts(f, Image(T)) /\ SumOn(f, Image(T)) = SumOn(g, T)
    OBVIOUS
  <2>3. h[x] \notin Image(T) /\ Image(T \cup {x}) = Image(T) \cup {h[x]}
    OBVIOUS
  <2>4. SumOn(g, T \cup {x}) = g[x] + SumOn(g, T)
    BY <2>1, SumAdd DEF SumOn
  <2> HIDE DEF Image
  <2>5. /\ Amounts(f, Image(T) \cup {h[x]})
        /\ SumOn(f, Image(T) \cup {h[x]}) = f[h[x]] + SumOn(f, Image(T))
    BY <2>1, <2>2, <2>3, SumAdd DEF SumOn
  <2>6. QED
    BY <2>1, <2>2, <2>3, <2>4, <2>5
<1>3. P \in SUBSET (SUBSET S) /\ Image(S) = R
  OBVIOUS
<1> HIDE DEF P
<1>4. P = SUBSET S
  BY <1>1, <1>2, <1>3, Gather
<1>5. QED
  BY <1>3, <1>4 DEF P, SumOn

\* Terms that differ by no more than a gap each, twice over.
LEMMA SumNear ==
  ASSUME NEW S, NEW f, NEW g, NEW gap \in Nat, Amounts(f, S), Amounts(g, S),
         \A x \in S : 2 * f[x] <= 2 * g[x] + gap
  PROVE  2 * SumFunctionOnSet(f, S) <= 2 * SumFunctionOnSet(g, S) + gap * Cardinality(S)
<1> DEFINE P == {T \in SUBSET S : 2 * SumOn(f, T) <= 2 * SumOn(g, T) + gap * Cardinality(T)}
<1>0. IsFiniteSet(S)
  BY DEF Amounts
<1>1. {} \in P
  <2>1. SumOn(f, {}) = 0 /\ SumOn(g, {}) = 0 /\ Cardinality({}) = 0
    BY SumNothing, FS_EmptySet DEF SumOn
  <2>2. QED
    BY <2>1
<1>2. ASSUME NEW T \in P, NEW x \in S \ T PROVE T \cup {x} \in P
  <2>1. /\ Amounts(f, T) /\ Amounts(g, T) /\ f[x] \in Nat /\ g[x] \in Nat /\ Cardinality(T) \in Nat
        /\ IsFiniteSet(T)
    BY <1>0, FiniteParts DEF Amounts
  <2>2. SumOn(f, T \cup {x}) = f[x] + SumOn(f, T) /\ SumOn(g, T \cup {x}) = g[x] + SumOn(g, T)
    BY <2>1, SumAdd DEF SumOn
  <2>3. Cardinality(T \cup {x}) = Cardinality(T) + 1
    BY <2>1, FS_AddElement
  <2>4. gap * (Cardinality(T) + 1) = gap * Cardinality(T) + gap /\ gap * Cardinality(T) \in Nat
    BY <2>1
  <2>5. SumOn(f, T) \in Nat /\ SumOn(g, T) \in Nat
    BY <2>1, SumNat DEF SumOn
  <2>6. 2 * SumOn(f, T) <= 2 * SumOn(g, T) + gap * Cardinality(T) /\ 2 * f[x] <= 2 * g[x] + gap
    OBVIOUS
  <2>7. 2 * SumOn(f, T \cup {x}) <= 2 * SumOn(g, T \cup {x}) + gap * Cardinality(T \cup {x})
    <3> DEFINE c == gap * Cardinality(T)
    <3> HIDE DEF c
    <3>1. gap * Cardinality(T \cup {x}) = c + gap /\ c \in Nat /\ 2 * SumOn(f, T) <= 2 * SumOn(g, T) + c
      BY <2>3, <2>4, <2>6 DEF c
    <3>2. QED
      BY <2>1, <2>2, <2>5, <2>6, <3>1
  <2>8. QED
    BY <2>7
<1>3. P \in SUBSET (SUBSET S)
  OBVIOUS
<1> HIDE DEF P
<1>4. P = SUBSET S
  BY <1>0, <1>1, <1>2, <1>3, Gather
<1>5. QED
  BY <1>4 DEF P, SumOn

\* What falls in the buckets of a set of keys adds up to what all of them hold.
LEMMA SumBuckets ==
  ASSUME NEW S, NEW K, NEW f, NEW key, NEW b, Amounts(f, S), IsFiniteSet(K),
         \A x \in S : key[x] \in K,
         \A k \in K : b[k] = SumFunctionOnSet(f, {x \in S : key[x] = k})
  PROVE  Amounts(b, K) /\ SumFunctionOnSet(b, K) = SumFunctionOnSet(f, S)
<1> DEFINE Within(J) == {x \in S : key[x] \in J}
           P == {J \in SUBSET K : SumOn(b, J) = SumOn(f, Within(J))}
<1>0. Amounts(b, K)
  <2>1. \A k \in K : Amounts(f, {x \in S : key[x] = k})
    BY SumPart
  <2>2. \A k \in K : b[k] \in Nat
    BY <2>1, SumNat
  <2>3. QED
    BY <2>2 DEF Amounts
<1>1. {} \in P
  <2>1. Within({}) = {}
    OBVIOUS
  <2>2. QED
    BY <2>1, SumNothing DEF SumOn
<1>2. ASSUME NEW J \in P, NEW k \in K \ J PROVE J \cup {k} \in P
  <2> DEFINE one == {x \in S : key[x] = k}
  <2>1. Within(J \cup {k}) = Within(J) \cup one /\ Within(J) \cap one = {}
    OBVIOUS
  <2>2. Amounts(f, Within(J)) /\ Amounts(f, one)
    BY SumPart
  <2>3. Amounts(b, J) /\ b[k] \in Nat /\ b[k] = SumOn(f, one)
    BY <1>0, SumPart DEF SumOn, Amounts
  <2>4. SumOn(b, J \cup {k}) = b[k] + SumOn(b, J)
    BY <2>3, SumAdd DEF SumOn
  <2> HIDE DEF Within, one
  <2>5. SumOn(f, Within(J) \cup one) = SumOn(f, Within(J)) + SumOn(f, one)
    BY <2>1, <2>2, SumUnion DEF SumOn
  <2>6. SumOn(f, Within(J)) \in Nat /\ SumOn(f, one) \in Nat
    BY <2>2, SumNat DEF SumOn
  <2>7. SumOn(b, J) = SumOn(f, Within(J)) /\ J \in SUBSET K
    OBVIOUS
  <2>8. SumOn(b, J \cup {k}) = SumOn(f, Within(J \cup {k}))
    <3>1. \A m, n \in Nat : m + n = n + m
      OBVIOUS
    <3>2. SumOn(b, J \cup {k}) = SumOn(f, one) + SumOn(f, Within(J))
      BY <2>3, <2>4, <2>7, Zenon
    <3>3. SumOn(f, one) + SumOn(f, Within(J)) = SumOn(f, Within(J)) + SumOn(f, one)
      BY <2>6, <3>1, Zenon
    <3>4. QED
      BY <2>1, <2>5, <3>2, <3>3, Zenon
  <2>9. QED
    BY <2>7, <2>8
<1>3. P \in SUBSET (SUBSET K) /\ Within(K) = S
  OBVIOUS
<1> HIDE DEF P
<1>4. P = SUBSET K
  BY <1>1, <1>2, <1>3, Gather
<1>5. QED
  BY <1>0, <1>3, <1>4 DEF P, SumOn

-----------------------------------------------------------------------------
(* Sorting by a strict total order. *)

\* A strict total order on a set, given as its pairs.
StrictOrder(R, S) ==
  /\ \A x \in S : <<x, x>> \notin R
  /\ \A x, y, z \in S : <<x, y>> \in R /\ <<y, z>> \in R => <<x, z>> \in R
  /\ \A x, y \in S : x # y => <<x, y>> \in R \/ <<y, x>> \in R

\* The set in its order: every element once, each before those after it.
LEMMA SortedInOrder ==
  ASSUME NEW S, IsFiniteSet(S), NEW R, StrictOrder(R, S)
  PROVE  /\ Cardinality(S) \in Nat
         /\ Sorted(S, R) \in [1 .. Cardinality(S) -> S]
         /\ \A i, j \in 1 .. Cardinality(S) : i < j => <<Sorted(S, R)[i], Sorted(S, R)[j]>> \in R
         /\ \A x \in S : \E k \in 1 .. Cardinality(S) : Sorted(S, R)[k] = x
<1> DEFINE n == Cardinality(S)
           under(x) == {y \in S : <<y, x>> \in R}
           rank == [x \in S |-> Cardinality(under(x))]
           s == Sorted(S, R)
           image == {rank[x] : x \in S}
<1>1. n \in Nat /\ \A T \in SUBSET S : IsFiniteSet(T) /\ Cardinality(T) \in Nat /\ Cardinality(T) <= n
  BY FiniteParts, FS_CardinalityType
<1>2. ASSUME NEW x \in S PROVE rank[x] \in 0 .. n - 1
  <2>1. under(x) \in SUBSET (S \ {x}) /\ S \ {x} \in SUBSET S
    BY DEF StrictOrder
  <2>2. Cardinality(S \ {x}) = n - 1 /\ IsFiniteSet(S \ {x})
    BY <1>1, FS_RemoveElement
  <2> HIDE DEF under, n
  <2>3. Cardinality(under(x)) <= n - 1 /\ Cardinality(under(x)) \in Nat
    BY <2>1, <2>2, <1>1, FS_Subset, FS_CardinalityType
  <2>4. QED
    BY <2>3, <1>1
<1>3. ASSUME NEW x \in S, NEW z \in S, <<x, z>> \in R PROVE rank[x] < rank[z]
  <2>1. under(x) \in SUBSET (under(z) \ {x}) /\ x \in under(z)
    BY <1>3 DEF StrictOrder
  <2>2. under(z) \in SUBSET S /\ under(x) \in SUBSET S
    OBVIOUS
  <2>3. IsFiniteSet(under(z)) /\ Cardinality(under(z)) \in Nat /\ Cardinality(under(x)) \in Nat
    BY <1>1, <2>2
  <2> HIDE DEF under
  <2>4. IsFiniteSet(under(z) \ {x}) /\ Cardinality(under(z) \ {x}) = Cardinality(under(z)) - 1
    BY <2>1, <2>3, FS_RemoveElement
  <2>5. Cardinality(under(x)) <= Cardinality(under(z) \ {x})
    BY <2>1, <2>4, FS_Subset
  <2>6. QED
    BY <2>3, <2>4, <2>5
<1> HIDE DEF under
<1>4. \A x, z \in S : rank[x] = rank[z] => x = z
  <2>1. SUFFICES ASSUME NEW x \in S, NEW z \in S, rank[x] = rank[z], x # z PROVE FALSE
    OBVIOUS
  <2> HIDE DEF rank
  <2>2. rank[x] < rank[z] \/ rank[z] < rank[x]
    BY <1>3, <2>1 DEF StrictOrder
  <2>3. rank[x] \in Int /\ rank[z] \in Int
    BY <1>1, <1>2
  <2>4. QED
    BY <2>1, <2>2, <2>3
<1>5. image = 0 .. n - 1
  <2>1. rank \in Surjection(S, image)
    BY DEF Surjection
  <2>2. rank \in Injection(S, image)
    BY <1>4 DEF Injection, IsInjective
  <2> HIDE DEF rank, n
  <2>3. Cardinality(image) = n
    BY <2>1, <2>2, FS_Surjection DEF n
  <2>4. IsFiniteSet(0 .. n - 1) /\ Cardinality(0 .. n - 1) = n
    <3>1. \A a, b \in Int : IsFiniteSet(a .. b) /\ Cardinality(a .. b) = IF a > b THEN 0 ELSE b - a + 1
      BY FS_Interval
    <3>2. n - 1 \in Int /\ 0 \in Int
      BY <1>1
    <3>3. IsFiniteSet(0 .. n - 1) /\ Cardinality(0 .. n - 1) = IF 0 > n - 1 THEN 0 ELSE (n - 1) - 0 + 1
      BY <3>1, <3>2
    <3>4. QED
      BY <1>1, <3>3
  <2>5. image \in SUBSET (0 .. n - 1)
    BY <1>2
  <2>6. QED
    BY <2>3, <2>4, <2>5, FS_Subset
<1>6. ASSUME NEW k \in 1 .. n PROVE s[k] \in S /\ rank[s[k]] = k - 1
  <2>1. k - 1 \in image
    BY <1>1, <1>5
  <2>2. \E x \in S : Cardinality(under(x)) = k - 1
    BY <2>1
  <2>3. s[k] = CHOOSE x \in S : Cardinality(under(x)) = k - 1
    BY DEF Sorted, under
  <2>4. QED
    BY <2>2, <2>3
<1>7. s \in [1 .. n -> S]
  BY <1>6 DEF Sorted
<1>8. ASSUME NEW i \in 1 .. n, NEW j \in 1 .. n, i < j PROVE <<s[i], s[j]>> \in R
  <2>1. s[i] \in S /\ s[j] \in S /\ rank[s[i]] = i - 1 /\ rank[s[j]] = j - 1
    BY <1>6
  <2> HIDE DEF rank, s
  <2>2. s[i] # s[j] /\ ~(rank[s[j]] < rank[s[i]])
    BY <2>1, <1>8, <1>1
  <2>3. QED
    BY <2>1, <2>2, <1>3 DEF StrictOrder
<1>9. ASSUME NEW x \in S PROVE \E k \in 1 .. n : s[k] = x
  <2> DEFINE k == rank[x] + 1
  <2>1. k \in 1 .. n /\ k - 1 = rank[x]
    BY <1>1, <1>2
  <2> HIDE DEF rank, s, k
  <2>2. s[k] = x
    BY <2>1, <1>4, <1>6
  <2>3. QED
    BY <2>1, <2>2
<1>10. QED
  BY <1>1, <1>7, <1>8, <1>9

-----------------------------------------------------------------------------
(* Flattening a sequence of sequences. *)

\* The recursion of the flattening, up to n.
FlattensTo(g, seqs, n) == g = [i \in 1 .. n |-> IF i = 1 THEN seqs[i] ELSE g[i - 1] \o seqs[i]]

\* The recursion of the flattening has a solution for every length.
LEMMA FlattensExist ==
  ASSUME NEW seqs, NEW m \in Nat
  PROVE  \E g : FlattensTo(g, seqs, m)
<1> DEFINE Good == {n \in Nat : \E g : FlattensTo(g, seqs, n)}
<1>1. 0 \in Good
  <2>1. FlattensTo([i \in 1 .. 0 |-> 0], seqs, 0)
    BY DEF FlattensTo
  <2>2. QED
    BY <2>1
<1>2. ASSUME NEW n \in Good PROVE n + 1 \in Good
  <2>1. PICK g : FlattensTo(g, seqs, n)
    OBVIOUS
  <2> DEFINE h == [i \in 1 .. n + 1 |-> IF i = 1 THEN seqs[i] ELSE g[i - 1] \o seqs[i]]
  <2>2. n \in Nat
    OBVIOUS
  <2>3. ASSUME NEW i \in 1 .. n PROVE h[i] = g[i]
    <3>1. g[i] = IF i = 1 THEN seqs[i] ELSE g[i - 1] \o seqs[i]
      BY <2>1, Zenon DEF FlattensTo
    <3>2. i \in 1 .. n + 1
      BY <2>2
    <3>3. QED
      BY <3>1, <3>2
  <2>4. \A i \in 1 .. n + 1 : i # 1 => i - 1 \in 1 .. n
    BY <2>2
  <2>5. h = [i \in 1 .. n + 1 |-> IF i = 1 THEN seqs[i] ELSE h[i - 1] \o seqs[i]]
    BY <2>3, <2>4
  <2>6. FlattensTo(h, seqs, n + 1)
    BY <2>5, Zenon DEF FlattensTo
  <2>7. QED
    BY <2>2, <2>6
<1>3. Good \in SUBSET Nat
  OBVIOUS
<1> HIDE DEF Good
<1>4. Good = Nat
  BY <1>1, <1>2, <1>3, Count, Zenon
<1>5. QED
  BY <1>4 DEF Good

\* The function that the flattening chooses.
FlatRec(seqs) == CHOOSE g : g = [i \in 1 .. Len(seqs) |-> IF i = 1 THEN seqs[i] ELSE g[i - 1] \o seqs[i]]

\* The flattening of the library is the value of that recursion.
LEMMA FlattenIsRec ==
  ASSUME NEW seqs, Len(seqs) \in Nat, Len(seqs) # 0
  PROVE  /\ FlattenSeq(seqs) = FlatRec(seqs)[Len(seqs)]
         /\ FlattensTo(FlatRec(seqs), seqs, Len(seqs))
<1>1. FlattenSeq(seqs) = FlatRec(seqs)[Len(seqs)]
  BY Zenon DEF FlattenSeq, FlatRec
<1>2. PICK g : FlattensTo(g, seqs, Len(seqs))
  BY FlattensExist
<1>3. FlattensTo(FlatRec(seqs), seqs, Len(seqs))
  BY <1>2, Zenon DEF FlattensTo, FlatRec
<1>4. QED
  BY <1>1, <1>3

\* What is flattened holds the elements of its parts and no other.
LEMMA FlattenIn ==
  ASSUME NEW A, NEW seqs \in Seq(Seq(A))
  PROVE  FlattenSeq(seqs) \in Seq(A)
<1>1. CASE Len(seqs) = 0
  <2>1. seqs = <<>>
    BY <1>1
  <2>2. FlattenSeq(seqs) = seqs
    BY <2>1, Zenon DEF FlattenSeq
  <2>3. <<>> \in Seq(A)
    OBVIOUS
  <2>4. QED
    BY <2>1, <2>2, <2>3, Zenon
<1>2. CASE Len(seqs) # 0
  <2> DEFINE g == FlatRec(seqs)
             n == Len(seqs)
             Good == {k \in Nat : k + 1 \in 1 .. n => g[k + 1] \in Seq(A)}
  <2>1. n \in Nat /\ n > 0 /\ FlattenSeq(seqs) = g[n] /\ FlattensTo(g, seqs, n)
    BY <1>2, FlattenIsRec
  <2> HIDE DEF g, n
  <2>2. \A i \in 1 .. n : g[i] = IF i = 1 THEN seqs[i] ELSE g[i - 1] \o seqs[i]
    BY <2>1 DEF FlattensTo
  <2>3. \A i \in 1 .. n : seqs[i] \in Seq(A)
    BY DEF n
  <2>4. 0 \in Good
    BY <2>1, <2>2, <2>3
  <2>5. ASSUME NEW k \in Good PROVE k + 1 \in Good
    <3>1. SUFFICES ASSUME k + 2 \in 1 .. n PROVE g[k + 2] \in Seq(A)
      OBVIOUS
    <3>2. k \in Nat /\ k + 1 \in 1 .. n /\ k + 2 # 1 /\ (k + 2) - 1 = k + 1
      BY <2>1, <3>1
    <3>3. g[k + 2] = g[k + 1] \o seqs[k + 2] /\ g[k + 1] \in Seq(A) /\ seqs[k + 2] \in Seq(A)
      BY <2>2, <2>3, <3>1, <3>2
    <3>4. QED
      BY <3>3
  <2>6. Good \in SUBSET Nat
    OBVIOUS
  <2> HIDE DEF Good
  <2>7. Good = Nat
    BY <2>4, <2>5, <2>6, Count, Zenon
  <2>8. n - 1 \in Good /\ (n - 1) + 1 = n
    BY <2>1, <2>7
  <2>9. QED
    BY <2>1, <2>8 DEF Good
<1>3. QED
  BY <1>1, <1>2

\* One letter each: the text itself.
LEMMA FlattenSingles ==
  ASSUME NEW A, NEW t \in Seq(A), NEW seqs, seqs = [i \in DOMAIN t |-> <<t[i]>>]
  PROVE  FlattenSeq(seqs) = t
<1> DEFINE n == Len(t)
<1>0. n \in Nat /\ DOMAIN t = 1 .. n /\ seqs \in Seq(Seq(A)) /\ Len(seqs) = n
  <2>1. n \in Nat /\ DOMAIN t = 1 .. n /\ \A i \in 1 .. n : t[i] \in A
    OBVIOUS
  <2>2. seqs = [i \in 1 .. n |-> <<t[i]>>]
    BY <2>1
  <2>3. \A i \in 1 .. n : <<t[i]>> \in Seq(A)
    BY <2>1
  <2> HIDE DEF n
  <2>4. QED
    BY <2>1, <2>2, <2>3
<1>1. CASE n = 0
  <2>1. FlattenSeq(seqs) = seqs
    BY <1>0, <1>1, Zenon DEF FlattenSeq
  <2>2. QED
    BY <2>1, <1>1, <1>0
<1>2. CASE n # 0
  <2> DEFINE g == FlatRec(seqs)
             Good == {k \in Nat : k + 1 \in 1 .. n => g[k + 1] = SubSeq(t, 1, k + 1)}
  <2>1. FlattenSeq(seqs) = g[n] /\ FlattensTo(g, seqs, n)
    BY <1>0, <1>2, FlattenIsRec
  <2> HIDE DEF g
  <2>2. \A i \in 1 .. n : g[i] = IF i = 1 THEN <<t[i]>> ELSE g[i - 1] \o <<t[i]>>
    BY <1>0, <2>1 DEF FlattensTo
  <2>3. 0 \in Good
    BY <1>0, <1>2, <2>2
  <2>4. ASSUME NEW k \in Good PROVE k + 1 \in Good
    <3>1. SUFFICES ASSUME k + 2 \in 1 .. n PROVE g[k + 2] = SubSeq(t, 1, k + 2)
      OBVIOUS
    <3>2. k \in Nat /\ k + 1 \in 1 .. n /\ k + 2 # 1 /\ (k + 2) - 1 = k + 1
      BY <1>0, <3>1
    <3>3. g[k + 2] = SubSeq(t, 1, k + 1) \o <<t[k + 2]>>
      BY <2>2, <3>1, <3>2
    <3> HIDE DEF n
    <3>4. SubSeq(t, 1, k + 1) \o <<t[k + 2]>> = SubSeq(t, 1, k + 2)
      BY <1>0, <3>1, <3>2
    <3>5. QED
      BY <3>3, <3>4
  <2>5. Good \in SUBSET Nat
    OBVIOUS
  <2> HIDE DEF Good
  <2>6. Good = Nat
    BY <2>3, <2>4, <2>5, Count, Zenon
  <2>7. n - 1 \in Good /\ (n - 1) + 1 = n
    BY <1>0, <1>2, <2>6
  <2>8. g[n] = SubSeq(t, 1, n)
    BY <1>0, <1>2, <2>7 DEF Good
  <2>9. QED
    BY <1>0, <2>1, <2>8
<1>3. QED
  BY <1>1, <1>2

-----------------------------------------------------------------------------
(* The table of rates: one row for a pair and a date, the newest in the history. *)

\* What a refresh stores: a rate above zero, with its date.
GoodRow == [base : Currencies, quote : Currencies, rate : Nat \ {0}, asOf : Nat \ {0}]

\* Only rates above zero are made, and nothing that the source did not answer.
LEMMA MadeRates ==
  ASSUME NEW rates \in Seq([base : Currencies, quote : Currencies, rate : Nat, asOf : Nat \ {0}])
  PROVE  Made(rates) \in Seq(GoodRow)
<1> DEFINE parts == [i \in DOMAIN rates |-> IF rates[i].rate > 0 THEN <<rates[i]>> ELSE <<>>]
<1>1. ASSUME NEW i \in DOMAIN rates PROVE parts[i] \in Seq(GoodRow)
  <2>1. rates[i] \in [base : Currencies, quote : Currencies, rate : Nat, asOf : Nat \ {0}]
    <3>1. \A A : \A t \in Seq(A) : \A k \in DOMAIN t : t[k] \in A
      OBVIOUS
    <3>2. QED
      BY <3>1, Zenon
  <2>2. CASE rates[i].rate > 0
    <3>1. rates[i] \in GoodRow
      BY <2>1, <2>2 DEF GoodRow
    <3>2. parts[i] = <<rates[i]>>
      BY <2>2
    <3>3. QED
      BY <3>1, <3>2
  <2>3. CASE ~(rates[i].rate > 0)
    <3>1. parts[i] = <<>> /\ <<>> \in Seq(GoodRow)
      BY <2>3
    <3>2. QED
      BY <3>1, Zenon
  <2>4. QED
    BY <2>2, <2>3
<1>2. DOMAIN rates = 1 .. Len(rates) /\ Len(rates) \in Nat /\ parts = [i \in 1 .. Len(rates) |-> parts[i]]
  OBVIOUS
<1> HIDE DEF parts
<1>3. parts \in Seq(Seq(GoodRow))
  BY <1>1, <1>2
<1>4. FlattenSeq(parts) \in Seq(GoodRow)
  BY <1>3, FlattenIn
<1>5. QED
  BY <1>4 DEF Made, parts

\* The rows of a table for a pair of currencies.
Of(table, pair) == {x \in table : <<x.base, x.quote>> = pair}

\* The history of a pair is a row of the table, and none of the pair is later.
Newest(pair) ==
  \/ newest[pair] = NoRate /\ Of(stored, pair) = {}
  \/ /\ newest[pair] \in [rate : Nat \ {0}, asOf : Nat \ {0}]
     /\ \E r \in Of(stored, pair) : newest[pair] = [rate |-> r.rate, asOf |-> r.asOf]
     /\ \A x \in Of(stored, pair) : x.asOf <= newest[pair].asOf

\* One row for a pair and a date, each of them made by a refresh.
TableInv ==
  /\ stored \subseteq GoodRow
  /\ pending \in [Refreshers -> Seq(GoodRow)]
  /\ \A r, x \in stored : r.base = x.base /\ r.quote = x.quote /\ r.asOf = x.asOf => r = x
  /\ newest = [pair \in Pairs |-> newest[pair]]
  /\ \A pair \in Pairs : Newest(pair)

\* The table is empty at first, and so is the history.
LEMMA TableInit == RatesInit => TableInv
  BY DEF RatesInit, TableInv, Newest, Of, Pairs

\* A rate that is stored, by any refresh at any time, keeps the table and its
\* history in step.
LEMMA TableStores ==
  ASSUME TableInv, NEW p \in Refreshers, StoreRate(p)
  PROVE  TableInv'
<1> DEFINE r == Head(pending[p])
           at == <<r.base, r.quote>>
<1>1. r \in GoodRow /\ Tail(pending[p]) \in Seq(GoodRow)
  BY DEF TableInv, StoreRate
<1>2. /\ stored' = Upsert(stored, r)
      /\ newest' = IF r.asOf >= newest[at].asOf
                   THEN [newest EXCEPT ![at] = [rate |-> r.rate, asOf |-> r.asOf]]
                   ELSE newest
      /\ pending' = [pending EXCEPT ![p] = Tail(@)]
  BY DEF StoreRate
<1> HIDE DEF r
<1>3. stored' \subseteq GoodRow
  BY <1>1, <1>2 DEF TableInv, Upsert
<1>4. pending' \in [Refreshers -> Seq(GoodRow)]
  BY <1>1, <1>2 DEF TableInv
<1>5. \A y, x \in stored' : y.base = x.base /\ y.quote = x.quote /\ y.asOf = x.asOf => y = x
  BY <1>2 DEF TableInv, Upsert
<1>6. at \in Pairs /\ r.asOf \in Nat \ {0} /\ r.rate \in Nat \ {0}
  BY <1>1 DEF Pairs, GoodRow
<1>7. newest' = [pair \in Pairs |-> newest'[pair]]
  BY <1>2, <1>6 DEF TableInv
<1>8. ASSUME NEW pair \in Pairs PROVE Newest(pair)'
  <2>1. Newest(pair)
    BY DEF TableInv
  <2>2. CASE pair # at
    <3>1. newest'[pair] = newest[pair]
      BY <1>2, <1>6, <2>2 DEF TableInv
    <3>2. Of(stored', pair) = Of(stored, pair)
      BY <1>2, <2>2 DEF Of, Upsert
    <3>3. QED
      BY <2>1, <3>1, <3>2 DEF Newest
  <2>3. CASE pair = at
    <3>1. Of(stored', pair) = {x \in Of(stored, pair) : x.asOf # r.asOf} \cup {r}
      BY <1>2, <2>3 DEF Of, Upsert
    <3>2. \A x \in Of(stored, pair) : x.asOf \in Nat \ {0}
      BY DEF TableInv, Of, GoodRow
    <3>3. newest[pair].asOf \in Nat
      BY <2>1 DEF Newest, NoRate
    <3>4. CASE r.asOf >= newest[pair].asOf
      <4>1. newest'[pair] = [rate |-> r.rate, asOf |-> r.asOf]
        BY <1>2, <1>6, <2>3, <3>4 DEF TableInv
      <4>2. \A x \in Of(stored, pair) : x.asOf <= r.asOf
        BY <2>1, <3>2, <3>3, <3>4, <1>6 DEF Newest
      <4>3. \A x \in Of(stored', pair) : x.asOf <= newest'[pair].asOf
        BY <3>1, <4>1, <4>2, <1>6
      <4>4. r \in Of(stored', pair)
        BY <3>1
      <4>5. QED
        BY <4>1, <4>3, <4>4, <1>6 DEF Newest
    <3>5. CASE ~(r.asOf >= newest[pair].asOf)
      <4>1. newest' = newest
        BY <1>2, <2>3, <3>5
      <4>2. newest[pair] # NoRate
        BY <3>5, <1>6 DEF NoRate
      <4>3. PICK x \in Of(stored, pair) : newest[pair] = [rate |-> x.rate, asOf |-> x.asOf]
        BY <2>1, <4>2 DEF Newest
      <4>4. x \in Of(stored', pair)
        BY <3>1, <3>5, <4>3, <3>3, <1>6
      <4>5. \A y \in Of(stored', pair) : y.asOf <= newest[pair].asOf
        BY <2>1, <4>2, <3>1, <3>5, <3>3, <1>6 DEF Newest
      <4>6. QED
        BY <2>1, <4>1, <4>2, <4>3, <4>4, <4>5 DEF Newest
    <3>6. QED
      BY <3>4, <3>5
  <2>4. QED
    BY <2>2, <2>3
<1>9. QED
  BY <1>3, <1>4, <1>5, <1>7, <1>8 DEF TableInv

\* What only moves the rates that are pending leaves the table as it is.
LEMMA TableKept ==
  ASSUME TableInv, stored' = stored, newest' = newest, pending' \in [Refreshers -> Seq(GoodRow)]
  PROVE  TableInv'
  BY DEF TableInv, Newest

\* Every step keeps the table, its history and what is yet to be stored.
LEMMA TableNext == TableInv /\ [FiguresNext]_rateVars => TableInv'
<1> SUFFICES ASSUME TableInv, [FiguresNext]_rateVars PROVE TableInv'
  OBVIOUS
<1>1. ASSUME NEW p \in Refreshers, Fetch(p) PROVE TableInv'
  <2>1. PICK rates \in Sources : pending' = [pending EXCEPT ![p] = Made(rates)]
    BY <1>1 DEF Fetch
  <2>2. Made(rates) \in Seq(GoodRow)
    BY MadeRates, RatesAssumption DEF RatesAssumption
  <2>3. QED
    BY <1>1, <2>1, <2>2, TableKept DEF Fetch, TableInv
<1>2. ASSUME NEW p \in Refreshers, StorageFails(p) PROVE TableInv'
  <2>1. <<>> \in Seq(GoodRow)
    OBVIOUS
  <2>2. pending' \in [Refreshers -> Seq(GoodRow)]
    BY <1>2, <2>1, Zenon DEF StorageFails, TableInv
  <2>3. QED
    BY <1>2, <2>2, TableKept DEF StorageFails
<1>3. ASSUME UNCHANGED <<stored, pending, newest>> PROVE TableInv'
  BY <1>3, TableKept DEF TableInv
<1>4. ASSUME NEW op, NEW q, NEW body, Ask(op, q, body) PROVE TableInv'
  BY <1>3, <1>4 DEF Ask
<1>5. CASE RatesNext
  BY <1>1, <1>2, <1>4, <1>5, TableStores DEF RatesNext
<1>6. CASE GetStatistics \/ GetList
  BY <1>4, <1>6 DEF GetStatistics, GetList
<1>7. CASE UNCHANGED rateVars
  BY <1>3, <1>7 DEF rateVars
<1>8. QED
  BY <1>5, <1>6, <1>7 DEF FiguresNext

\* The rate of a pair that the history knows, or none.
LEMMA NewestIsUsed == TableInv => NewestRateUsed
<1> SUFFICES ASSUME TableInv, NEW pair \in Pairs
             PROVE  {[rate |-> r.rate, asOf |-> r.asOf] : r \in {x \in LoadRateTable : <<x.base, x.quote>> = pair}}
                      = IF newest[pair] = NoRate THEN {} ELSE {newest[pair]}
  BY DEF NewestRateUsed
<1>1. Newest(pair)
  BY DEF TableInv
<1>2. {x \in LoadRateTable : <<x.base, x.quote>> = pair}
        = {r \in Of(stored, pair) : \A x \in Of(stored, pair) : x.asOf <= r.asOf}
  BY DEF LoadRateTable, AllLatest, Of
<1>3. CASE newest[pair] = NoRate
  <2>1. newest[pair].rate = 0
    BY <1>3 DEF NoRate
  <2>2. newest[pair] \notin [rate : Nat \ {0}, asOf : Nat \ {0}]
    BY <2>1
  <2>3. QED
    BY <1>1, <1>2, <1>3, <2>2 DEF Newest
<1>4. CASE newest[pair] # NoRate
  <2>1. PICK r \in Of(stored, pair) : newest[pair] = [rate |-> r.rate, asOf |-> r.asOf]
    BY <1>1, <1>4 DEF Newest
  <2>2. \A x \in Of(stored, pair) : x.asOf <= r.asOf
    BY <1>1, <1>4, <2>1 DEF Newest
  <2>3. \A x \in Of(stored, pair) : x.asOf \in Nat
    BY DEF TableInv, Of, GoodRow
  <2>4. \A x \in Of(stored, pair) : x.asOf = r.asOf => x = r
    BY DEF TableInv, Of
  <2>5. {x \in LoadRateTable : <<x.base, x.quote>> = pair} = {r}
    BY <1>2, <2>2, <2>3, <2>4
  <2>6. QED
    BY <1>4, <2>1, <2>5
<1>5. QED
  BY <1>3, <1>4

-----------------------------------------------------------------------------
(* An answer is what the handler computes from the table. *)

\* An answer is what the handler computes from the table, which no step moves
\* any more once there is one.
Computed ==
  \/ asked = NoQuery
  \/ \E q \in Requests : asked = [op |-> "aggregate", q |-> q, body |-> AggregateConvertedHandler(q)]
  \/ \E q \in StatQueries : asked = [op |-> "statistics", q |-> q,
       body |-> [series |-> GetCostEvolution(q), shares |-> GetRepartition(q)]]
  \/ \E q \in ListQueries : asked = [op |-> "list", q |-> q,
       body |-> [c \in Criteria |-> ListSubscriptions(q, c)]]

\* A step that does not store leaves the table of the last rates.
LEMMA SameTable == ASSUME stored' = stored PROVE LoadRateTable' = LoadRateTable
  BY Zenon DEF LoadRateTable

\* An aggregate is the same after a step that leaves the rates.
LEMMA SameAggregate ==
  ASSUME LoadRateTable' = LoadRateTable, NEW q
  PROVE  AggregateConvertedHandler(q)' = AggregateConvertedHandler(q)
  BY Zenon DEF AggregateConvertedHandler

\* So is what a row costs.
LEMMA SameCost ==
  ASSUME LoadRateTable' = LoadRateTable, NEW r, NEW target
  PROVE  MonthlyInTarget(r, target)' = MonthlyInTarget(r, target) /\ CostIn(r, target)' = CostIn(r, target)
<1>1. MonthlyInTarget(r, target)' = MonthlyInTarget(r, target)
  BY Zenon DEF MonthlyInTarget
<1>2. QED
  BY <1>1, Zenon DEF CostIn

\* So is a series.
LEMMA SameEvolution ==
  ASSUME LoadRateTable' = LoadRateTable, NEW q
  PROVE  GetCostEvolution(q)' = GetCostEvolution(q)
<1>1. \A r, target : /\ MonthlyInTarget(r, target)' = MonthlyInTarget(r, target)
                     /\ CostIn(r, target)' = CostIn(r, target)
  BY SameCost
<1>2. Spans(q)' = Spans(q)
  BY <1>1 DEF Spans
<1>3. QED
  BY <1>2, Zenon DEF GetCostEvolution

\* So is a repartition.
LEMMA SameRepartition ==
  ASSUME LoadRateTable' = LoadRateTable, NEW q
  PROVE  GetRepartition(q)' = GetRepartition(q)
<1>1. \A r, target : /\ MonthlyInTarget(r, target)' = MonthlyInTarget(r, target)
                     /\ CostIn(r, target)' = CostIn(r, target)
  BY SameCost
<1>2. Convertible(q)' = Convertible(q)
  BY <1>1 DEF Convertible
<1>3. Slices(q, "category")' = Slices(q, "category") /\ Slices(q, "payer")' = Slices(q, "payer")
  BY <1>1, <1>2 DEF Slices
<1>4. QED
  BY <1>2, <1>3, Zenon DEF GetRepartition

\* So is a list.
LEMMA SameList ==
  ASSUME LoadRateTable' = LoadRateTable, NEW q, NEW sort
  PROVE  ListSubscriptions(q, sort)' = ListSubscriptions(q, sort)
  BY Zenon DEF ListSubscriptions, RatesFor

\* Nothing is asked at first.
LEMMA ComputedInit == RatesInit => Computed
  BY DEF RatesInit, Computed

\* An answer is computed from the table as it is, and the table stays once
\* there is one.
LEMMA ComputedNext == Computed /\ [FiguresNext]_rateVars => Computed'
<1> SUFFICES ASSUME Computed, [FiguresNext]_rateVars PROVE Computed'
  OBVIOUS
<1>1. CASE UNCHANGED <<stored, asked>>
  <2>1. LoadRateTable' = LoadRateTable /\ asked' = asked
    BY <1>1, SameTable
  <2>2. CASE asked = NoQuery
    BY <2>1, <2>2 DEF Computed
  <2>3. CASE \E q \in Requests : asked = [op |-> "aggregate", q |-> q, body |-> AggregateConvertedHandler(q)]
    BY <2>1, <2>3, SameAggregate, Zenon DEF Computed
  <2>4. CASE \E q \in StatQueries : asked = [op |-> "statistics", q |-> q,
                body |-> [series |-> GetCostEvolution(q), shares |-> GetRepartition(q)]]
    BY <2>1, <2>4, SameEvolution, SameRepartition, Zenon DEF Computed
  <2>5. CASE \E q \in ListQueries : asked = [op |-> "list", q |-> q,
                body |-> [c \in Criteria |-> ListSubscriptions(q, c)]]
    <3>1. PICK q \in ListQueries : asked = [op |-> "list", q |-> q,
                body |-> [c \in Criteria |-> ListSubscriptions(q, c)]]
      BY <2>5
    <3>2. \A c : ListSubscriptions(q, c)' = ListSubscriptions(q, c)
      BY <2>1, SameList
    <3>3. [c \in Criteria |-> ListSubscriptions(q, c)]'
            = [c \in Criteria |-> ListSubscriptions(q, c)]
      BY <3>2
    <3>4. QED
      BY <2>1, <3>1, <3>3, Zenon DEF Computed
  <2>6. QED
    BY <2>2, <2>3, <2>4, <2>5 DEF Computed
<1>2. CASE asked = NoQuery /\ asked' = asked
  BY <1>2, Zenon DEF Computed
<1>3. ASSUME NEW q \in Requests, Ask("aggregate", q, AggregateConvertedHandler(q)) PROVE Computed'
  <2>1. LoadRateTable' = LoadRateTable
    BY <1>3, SameTable DEF Ask
  <2>2. AggregateConvertedHandler(q)' = AggregateConvertedHandler(q)
    BY <2>1, SameAggregate
  <2>3. QED
    BY <1>3, <2>2, Zenon DEF Ask, Computed
<1>4. CASE GetStatistics
  <2>1. PICK q \in StatQueries : Ask("statistics", q, [series |-> GetCostEvolution(q), shares |-> GetRepartition(q)])
    BY <1>4 DEF GetStatistics
  <2>2. LoadRateTable' = LoadRateTable
    BY <2>1, SameTable DEF Ask
  <2>3. GetCostEvolution(q)' = GetCostEvolution(q) /\ GetRepartition(q)' = GetRepartition(q)
    BY <2>2, SameEvolution, SameRepartition
  <2>4. QED
    BY <2>1, <2>3, Zenon DEF Ask, Computed
<1>5. CASE GetList
  <2>1. PICK q \in ListQueries : Ask("list", q, [c \in Criteria |-> ListSubscriptions(q, c)])
    BY <1>5 DEF GetList
  <2>2. LoadRateTable' = LoadRateTable
    BY <2>1, SameTable DEF Ask
  <2>3. \A c : ListSubscriptions(q, c)' = ListSubscriptions(q, c)
    BY <2>2, SameList
  <2>4. [c \in Criteria |-> ListSubscriptions(q, c)]'
          = [c \in Criteria |-> ListSubscriptions(q, c)]
    BY <2>3
  <2>5. QED
    BY <2>1, <2>4, Zenon DEF Ask, Computed
<1>6. CASE RatesNext
  <2>1. asked = NoQuery
    BY <1>6 DEF RatesNext
  <2>2. ASSUME NEW p \in Refreshers, Fetch(p) \/ StoreRate(p) \/ StorageFails(p) PROVE Computed'
    BY <1>2, <2>1, <2>2 DEF Fetch, StoreRate, StorageFails
  <2>3. QED
    BY <1>3, <1>6, <2>2 DEF RatesNext
<1>7. CASE UNCHANGED rateVars
  BY <1>1, <1>7 DEF rateVars
<1>8. QED
  BY <1>4, <1>5, <1>6, <1>7 DEF FiguresNext

-----------------------------------------------------------------------------
(* Rates and totals. *)

\* The newest rate of an amount into a currency: one into itself.
RateOf(m, target) ==
  IF m.currency = target THEN [rate |-> 1, asOf |-> 0] ELSE newest[<<m.currency, target>>]

\* What the table converts an amount to: the product with its newest rate, if any.
LEMMA ConvertsAtNewest ==
  ASSUME TableInv, NEW m, m.currency \in Currencies, m.amount \in Nat, NEW target \in Currencies
  PROVE  /\ RateOf(m, target).rate \in Nat /\ RateOf(m, target).asOf \in Nat
         /\ RateOf(m, target).rate > 0 /\ m.currency # target => RateOf(m, target).asOf > 0
         /\ ConvertDated(m, target, LoadRateTable) =
              IF RateOf(m, target).rate > 0
              THEN {[amount |-> m.amount * RateOf(m, target).rate, asOf |-> RateOf(m, target).asOf]} ELSE {}
<1>1. CASE m.currency = target
  <2>1. DatedRate(LoadRateTable, m.currency, target) = {[rate |-> 1, asOf |-> 0]}
    BY <1>1 DEF DatedRate
  <2>2. RateOf(m, target) = [rate |-> 1, asOf |-> 0]
    BY <1>1 DEF RateOf
  <2>3. QED
    BY <1>1, <2>1, <2>2 DEF ConvertDated
<1>2. CASE m.currency # target
  <2> DEFINE pair == <<m.currency, target>>
  <2>1. pair \in Pairs /\ RateOf(m, target) = newest[pair]
    BY <1>2 DEF Pairs, RateOf
  <2>2. DatedRate(LoadRateTable, m.currency, target)
          = {[rate |-> r.rate, asOf |-> r.asOf] : r \in {x \in LoadRateTable : <<x.base, x.quote>> = pair}}
    BY <1>2 DEF DatedRate
  <2>3. DatedRate(LoadRateTable, m.currency, target) = IF newest[pair] = NoRate THEN {} ELSE {newest[pair]}
    BY <2>1, <2>2, NewestIsUsed DEF NewestRateUsed
  <2>4. newest[pair] = NoRate \/ newest[pair] \in [rate : Nat \ {0}, asOf : Nat \ {0}]
    BY <2>1 DEF TableInv, Newest
  <2> HIDE DEF pair
  <2>5. CASE newest[pair] = NoRate
    BY <1>2, <2>1, <2>3, <2>5 DEF ConvertDated, NoRate
  <2>6. CASE newest[pair] \in [rate : Nat \ {0}, asOf : Nat \ {0}]
    <3>1. newest[pair] # NoRate
      BY <2>6 DEF NoRate
    <3>2. DatedRate(LoadRateTable, m.currency, target) = {newest[pair]}
      BY <2>3, <3>1
    <3>3. QED
      BY <1>2, <2>1, <2>6, <3>2 DEF ConvertDated
  <2>7. QED
    BY <2>4, <2>5, <2>6
<1>3. QED
  BY <1>1, <1>2

\* What TotalsAreHonest says of an answer to n amounts.
HonestTotal(answer, amounts, target, n) ==
  LET known == {i \in 1 .. n : RateOf(amounts[i], target).rate > 0}
      dated == {i \in known : amounts[i].currency # target}
  IN /\ answer.total = SumFunction([i \in known |-> amounts[i].amount * RateOf(amounts[i], target).rate])
     /\ answer.converted + answer.excluded = n
     /\ answer.complete <=> known = 1 .. n
     /\ answer.asOf = IF dated = {} THEN 0 ELSE Min({RateOf(amounts[i], target).asOf : i \in dated})

\* An aggregate is the sum, at the newest rates, of what converts.
LEMMA AggregateIsHonest ==
  ASSUME TableInv, NEW target \in Currencies, NEW amounts,
         NEW n \in Nat, DOMAIN amounts = 1 .. n, Len(amounts) = n,
         \A i \in 1 .. n : amounts[i].currency \in Currencies /\ amounts[i].amount \in Nat
  PROVE  HonestTotal(AggregateConverted(amounts, target, LoadRateTable), amounts, target, n)
<1> DEFINE rate(i) == RateOf(amounts[i], target)
           known == {i \in 1 .. n : rate(i).rate > 0}
           dated == {i \in known : amounts[i].currency # target}
           done == [i \in DOMAIN amounts |-> ConvertDated(amounts[i], target, LoadRateTable)]
           kept == {i \in DOMAIN amounts : done[i] # {}}
           dates == {c.asOf : c \in UNION {done[i] : i \in kept}} \ {0}
           answer == AggregateConverted(amounts, target, LoadRateTable)
<1>1. ASSUME NEW i \in 1 .. n
      PROVE  /\ rate(i).rate \in Nat /\ rate(i).asOf \in Nat
             /\ rate(i).rate > 0 /\ amounts[i].currency # target => rate(i).asOf > 0
             /\ done[i] = IF rate(i).rate > 0
                          THEN {[amount |-> amounts[i].amount * rate(i).rate, asOf |-> rate(i).asOf]} ELSE {}
  BY ConvertsAtNewest
<1>2. ASSUME NEW i \in 1 .. n, amounts[i].currency = target PROVE rate(i).asOf = 0
  BY <1>2 DEF RateOf
<1>3. answer = [total |-> SumFunction([i \in kept |-> (CHOOSE c \in done[i] : TRUE).amount]),
                converted |-> Cardinality(kept), excluded |-> Len(amounts) - Cardinality(kept),
                complete |-> Len(amounts) = Cardinality(kept),
                asOf |-> IF dates = {} THEN 0 ELSE Min(dates)]
  BY Zenon DEF AggregateConverted
<1> HIDE DEF done, answer, rate
<1>4. kept = known
  BY <1>1
<1>5. [i \in kept |-> (CHOOSE c \in done[i] : TRUE).amount] = [i \in known |-> amounts[i].amount * rate(i).rate]
  <2>1. ASSUME NEW i \in known PROVE (CHOOSE c \in done[i] : TRUE).amount = amounts[i].amount * rate(i).rate
    <3>1. done[i] = {[amount |-> amounts[i].amount * rate(i).rate, asOf |-> rate(i).asOf]}
      BY <1>1
    <3>2. (CHOOSE c \in done[i] : TRUE) \in done[i]
      BY <3>1
    <3>3. QED
      BY <3>1, <3>2
  <2> HIDE DEF kept, known
  <2>2. QED
    BY <1>4, <2>1
<1>6. dates = {rate(i).asOf : i \in dated}
  <2>1. ASSUME NEW i \in known
        PROVE  done[i] = {[amount |-> amounts[i].amount * rate(i).rate, asOf |-> rate(i).asOf]}
    BY <1>1
  <2>2. ASSUME NEW i \in known PROVE i \in dated <=> rate(i).asOf # 0
    <3>1. rate(i).asOf \in Nat /\ (amounts[i].currency # target => rate(i).asOf > 0)
      BY <1>1
    <3>2. amounts[i].currency = target => rate(i).asOf = 0
      BY <1>2
    <3>3. QED
      BY <3>1, <3>2
  <2>3. dated \subseteq known
    OBVIOUS
  <2> HIDE DEF kept, known, dated
  <2>4. ASSUME NEW d \in dates PROVE \E i \in dated : d = rate(i).asOf
    <3>1. PICK i \in known : \E c \in done[i] : d = c.asOf
      BY <1>4
    <3>2. d = rate(i).asOf /\ d # 0
      BY <2>1, <3>1
    <3>3. QED
      BY <2>2, <3>1, <3>2
  <2>5. ASSUME NEW i \in dated PROVE rate(i).asOf \in dates
    <3>1. PICK c \in done[i] : c.asOf = rate(i).asOf
      <4> DEFINE x == amounts[i].amount * rate(i).rate
      <4>1. done[i] = {[amount |-> x, asOf |-> rate(i).asOf]}
        BY <2>1, <2>3
      <4> HIDE DEF x
      <4>2. QED
        BY <4>1
    <3>2. rate(i).asOf # 0 /\ i \in kept
      BY <1>4, <2>2, <2>3
    <3>3. QED
      BY <3>1, <3>2
  <2> HIDE DEF dates
  <2>6. QED
    BY <2>4, <2>5
<1>7. (dates = {}) <=> (dated = {})
  BY <1>6
<1>8. IsFiniteSet(1 .. n) /\ Cardinality(1 .. n) = n
  <2>1. \A a, b \in Int : IsFiniteSet(a .. b) /\ Cardinality(a .. b) = IF a > b THEN 0 ELSE b - a + 1
    BY FS_Interval
  <2>2. QED
    BY <2>1
<1>9. Cardinality(known) \in Nat /\ (Cardinality(known) = n <=> known = 1 .. n)
  BY <1>8, FS_Subset, FS_CardinalityType
<1> HIDE DEF dates, known, kept, dated
<1>10. answer.total = SumFunction([i \in known |-> amounts[i].amount * rate(i).rate])
  BY <1>3, <1>5, Zenon
<1>11. answer.converted = Cardinality(known) /\ answer.converted + answer.excluded = n
  BY <1>3, <1>4, <1>9
<1>12. answer.complete <=> known = 1 .. n
  BY <1>3, <1>4, <1>9
<1>13. answer.asOf = IF dated = {} THEN 0 ELSE Min({rate(i).asOf : i \in dated})
  BY <1>3, <1>6, <1>7, Zenon
<1>14. QED
  BY <1>10, <1>11, <1>12, <1>13, Zenon DEF HonestTotal, answer, known, dated, rate

\* A total is the sum of what converts at the newest rates.
LEMMA AggregatesAreHonest == TableInv /\ Computed => TotalsAreHonest
<1> SUFFICES ASSUME TableInv, Computed, asked.op = "aggregate" PROVE TotalsAreHonest
  BY DEF TotalsAreHonest
<1>1. PICK q \in Requests : asked = [op |-> "aggregate", q |-> q, body |-> AggregateConvertedHandler(q)]
  BY DEF Computed, NoQuery
<1>2. asked.q = q /\ asked.body = AggregateConvertedHandler(q)
  BY <1>1
<1>3. CASE q.target \notin Currencies \/ \E i \in DOMAIN q.amounts : ~IsMoney(q.amounts[i])
  BY <1>2, <1>3, Zenon DEF TotalsAreHonest, AggregateConvertedHandler
<1>4. CASE q.target \in Currencies /\ \A i \in DOMAIN q.amounts : IsMoney(q.amounts[i])
  <2> DEFINE n == Len(q.amounts)
  <2>1. q.amounts \in Seq([amount : Int, currency : STRING])
    BY RatesAssumption DEF RatesAssumption
  <2>2. n \in Nat /\ DOMAIN q.amounts = 1 .. n
    BY <2>1
  <2>3. ASSUME NEW i \in 1 .. n PROVE q.amounts[i].currency \in Currencies /\ q.amounts[i].amount \in Nat
    <3>1. \A A : \A t \in Seq(A) : \A k \in DOMAIN t : t[k] \in A
      OBVIOUS
    <3>2. q.amounts[i] \in [amount : Int, currency : STRING]
      BY <2>1, <2>2, <3>1, Zenon
    <3>3. QED
      BY <1>4, <2>2, <3>2 DEF IsMoney
  <2>4. asked.body = AggregateConverted(q.amounts, q.target, LoadRateTable)
    BY <1>2, <1>4, Zenon DEF AggregateConvertedHandler
  <2>5. HonestTotal(asked.body, q.amounts, q.target, n)
    <3>1. Len(q.amounts) = n
      OBVIOUS
    <3> HIDE DEF n
    <3>2. QED
      BY <1>4, <2>2, <2>3, <2>4, <3>1, AggregateIsHonest
  <2>6. QED
    BY <1>2, <2>2, <2>5, Zenon DEF TotalsAreHonest, RateOf, HonestTotal
<1>5. QED
  BY <1>3, <1>4

\* The inductive invariant of the figures.
RatesInv == TableInv /\ Computed

\* [ConversionsAreExact] The conversions use the rate of the latest date stored
\* for the pair, the last one stored for that date, whatever the order of the
\* refreshes; a total is the sum at these rates of the amounts that have one.
THEOREM ConversionsExact == FiguresSpec => []ConversionsAreExact
<1>1. RatesInit => RatesInv
  BY TableInit, ComputedInit DEF RatesInv
<1>2. RatesInv /\ [FiguresNext]_rateVars => RatesInv'
  BY TableNext, ComputedNext DEF RatesInv
<1>3. RatesInv => ConversionsAreExact
  BY NewestIsUsed, AggregatesAreHonest DEF RatesInv, ConversionsAreExact
<1>4. QED
  BY <1>1, <1>2, <1>3, PTL DEF FiguresSpec

-----------------------------------------------------------------------------
(* The calendar. *)

\* The first days of n months from the first of the calendar, as the calendar
\* counts them.
Starts(g, n) == g = [m \in FirstMonth .. FirstMonth + n |-> IF m = FirstMonth THEN 0 ELSE g[m - 1] + MonthLength(m - 1)]

\* The recursion of the calendar has a solution for every number of months.
LEMMA StartsExist ==
  ASSUME NEW n \in Nat
  PROVE  \E g : Starts(g, n)
<1> DEFINE Good == {k \in Nat : \E g : Starts(g, k)}
<1>a. FirstMonth \in Nat
  BY CalendarAssumption DEF CalendarAssumption, FirstMonth
<1>1. 0 \in Good
  <2>1. Starts([m \in FirstMonth .. FirstMonth + 0 |-> 0], 0)
    BY <1>a DEF Starts
  <2>2. QED
    BY <2>1
<1>2. ASSUME NEW k \in Good PROVE k + 1 \in Good
  <2>1. PICK g : Starts(g, k)
    OBVIOUS
  <2> DEFINE h == [m \in FirstMonth .. FirstMonth + (k + 1) |-> IF m = FirstMonth THEN 0 ELSE g[m - 1] + MonthLength(m - 1)]
  <2>2. k \in Nat
    OBVIOUS
  <2>3. ASSUME NEW m \in FirstMonth .. FirstMonth + k PROVE h[m] = g[m]
    <3>1. g[m] = IF m = FirstMonth THEN 0 ELSE g[m - 1] + MonthLength(m - 1)
      BY <2>1, Zenon DEF Starts
    <3>2. m \in FirstMonth .. FirstMonth + (k + 1)
      BY <1>a, <2>2
    <3>3. QED
      BY <3>1, <3>2
  <2>4. \A m \in FirstMonth .. FirstMonth + (k + 1) : m # FirstMonth => m - 1 \in FirstMonth .. FirstMonth + k
    BY <1>a, <2>2
  <2>5. h = [m \in FirstMonth .. FirstMonth + (k + 1) |-> IF m = FirstMonth THEN 0 ELSE h[m - 1] + MonthLength(m - 1)]
    BY <2>3, <2>4
  <2>6. Starts(h, k + 1)
    BY <2>5, Zenon DEF Starts
  <2>7. QED
    BY <2>2, <2>6
<1>3. Good \in SUBSET Nat
  OBVIOUS
<1> HIDE DEF Good
<1>4. Good = Nat
  BY <1>1, <1>2, <1>3, Count, Zenon
<1>5. QED
  BY <1>4 DEF Good

\* The months: how long they are, and where each of them starts.
LEMMA MonthFacts ==
  /\ FirstMonth \in Nat /\ LastMonth \in Nat /\ FirstMonth <= LastMonth
  /\ \A m \in Nat : MonthLength(m) \in 28 .. 31
  /\ MonthStart[FirstMonth] = 0
  /\ \A m \in FirstMonth .. LastMonth : MonthStart[m + 1] = MonthStart[m] + MonthLength(m)
<1>1. FirstMonth \in Nat /\ LastMonth \in Nat /\ FirstMonth <= LastMonth
  BY CalendarAssumption DEF CalendarAssumption, FirstMonth, LastMonth
<1>2. \A m \in Nat : MonthLength(m) \in 28 .. 31
  BY DEF MonthLength
<1>3. MonthStart = [m \in FirstMonth .. LastMonth + 1 |->
                      IF m = FirstMonth THEN 0 ELSE MonthStart[m - 1] + MonthLength(m - 1)]
  <2> DEFINE n == LastMonth + 1 - FirstMonth
  <2>1. n \in Nat /\ FirstMonth + n = LastMonth + 1
    BY <1>1
  <2> HIDE DEF n
  <2>2. PICK g : Starts(g, n)
    BY <2>1, StartsExist
  <2>3. g = [m \in FirstMonth .. LastMonth + 1 |-> IF m = FirstMonth THEN 0 ELSE g[m - 1] + MonthLength(m - 1)]
    BY <2>1, <2>2, Zenon DEF Starts
  <2>4. QED
    BY <2>3, Zenon DEF MonthStart
<1>4. \A m \in FirstMonth .. LastMonth + 1 :
        MonthStart[m] = IF m = FirstMonth THEN 0 ELSE MonthStart[m - 1] + MonthLength(m - 1)
  BY <1>3, Zenon
<1>5. FirstMonth \in FirstMonth .. LastMonth + 1
  BY <1>1
<1>6. \A m \in FirstMonth .. LastMonth : m + 1 \in FirstMonth .. LastMonth + 1 /\ m + 1 # FirstMonth /\ (m + 1) - 1 = m
  BY <1>1
<1>7. ASSUME NEW m \in FirstMonth .. LastMonth PROVE MonthStart[m + 1] = MonthStart[m] + MonthLength(m)
  BY <1>4, <1>6, Zenon
<1>8. MonthStart[FirstMonth] = 0
  BY <1>4, <1>5, Zenon
<1>9. QED
  BY <1>1, <1>2, <1>7, <1>8

\* A month starts after the days of the months before it.
LEMMA MonthOrder ==
  /\ \A m \in FirstMonth .. LastMonth + 1 : MonthStart[m] \in Nat
  /\ \A m, l \in FirstMonth .. LastMonth + 1 : m < l => MonthStart[m] + MonthLength(m) <= MonthStart[l]
<1> DEFINE Good == {k \in Nat : FirstMonth + k <= LastMonth + 1 =>
              /\ \A m \in FirstMonth .. FirstMonth + k : MonthStart[m] \in Nat
              /\ \A m \in FirstMonth .. FirstMonth + k :
                   m < FirstMonth + k => MonthStart[m] + MonthLength(m) <= MonthStart[FirstMonth + k]}
<1>1. 0 \in Good
  <2>1. FirstMonth \in Nat /\ MonthStart[FirstMonth] = 0
    BY MonthFacts
  <2>2. QED
    BY <2>1
<1>2. ASSUME NEW k \in Good PROVE k + 1 \in Good
  <2> DEFINE l == FirstMonth + k
  <2>1. SUFFICES ASSUME FirstMonth + (k + 1) <= LastMonth + 1
                 PROVE  /\ \A m \in FirstMonth .. FirstMonth + (k + 1) : MonthStart[m] \in Nat
                        /\ \A m \in FirstMonth .. FirstMonth + (k + 1) : m < FirstMonth + (k + 1) =>
                             MonthStart[m] + MonthLength(m) <= MonthStart[FirstMonth + (k + 1)]
    <3>1. k + 1 \in Nat
      OBVIOUS
    <3> HIDE DEF l
    <3>2. QED
      BY <3>1
  <2>2. k \in Nat /\ FirstMonth \in Nat /\ LastMonth \in Nat
    BY MonthFacts
  <2>3. l \in FirstMonth .. LastMonth /\ FirstMonth + (k + 1) = l + 1 /\ l \in Nat
    BY <2>1, <2>2
  <2>4. /\ \A m \in FirstMonth .. l : MonthStart[m] \in Nat
        /\ \A m \in FirstMonth .. l : m < l => MonthStart[m] + MonthLength(m) <= MonthStart[l]
    BY <2>1, <2>2
  <2> HIDE DEF l, Good
  <2>5. MonthStart[l + 1] = MonthStart[l] + MonthLength(l) /\ MonthLength(l) \in Nat
    BY <2>3, MonthFacts
  <2>6. MonthStart[l] \in Nat /\ MonthStart[l + 1] \in Nat
    BY <2>2, <2>3, <2>4, <2>5
  <2>6a. \A m \in FirstMonth .. l + 1 : MonthStart[m] \in Nat
    <3>1. \A m \in FirstMonth .. l + 1 : m \in FirstMonth .. l \/ m = l + 1
      BY <2>2, <2>3
    <3>2. QED
      BY <2>4, <2>6, <3>1
  <2>7. ASSUME NEW m \in FirstMonth .. l + 1, m < l + 1 PROVE MonthStart[m] + MonthLength(m) <= MonthStart[l + 1]
    <3>1. CASE m = l
      BY <2>5, <2>6, <3>1
    <3>2. CASE m # l
      <4>1. m \in FirstMonth .. l /\ m < l
        BY <2>2, <2>3, <2>7, <3>2
      <4>2. MonthStart[m] + MonthLength(m) <= MonthStart[l]
        BY <2>4, <4>1
      <4>3. MonthLength(m) \in Nat
        BY <2>2, MonthFacts
      <4>4. MonthStart[m] \in Nat
        BY <2>4, <4>1
      <4>5. QED
        BY <2>5, <2>6, <4>2, <4>3, <4>4
    <3>3. QED
      BY <3>1, <3>2
  <2>8. QED
    BY <2>3, <2>6a, <2>7
<1>3. Good \in SUBSET Nat
  OBVIOUS
<1> HIDE DEF Good
<1>4. Good = Nat
  BY <1>1, <1>2, <1>3, Count, Zenon
<1>5. ASSUME NEW l \in FirstMonth .. LastMonth + 1
      PROVE  /\ MonthStart[l] \in Nat
             /\ \A m \in FirstMonth .. l : m < l => MonthStart[m] + MonthLength(m) <= MonthStart[l]
  <2>1. FirstMonth \in Nat /\ LastMonth \in Nat /\ l - FirstMonth \in Nat /\ FirstMonth + (l - FirstMonth) = l
    BY MonthFacts
  <2>2. l - FirstMonth \in Good /\ l \in FirstMonth .. l /\ l <= LastMonth + 1
    BY <1>4, <2>1
  <2>3. QED
    BY <2>1, <2>2 DEF Good
<1>6. \A m, l \in FirstMonth .. LastMonth + 1 : m < l => m \in FirstMonth .. l
  BY MonthFacts
<1>7. QED
  BY <1>5, <1>6

\* The month of a date, and the day in it.
LEMMA MonthIs ==
  ASSUME NEW d \in Days
  PROVE  /\ MonthOf(d) \in FirstMonth .. LastMonth
         /\ DayOf(d) \in 0 .. MonthLength(MonthOf(d)) - 1
         /\ d = MonthStart[MonthOf(d)] + DayOf(d)
<1> DEFINE m == MonthOf(d)
           Ends == {n \in FirstMonth .. LastMonth : d < MonthStart[n + 1]}
<1>1. FirstMonth \in Nat /\ LastMonth \in Nat /\ FirstMonth <= LastMonth /\ d \in Int /\ 0 <= d /\ d <= LastDay
  BY MonthFacts, MonthOrder DEF Days, LastDay
<1>2. \A n \in FirstMonth .. LastMonth + 1 : MonthStart[n] \in Nat
  BY MonthOrder
<1>3. d < MonthStart[LastMonth + 1]
  BY <1>1, <1>2 DEF LastDay
<1>4. LastMonth \in Ends /\ Ends \in SUBSET Nat
  BY <1>1, <1>3
<1> HIDE DEF Ends
<1>5. PICK n \in Ends : \A k \in Ends : ~(k < n)
  BY <1>4, Least
<1>6. n \in FirstMonth .. LastMonth /\ d < MonthStart[n + 1]
  BY <1>5 DEF Ends
<1>7. MonthStart[n] <= d
  <2>1. CASE n = FirstMonth
    BY <2>1, <1>1, MonthFacts
  <2>2. CASE n # FirstMonth
    <3>1. n - 1 \in FirstMonth .. LastMonth /\ n - 1 < n /\ (n - 1) + 1 = n
      BY <1>1, <1>6, <2>2
    <3>2. ~(d < MonthStart[n])
      BY <1>5, <3>1 DEF Ends
    <3>3. MonthStart[n] \in Nat
      BY <1>1, <1>2, <1>6
    <3>4. QED
      BY <1>1, <3>2, <3>3
  <2>3. QED
    BY <2>1, <2>2
<1>8. MonthAt[d] = CHOOSE k \in FirstMonth .. LastMonth : MonthStart[k] <= d /\ d < MonthStart[k + 1]
  BY <1>1 DEF MonthAt
<1>9. m \in FirstMonth .. LastMonth /\ MonthStart[m] <= d /\ d < MonthStart[m + 1]
  BY <1>6, <1>7, <1>8, Zenon DEF MonthOf
<1> HIDE DEF m
<1>10. MonthStart[m + 1] = MonthStart[m] + MonthLength(m) /\ MonthLength(m) \in Nat /\ MonthStart[m] \in Nat
  BY <1>1, <1>2, <1>9, MonthFacts
<1>11. DayOf(d) = d - MonthStart[m]
  BY DEF DayOf, m
<1>12. DayOf(d) \in 0 .. MonthLength(m) - 1 /\ d = MonthStart[m] + DayOf(d)
  BY <1>1, <1>9, <1>10, <1>11
<1>13. QED
  BY <1>9, <1>12 DEF m

\* A day of a month is a date, of that month.
LEMMA DayOfMonth ==
  ASSUME NEW m \in FirstMonth .. LastMonth, NEW j \in 0 .. MonthLength(m) - 1
  PROVE  /\ MonthStart[m] + j \in Days
         /\ MonthOf(MonthStart[m] + j) = m /\ DayOf(MonthStart[m] + j) = j
<1> DEFINE d == MonthStart[m] + j
           l == MonthOf(d)
<1>1. /\ FirstMonth \in Nat /\ LastMonth \in Nat /\ m \in Nat /\ MonthLength(m) \in Nat /\ MonthStart[m] \in Nat
      /\ MonthStart[LastMonth + 1] \in Nat
  BY MonthFacts, MonthOrder
<1>2. d \in Days
  <2>1. m < LastMonth + 1 /\ LastMonth + 1 \in FirstMonth .. LastMonth + 1 /\ m \in FirstMonth .. LastMonth + 1
    BY <1>1
  <2>2. MonthStart[m] + MonthLength(m) <= MonthStart[LastMonth + 1]
    BY <2>1, MonthOrder
  <2>3. QED
    BY <1>1, <2>2 DEF Days, LastDay
<1> HIDE DEF d
<1>3. /\ l \in FirstMonth .. LastMonth
      /\ DayOf(d) \in 0 .. MonthLength(l) - 1 /\ d = MonthStart[l] + DayOf(d)
  BY <1>2, MonthIs
<1> HIDE DEF l
<1>4. MonthLength(l) \in Nat /\ MonthStart[l] \in Nat /\ l \in Nat
  BY <1>1, <1>3, MonthFacts, MonthOrder
<1>5. l = m
  <2>1. l \in FirstMonth .. LastMonth + 1 /\ m \in FirstMonth .. LastMonth + 1
    BY <1>1, <1>3
  <2>2. CASE l < m
    <3>1. MonthStart[l] + MonthLength(l) <= MonthStart[m]
      BY <2>1, <2>2, MonthOrder
    <3>2. QED
      BY <1>1, <1>3, <1>4, <3>1 DEF d
  <2>3. CASE m < l
    <3>1. MonthStart[m] + MonthLength(m) <= MonthStart[l]
      BY <2>1, <2>3, MonthOrder
    <3>2. QED
      BY <1>1, <1>3, <1>4, <3>1 DEF d
  <2>4. QED
    BY <1>1, <1>4, <2>2, <2>3
<1>6. DayOf(d) = j
  BY <1>1, <1>3, <1>5 DEF d
<1>7. QED
  BY <1>2, <1>5, <1>6 DEF d, l

\* Of two dates the later is in a later month, or later in the same one.
LEMMA MonthRises ==
  ASSUME NEW d \in Days, NEW e \in Days
  PROVE  d < e <=> MonthOf(d) < MonthOf(e) \/ (MonthOf(d) = MonthOf(e) /\ DayOf(d) < DayOf(e))
<1> DEFINE l == MonthOf(d)
           m == MonthOf(e)
<1>1. /\ l \in FirstMonth .. LastMonth /\ DayOf(d) \in 0 .. MonthLength(l) - 1 /\ d = MonthStart[l] + DayOf(d)
      /\ m \in FirstMonth .. LastMonth /\ DayOf(e) \in 0 .. MonthLength(m) - 1 /\ e = MonthStart[m] + DayOf(e)
  BY MonthIs
<1> HIDE DEF l, m
<1>2. /\ l \in Nat /\ m \in Nat /\ MonthLength(l) \in Nat /\ MonthLength(m) \in Nat
      /\ MonthStart[l] \in Nat /\ MonthStart[m] \in Nat
  BY <1>1, MonthFacts, MonthOrder
<1>3. l < m => MonthStart[l] + MonthLength(l) <= MonthStart[m]
  BY <1>1, <1>2, MonthFacts, MonthOrder
<1>4. m < l => MonthStart[m] + MonthLength(m) <= MonthStart[l]
  BY <1>1, <1>2, MonthFacts, MonthOrder
<1>5. CASE l = m
  BY <1>1, <1>2, <1>5 DEF l, m
<1>6. CASE l < m
  <2>1. d < e
    BY <1>1, <1>2, <1>3, <1>6
  <2>2. QED
    BY <2>1, <1>6 DEF l, m
<1>7. CASE m < l
  <2>1. e < d
    BY <1>1, <1>2, <1>4, <1>7
  <2>2. d \in Int /\ e \in Int
    BY DEF Days
  <2>3. ~(d < e) /\ ~(l < m) /\ l # m
    BY <1>2, <1>7, <2>1, <2>2
  <2>4. QED
    BY <2>3 DEF l, m
<1>8. QED
  BY <1>2, <1>5, <1>6, <1>7

-----------------------------------------------------------------------------
(* A few facts of arithmetic. *)

\* Products with a positive number rise by at least it.
LEMMA Multiples ==
  ASSUME NEW per \in Nat \ {0}, NEW j \in Nat, NEW k \in Nat
  PROVE  /\ per * j \in Nat
         /\ j < k => per * j + per <= per * k
<1>1. per * j \in Nat
  OBVIOUS
<1>2. ASSUME j < k PROVE per * j + per <= per * k
  <2>1. k - j \in Nat /\ k - j >= 1 /\ k = j + (k - j)
    BY <1>2
  <2> DEFINE g == k - j
  <2>2. per * k = per * j + per * g
    OBVIOUS
  <2>3. per * g >= per
    BY <2>1
  <2>4. per * g \in Nat
    BY <2>1
  <2> HIDE DEF g
  <2>5. QED
    BY <1>1, <2>2, <2>3, <2>4
<1>3. QED
  BY <1>1, <1>2

\* Division: what is a multiple, and of what.
LEMMA Division ==
  ASSUME NEW per \in Nat \ {0}
  PROVE  /\ \A k \in Nat : (per * k) % per = 0
         /\ \A n \in Nat : n % per = 0 => n \div per \in Nat /\ n = per * (n \div per)
<1>1. ASSUME NEW n \in Nat PROVE n \div per \in Nat /\ n % per \in 0 .. per - 1 /\ n = per * (n \div per) + (n % per)
  OBVIOUS
<1>2. ASSUME NEW k \in Nat PROVE (per * k) % per = 0
  <2> DEFINE n == per * k
             g == n \div per
             r == n % per
  <2>1. n \in Nat
    BY Multiples
  <2> HIDE DEF n
  <2>2. g \in Nat /\ r \in 0 .. per - 1 /\ n = per * g + r
    BY <1>1, <2>1
  <2> HIDE DEF g, r
  <2>3. per * g \in Nat /\ (g < k => per * g + per <= per * k) /\ (k < g => per * k + per <= per * g)
    BY <2>2, Multiples
  <2>4. ~(g < k) /\ ~(k < g)
    BY <2>2, <2>3 DEF n
  <2>5. g = k
    BY <2>2, <2>4
  <2>6. r = 0
    BY <2>1, <2>2, <2>5 DEF n
  <2>7. QED
    BY <2>6 DEF n, r
<1>3. QED
  BY <1>1, <1>2

\* The least element of a set of dates, as the library chooses it.
LEMMA MinOfTwo ==
  ASSUME NEW a \in Int, NEW b \in Int
  PROVE  Min({a, b}) = IF a <= b THEN a ELSE b
  BY DEF Min

-----------------------------------------------------------------------------
(* The cycles: the k-th date of a cycle, as the code computes it and as it should be. *)

\* The step of a cycle, in days or in months.
Per(cycle) ==
  IF cycle.unit = "day" THEN cycle.interval
  ELSE IF cycle.unit = "week" THEN 7 * cycle.interval
  ELSE cycle.interval * IF cycle.unit = "year" THEN 12 ELSE 1

\* A cycle of days or weeks adds days; one of months or years adds months.
InDays(cycle) == cycle.unit \in {"day", "week"}

\* A cycle that the program accepts.
ACycle(cycle) == cycle.unit \in Units /\ cycle.interval \in Nat \ {0}

\* The occurrence without the bound of 32 bits, and the bound.
Ideal(anchor, cycle, k) ==
  IF InDays(cycle) THEN CheckedAddDays(anchor, Per(cycle) * k) ELSE CheckedAddMonths(anchor, Per(cycle) * k)

\* The steps of an occurrence fit the u32 that counts them.
Fits(cycle, k) == cycle.interval * k * (IF cycle.unit = "year" THEN 12 ELSE 1) <= MaxU32

\* An occurrence is the ideal one, when the number of its steps fits.
LEMMA OccurrenceIs ==
  ASSUME NEW cycle, ACycle(cycle), NEW k \in Nat, NEW anchor
  PROVE  Occurrence(anchor, cycle, k) = IF Fits(cycle, k) THEN Ideal(anchor, cycle, k) ELSE None
<1> DEFINE a == cycle.interval
           n == a * k
<1>1. a \in Nat /\ n \in Nat /\ MaxU32 \in Nat
  BY Multiples, ScheduleAssumption DEF ACycle, ScheduleAssumption
<1>2. None \notin Int
  BY CalendarAssumption DEF CalendarAssumption
<1>3. CheckedMul(a, k) = IF n > MaxU32 THEN None ELSE n
  BY DEF CheckedMul
<1>4. CASE cycle.unit = "day"
  <2>1. Per(cycle) * k = n * 1 /\ (Fits(cycle, k) <=> n <= MaxU32) /\ InDays(cycle)
    BY <1>1, <1>4 DEF Per, Fits, InDays
  <2> HIDE DEF n
  <2>2. QED
    BY <1>1, <1>2, <1>3, <1>4, <2>1 DEF Occurrence, Ideal
<1>5. CASE cycle.unit = "week"
  <2>1. Per(cycle) * k = n * 7 /\ (Fits(cycle, k) <=> n <= MaxU32) /\ InDays(cycle)
    BY <1>1, <1>5 DEF Per, Fits, InDays
  <2> HIDE DEF n
  <2>2. QED
    BY <1>1, <1>2, <1>3, <1>5, <2>1 DEF Occurrence, Ideal
<1>6. CASE cycle.unit = "month"
  <2>1. Per(cycle) * k = n /\ (Fits(cycle, k) <=> n <= MaxU32) /\ ~InDays(cycle)
    BY <1>1, <1>6 DEF Per, Fits, InDays
  <2> HIDE DEF n
  <2>2. QED
    BY <1>1, <1>2, <1>3, <1>6, <2>1 DEF Occurrence, Ideal
<1>7. CASE cycle.unit = "year"
  <2>1. Per(cycle) * k = n * 12 /\ (Fits(cycle, k) <=> n * 12 <= MaxU32) /\ ~InDays(cycle)
    BY <1>1, <1>7 DEF Per, Fits, InDays
  <2> HIDE DEF n
  <2>2. n > MaxU32 => n * 12 > MaxU32
    BY <1>1
  <2>3. CheckedMul(n, 12) = IF n * 12 > MaxU32 THEN None ELSE n * 12
    BY DEF CheckedMul
  <2>4. QED
    BY <1>1, <1>2, <1>3, <1>7, <2>1, <2>2, <2>3 DEF Occurrence, Ideal
<1>8. QED
  BY <1>4, <1>5, <1>6, <1>7 DEF ACycle, Units

\* What a date on a cycle is, by days or by months.
LEMMA OnCycleIs ==
  ASSUME NEW cycle, ACycle(cycle), NEW anchor, NEW d
  PROVE  /\ Per(cycle) \in Nat \ {0}
         /\ OnCycle(anchor, cycle, d) <=>
              /\ d >= anchor
              /\ IF InDays(cycle) THEN (d - anchor) % Per(cycle) = 0
                 ELSE /\ (MonthOf(d) - MonthOf(anchor)) % Per(cycle) = 0
                      /\ DayOf(d) = Min({DayOf(anchor), MonthLength(MonthOf(d)) - 1})
<1>1. Per(cycle) \in Nat \ {0}
  BY DEF ACycle, Per
<1>2. QED
  BY <1>1 DEF ACycle, Units, OnCycle, InDays, Per

\* The occurrences are the dates on the cycle, one after the other.
IdealIs(anchor, cycle, k) ==
  LET d == Ideal(anchor, cycle, k) IN d # None => d \in Days /\ OnCycle(anchor, cycle, d)

\* Days and weeks: an ideal date is on the cycle, each date on it is one, and
\* they rise.
LEMMA DailyFacts ==
  ASSUME NEW cycle, ACycle(cycle), InDays(cycle), NEW anchor \in Days
  PROVE  /\ \A k \in Nat : IdealIs(anchor, cycle, k)
         /\ \A d \in Days : OnCycle(anchor, cycle, d) => \E k \in Nat : Ideal(anchor, cycle, k) = d
         /\ \A j, k \in Nat : j < k /\ Ideal(anchor, cycle, k) # None =>
              Ideal(anchor, cycle, j) # None /\ Ideal(anchor, cycle, j) < Ideal(anchor, cycle, k)
<1> DEFINE p == Per(cycle)
<1>1. p \in Nat \ {0} /\ anchor \in Nat /\ LastDay \in Int /\ None \notin Int
  <2>1. p \in Nat \ {0}
    BY OnCycleIs
  <2>2. LastMonth + 1 \in FirstMonth .. LastMonth + 1
    BY MonthFacts
  <2>3. LastDay \in Int
    BY <2>2, MonthOrder DEF LastDay
  <2>4. anchor \in Nat
    BY <2>3 DEF Days
  <2>5. QED
    BY <2>1, <2>3, <2>4, CalendarAssumption DEF CalendarAssumption
<1>2. \A d : OnCycle(anchor, cycle, d) <=> d >= anchor /\ (d - anchor) % p = 0
  BY OnCycleIs
<1>3. \A k \in Nat : Ideal(anchor, cycle, k) = IF anchor + p * k <= LastDay THEN anchor + p * k ELSE None
  BY DEF Ideal, CheckedAddDays
<1> HIDE DEF p
<1>4. \A k \in Nat : p * k \in Nat /\ (p * k) % p = 0
  BY <1>1, Multiples, Division
<1>5. ASSUME NEW k \in Nat PROVE IdealIs(anchor, cycle, k)
  <2>1. SUFFICES ASSUME anchor + p * k <= LastDay
                 PROVE  anchor + p * k \in Days /\ OnCycle(anchor, cycle, anchor + p * k)
    BY <1>3 DEF IdealIs
  <2> DEFINE n == p * k
  <2>2. n \in Nat /\ n % p = 0
    BY <1>4
  <2> HIDE DEF n
  <2>3. anchor + n \in Days /\ anchor + n >= anchor /\ (anchor + n) - anchor = n
    BY <1>1, <2>1, <2>2 DEF Days, n
  <2>4. QED
    BY <1>2, <2>2, <2>3 DEF n
<1>6. ASSUME NEW d \in Days, OnCycle(anchor, cycle, d) PROVE \E k \in Nat : Ideal(anchor, cycle, k) = d
  <2>1. d >= anchor /\ (d - anchor) % p = 0
    BY <1>2, <1>6
  <2>1a. d \in Int /\ d - anchor \in Nat
    BY <1>1, <2>1 DEF Days
  <2> DEFINE k == (d - anchor) \div p
  <2>2. k \in Nat /\ d - anchor = p * k
    BY <1>1, <2>1, <2>1a, Division
  <2> HIDE DEF k
  <2>3. anchor + p * k = d /\ d <= LastDay
    BY <1>1, <1>4, <2>1a, <2>2 DEF Days
  <2>4. QED
    BY <1>3, <2>2, <2>3
<1>7. ASSUME NEW j \in Nat, NEW k \in Nat, j < k, Ideal(anchor, cycle, k) # None
      PROVE  Ideal(anchor, cycle, j) # None /\ Ideal(anchor, cycle, j) < Ideal(anchor, cycle, k)
  <2>1. p * j + p <= p * k /\ p * j \in Nat /\ p * k \in Nat
    BY <1>1, <1>7, Multiples
  <2>2. QED
    BY <1>1, <1>3, <1>7, <2>1
<1>8. QED
  BY <1>5, <1>6, <1>7

\* Months and years: the same, although a short month moves the day.
LEMMA MonthlyFacts ==
  ASSUME NEW cycle, ACycle(cycle), ~InDays(cycle), NEW anchor \in Days
  PROVE  /\ \A k \in Nat : IdealIs(anchor, cycle, k)
         /\ \A d \in Days : OnCycle(anchor, cycle, d) => \E k \in Nat : Ideal(anchor, cycle, k) = d
         /\ \A j, k \in Nat : j < k /\ Ideal(anchor, cycle, k) # None =>
              Ideal(anchor, cycle, j) # None /\ Ideal(anchor, cycle, j) < Ideal(anchor, cycle, k)
<1> DEFINE p == Per(cycle)
           m0 == MonthOf(anchor)
           day(m) == Min({DayOf(anchor), MonthLength(m) - 1})
           date(m) == MonthStart[m] + day(m)
<1>1. /\ p \in Nat \ {0} /\ LastMonth \in Nat /\ FirstMonth \in Nat /\ None \notin Int
      /\ m0 \in FirstMonth .. LastMonth /\ DayOf(anchor) \in 0 .. MonthLength(m0) - 1
      /\ anchor = MonthStart[m0] + DayOf(anchor)
  BY OnCycleIs, MonthFacts, MonthIs, CalendarAssumption DEF CalendarAssumption
<1>2. \A d : OnCycle(anchor, cycle, d) <=>
        d >= anchor /\ (MonthOf(d) - m0) % p = 0 /\ DayOf(d) = day(MonthOf(d))
  BY OnCycleIs
<1>3. \A k \in Nat : Ideal(anchor, cycle, k) = IF m0 + p * k > LastMonth THEN None ELSE date(m0 + p * k)
  BY DEF Ideal, CheckedAddMonths
<1> HIDE DEF p
<1>4. \A k \in Nat : p * k \in Nat /\ (p * k) % p = 0
  BY <1>1, Multiples, Division
<1>5. ASSUME NEW m \in FirstMonth .. LastMonth
      PROVE  day(m) \in 0 .. MonthLength(m) - 1 /\ day(m) <= DayOf(anchor)
  <2>1. MonthLength(m) \in 28 .. 31
    BY <1>1, MonthFacts
  <2>2. DayOf(anchor) \in Nat
    BY <1>1
  <2>3. day(m) = IF DayOf(anchor) <= MonthLength(m) - 1 THEN DayOf(anchor) ELSE MonthLength(m) - 1
    BY <2>1, <2>2, MinOfTwo
  <2>4. QED
    BY <2>1, <2>2, <2>3
<1>6. day(m0) = DayOf(anchor)
  <2>1. MonthLength(m0) \in 28 .. 31
    BY <1>1, MonthFacts
  <2>2. day(m0) = IF DayOf(anchor) <= MonthLength(m0) - 1 THEN DayOf(anchor) ELSE MonthLength(m0) - 1
    BY <1>1, <2>1, MinOfTwo
  <2>3. QED
    BY <1>1, <2>1, <2>2
<1> HIDE DEF day
<1>7. ASSUME NEW m \in FirstMonth .. LastMonth
      PROVE  date(m) \in Days /\ MonthOf(date(m)) = m /\ DayOf(date(m)) = day(m)
  BY <1>5, DayOfMonth
<1>8. date(m0) = anchor
  BY <1>1, <1>6
<1> HIDE DEF date
<1>9. \A m, l \in FirstMonth .. LastMonth : m < l => date(m) < date(l)
  BY <1>7, MonthRises
<1>10. ASSUME NEW k \in Nat PROVE m0 + p * k \in Nat /\ m0 + p * k >= m0 /\ (m0 + p * k) - m0 = p * k
  BY <1>1, <1>4
<1>11. ASSUME NEW k \in Nat PROVE IdealIs(anchor, cycle, k)
  <2> DEFINE m == m0 + p * k
  <2>1. SUFFICES ASSUME ~(m > LastMonth) PROVE date(m) \in Days /\ OnCycle(anchor, cycle, date(m))
    BY <1>3 DEF IdealIs
  <2>2. m \in FirstMonth .. LastMonth /\ m >= m0 /\ (m - m0) % p = 0
    <3>1. m \in Nat /\ m >= m0 /\ m - m0 = p * k /\ (p * k) % p = 0
      BY <1>4, <1>10
    <3> HIDE DEF m, m0
    <3>2. QED
      BY <1>1, <2>1, <3>1
  <2> HIDE DEF m
  <2>3. date(m) >= anchor
    <3>1. CASE m = m0
      BY <1>8, <3>1 DEF Days
    <3>2. CASE m # m0
      <4>1. m0 < m
        BY <1>1, <2>2, <3>2
      <4>2. anchor < date(m) /\ anchor \in Int /\ date(m) \in Int
        BY <1>1, <1>7, <1>8, <1>9, <2>2, <4>1 DEF Days
      <4>3. QED
        BY <4>2
    <3>3. QED
      BY <3>1, <3>2
  <2>4. QED
    BY <1>2, <1>7, <2>2, <2>3
<1>12. ASSUME NEW d \in Days, OnCycle(anchor, cycle, d) PROVE \E k \in Nat : Ideal(anchor, cycle, k) = d
  <2> DEFINE m == MonthOf(d)
  <2>1. m \in FirstMonth .. LastMonth /\ d = MonthStart[m] + DayOf(d)
    BY MonthIs
  <2>2. d >= anchor /\ (m - m0) % p = 0 /\ DayOf(d) = day(m)
    BY <1>2, <1>12
  <2>3. m >= m0
    <3>1. ~(d < anchor)
      BY <2>2 DEF Days
    <3>2. ~(m < m0)
      BY <3>1, MonthRises
    <3> HIDE DEF m
    <3>3. QED
      BY <1>1, <2>1, <3>2
  <2>4. d = date(m)
    BY <2>1, <2>2 DEF date
  <2> HIDE DEF m, m0
  <2> DEFINE k == (m - m0) \div p
  <2>5. m - m0 \in Nat /\ m \in Int /\ m0 \in Int
    BY <1>1, <2>1, <2>3
  <2>6. k \in Nat /\ m - m0 = p * k
    BY <1>1, <2>2, <2>5, Division
  <2> HIDE DEF k
  <2>7. m0 + p * k = m /\ ~(m > LastMonth)
    BY <1>1, <1>4, <2>1, <2>5, <2>6
  <2>8. QED
    BY <1>3, <2>4, <2>6, <2>7
<1>13. ASSUME NEW j \in Nat, NEW k \in Nat, j < k, Ideal(anchor, cycle, k) # None
       PROVE  Ideal(anchor, cycle, j) # None /\ Ideal(anchor, cycle, j) < Ideal(anchor, cycle, k)
  <2>1. p * j + p <= p * k /\ p * j \in Nat /\ p * k \in Nat
    BY <1>1, <1>13, Multiples
  <2>2. ~(m0 + p * k > LastMonth)
    BY <1>3, <1>13
  <2> HIDE DEF m0
  <2>3. /\ m0 + p * j \in FirstMonth .. LastMonth /\ m0 + p * k \in FirstMonth .. LastMonth
        /\ m0 + p * j < m0 + p * k /\ ~(m0 + p * j > LastMonth)
    BY <1>1, <2>1, <2>2
  <2>4. Ideal(anchor, cycle, j) = date(m0 + p * j) /\ Ideal(anchor, cycle, k) = date(m0 + p * k)
    BY <1>3, <2>2, <2>3
  <2>5. date(m0 + p * j) < date(m0 + p * k) /\ date(m0 + p * j) \in Int
    BY <1>7, <1>9, <2>3 DEF Days
  <2>6. QED
    BY <1>1, <2>4, <2>5
<1>14. QED
  BY <1>11, <1>12, <1>13

\* The least element of a set of numbers is the one the library chooses.
LEMMA MinIs ==
  ASSUME NEW T \in SUBSET Nat, T # {}
  PROVE  Min(T) \in T /\ \A x \in T : Min(T) <= x
<1>1. PICK n \in T : \A m \in T : ~(m < n)
  BY Least
<1>2. \A m \in T : n <= m
  BY <1>1
<1>3. QED
  BY <1>2 DEF Min

\* Either way: ideal dates are those on the cycle, and they rise.
LEMMA IdealFacts ==
  ASSUME NEW cycle, ACycle(cycle), NEW anchor \in Days
  PROVE  /\ \A k \in Nat : IdealIs(anchor, cycle, k)
         /\ \A d \in Days : OnCycle(anchor, cycle, d) => \E k \in Nat : Ideal(anchor, cycle, k) = d
         /\ \A j, k \in Nat : j < k /\ Ideal(anchor, cycle, k) # None =>
              Ideal(anchor, cycle, j) # None /\ Ideal(anchor, cycle, j) < Ideal(anchor, cycle, k)
  BY DailyFacts, MonthlyFacts

\* The dates are numbers up to the last day, and none of them is absent.
LEMMA DateTypes == LastDay \in Int /\ Days \subseteq Nat /\ None \notin Int /\ \A d \in Days : d <= LastDay
<1>1. LastMonth + 1 \in FirstMonth .. LastMonth + 1
  BY MonthFacts
<1>2. QED
  BY <1>1, MonthOrder, CalendarAssumption DEF LastDay, Days, CalendarAssumption

\* The rank of an occurrence is its index.
LEMMA RankIs ==
  ASSUME NEW cycle, ACycle(cycle), NEW anchor \in Days, NEW k \in Nat, Ideal(anchor, cycle, k) # None
  PROVE  Rank(anchor, cycle, Ideal(anchor, cycle, k)) = k
<1> DEFINE at(j) == Ideal(anchor, cycle, j)
           d == at(k)
           T == {e \in anchor .. d - 1 : OnCycle(anchor, cycle, e)}
           h == [j \in 0 .. k - 1 |-> at(j)]
<1>1. /\ \A j \in Nat : at(j) # None => at(j) \in Days /\ OnCycle(anchor, cycle, at(j))
      /\ \A e \in Days : OnCycle(anchor, cycle, e) => \E j \in Nat : at(j) = e
      /\ \A i, j \in Nat : i < j /\ at(j) # None => at(i) # None /\ at(i) < at(j)
  BY IdealFacts DEF IdealIs
<1>2. d \in Days /\ Days \subseteq Nat /\ \A e \in Days : e <= LastDay
  BY <1>1, DateTypes
<1>2a. LastDay \in Int
  BY DateTypes
<1>2b. \A e : OnCycle(anchor, cycle, e) => e >= anchor
  BY DEF OnCycle
<1>2c. d \in Nat /\ at(k) # None /\ \A x \in Int : x # None
  BY <1>2, DateTypes
<1> HIDE DEF at
<1>3. ASSUME NEW e \in T PROVE \E j \in 0 .. k - 1 : h[j] = e
  <2>1. e \in Int /\ anchor <= e /\ e < d /\ OnCycle(anchor, cycle, e)
    BY <1>2c
  <2>1a. e \in Days
    BY <1>2, <1>2a, <2>1 DEF Days
  <2>2. PICK j \in Nat : at(j) = e
    BY <1>1, <2>1, <2>1a
  <2>3. k < j => d < e
    BY <1>1, <1>2c, <2>1, <2>2
  <2>4. ~(k < j) /\ j # k
    BY <1>2c, <2>1, <2>2, <2>3
  <2>5. j \in 0 .. k - 1
    BY <2>4
  <2>6. QED
    BY <2>2, <2>5
<1>4. ASSUME NEW j \in 0 .. k - 1 PROVE h[j] \in T
  <2>1. j \in Nat /\ j < k /\ h[j] = at(j)
    OBVIOUS
  <2>2. at(j) # None /\ at(j) < d
    BY <1>1, <1>2c, <2>1
  <2>3. at(j) \in Days /\ OnCycle(anchor, cycle, at(j))
    BY <1>1, <2>1, <2>2
  <2>4. at(j) \in Nat /\ anchor \in Nat /\ at(j) >= anchor
    BY <1>2, <1>2b, <2>3
  <2>5. at(j) \in anchor .. d - 1
    BY <1>2c, <2>2, <2>4
  <2>6. QED
    BY <2>1, <2>3, <2>5
<1>5. ASSUME NEW i \in 0 .. k - 1, NEW j \in 0 .. k - 1, h[i] = h[j] PROVE i = j
  <2>1. i \in Nat /\ j \in Nat /\ i < k /\ j < k /\ at(i) = at(j)
    BY <1>5
  <2>2. at(i) # None /\ at(j) # None
    BY <1>1, <1>2c, <2>1
  <2>3. at(i) \in Nat /\ at(j) \in Nat
    BY <1>1, <1>2, <2>1, <2>2
  <2>4. ~(i < j) /\ ~(j < i)
    BY <1>1, <2>1, <2>2, <2>3
  <2>5. QED
    BY <2>1, <2>4
<1> HIDE DEF h, T, d
<1>6. h \in [0 .. k - 1 -> T]
  BY <1>4 DEF h
<1>7. h \in Surjection(0 .. k - 1, T)
  BY <1>3, <1>6 DEF Surjection
<1>8. h \in Injection(0 .. k - 1, T)
  BY <1>5, <1>6 DEF Injection, IsInjective
<1>9. IsFiniteSet(0 .. k - 1) /\ Cardinality(0 .. k - 1) = k
  <2>1. \A a, b \in Int : IsFiniteSet(a .. b) /\ Cardinality(a .. b) = IF a > b THEN 0 ELSE b - a + 1
    BY FS_Interval
  <2>2. k - 1 \in Int /\ 0 \in Int
    OBVIOUS
  <2>3. IsFiniteSet(0 .. k - 1) /\ Cardinality(0 .. k - 1) = IF 0 > k - 1 THEN 0 ELSE (k - 1) - 0 + 1
    BY <2>1, <2>2
  <2>4. QED
    BY <2>3
<1>10. Cardinality(T) = k
  BY <1>7, <1>8, <1>9, FS_Surjection
<1>11. QED
  BY <1>10 DEF Rank, T, d, at

\* The occurrences that the search tries.
LEMMA Tried ==
  ASSUME NEW cycle, ACycle(cycle), NEW anchor \in Days
  PROVE  LET o == Occurrences(anchor, cycle)
             tries == 0 .. MaxSteps - 1
         IN /\ DOMAIN o = tries
            /\ \A k \in tries : o[k] # None => o[k] \in Days /\ OnCycle(anchor, cycle, o[k]) /\ Reachable(anchor, cycle, o[k])
            /\ \A j, k \in tries : j < k /\ o[k] # None => o[j] # None /\ o[j] < o[k]
            /\ \A d \in Days : OnCycle(anchor, cycle, d) /\ Reachable(anchor, cycle, d) => \E k \in tries : o[k] = d
            /\ \A k \in tries : \A d \in Days :
                 o[k] # None /\ OnCycle(anchor, cycle, d) /\ d < o[k] => \E j \in tries : j < k /\ o[j] = d
<1> DEFINE o == Occurrences(anchor, cycle)
           tries == 0 .. MaxSteps - 1
           at(j) == Ideal(anchor, cycle, j)
           fits(j) == Fits(cycle, j)
<1>1. /\ \A j \in Nat : at(j) # None => at(j) \in Days /\ OnCycle(anchor, cycle, at(j))
      /\ \A e \in Days : OnCycle(anchor, cycle, e) => \E j \in Nat : at(j) = e
      /\ \A i, j \in Nat : i < j /\ at(j) # None => at(i) # None /\ at(i) < at(j)
  BY IdealFacts DEF IdealIs
<1>2. MaxSteps \in Nat /\ MaxU32 \in Nat
  BY ScheduleAssumption DEF ScheduleAssumption
<1>3. \A k \in Nat : Occurrence(anchor, cycle, k) = IF fits(k) THEN at(k) ELSE None
  BY OccurrenceIs
<1>4. DOMAIN o = tries /\ \A k \in tries : o[k] = Occurrence(anchor, cycle, k)
  BY DEF Occurrences
<1>5. \A k \in tries : k \in Nat
  BY <1>2
<1>6. \A k \in tries : o[k] = IF fits(k) THEN at(k) ELSE None
  BY <1>3, <1>4, <1>5
<1>7. ASSUME NEW j \in Nat, NEW k \in Nat, j < k, fits(k) PROVE fits(j)
  <2> DEFINE f == IF cycle.unit = "year" THEN 12 ELSE 1
             a == cycle.interval
  <2>1. a \in Nat \ {0} /\ a * j + a <= a * k /\ a * j \in Nat /\ a * k \in Nat /\ f \in {1, 12}
    BY <1>7, Multiples DEF ACycle
  <2>2. a * k * f <= MaxU32
    BY <1>7 DEF Fits
  <2> DEFINE x == a * j
             y == a * k
  <2>3. x \in Nat /\ y \in Nat /\ x <= y
    BY <2>1
  <2> HIDE DEF x, y, f
  <2>4. x * f <= y * f /\ x * f \in Nat /\ y * f \in Nat
    BY <2>1, <2>3
  <2>5. x * f <= MaxU32
    BY <1>2, <2>2, <2>4 DEF x, y
  <2>6. QED
    BY <2>5 DEF x, f, Fits
<1>8. ASSUME NEW k \in Nat, at(k) # None
      PROVE  Reachable(anchor, cycle, at(k)) <=> k < MaxSteps /\ fits(k)
  BY <1>8, RankIs DEF Reachable, Fits
<1> HIDE DEF at, fits, o
<1>9. ASSUME NEW k \in tries, o[k] # None
      PROVE  o[k] \in Days /\ OnCycle(anchor, cycle, o[k]) /\ Reachable(anchor, cycle, o[k])
  <2>1. k \in Nat /\ k < MaxSteps /\ fits(k) /\ o[k] = at(k)
    BY <1>2, <1>6, <1>9
  <2>2. QED
    BY <1>1, <1>8, <1>9, <2>1
<1>10. ASSUME NEW j \in tries, NEW k \in tries, j < k, o[k] # None PROVE o[j] # None /\ o[j] < o[k]
  <2>1. j \in Nat /\ k \in Nat /\ fits(k) /\ o[k] = at(k)
    BY <1>2, <1>6, <1>10
  <2>2. o[j] = at(j)
    BY <1>6, <1>7, <1>10, <2>1
  <2>3. QED
    BY <1>1, <1>10, <2>1, <2>2
<1>11. ASSUME NEW d \in Days, OnCycle(anchor, cycle, d), Reachable(anchor, cycle, d) PROVE \E k \in tries : o[k] = d
  <2>1. PICK k \in Nat : at(k) = d
    BY <1>1, <1>11
  <2>2. d # None
    BY DateTypes
  <2>3. k < MaxSteps /\ fits(k)
    BY <1>8, <1>11, <2>1, <2>2
  <2>4. k \in tries
    BY <1>2, <2>3
  <2>5. QED
    BY <1>6, <2>1, <2>3, <2>4
<1>12. ASSUME NEW k \in tries, NEW d \in Days, o[k] # None, OnCycle(anchor, cycle, d), d < o[k]
       PROVE  \E j \in tries : j < k /\ o[j] = d
  <2>1. k \in Nat /\ k < MaxSteps /\ fits(k) /\ o[k] = at(k)
    BY <1>2, <1>6, <1>12
  <2>2. PICK j \in Nat : at(j) = d
    BY <1>1, <1>12
  <2>3. d \in Nat /\ at(k) \in Nat /\ at(k) # None
    BY <1>1, <1>12, <2>1, DateTypes
  <2>4. ~(k < j) /\ j # k
    BY <1>1, <1>12, <2>1, <2>2, <2>3, DateTypes
  <2>5. j < k /\ j \in tries /\ fits(j)
    BY <1>2, <1>7, <2>1, <2>4
  <2>6. QED
    BY <1>6, <2>2, <2>5
<1>13. QED
  BY <1>4, <1>9, <1>10, <1>11, <1>12 DEF o

-----------------------------------------------------------------------------
(* The next due date. *)

\* The search finds the first date of the cycle after the reference, unless no
\* date after it is within its reach.
LEMMA NextDueFirst ==
  ASSUME NEW cycle, ACycle(cycle), NEW anchor \in Days, NEW after \in Int
  PROVE  LET next == NextDue(anchor, cycle, after)
             Later(d) == d \in Days /\ d > after /\ OnCycle(anchor, cycle, d)
         IN /\ next # None => /\ Later(next) /\ Reachable(anchor, cycle, next)
                              /\ \A d : Later(d) => next <= d
            /\ next = None => \A d : Later(d) => ~Reachable(anchor, cycle, d)
<1> DEFINE o == Occurrences(anchor, cycle)
           tries == 0 .. MaxSteps - 1
           stops == {k \in DOMAIN o : o[k] = None \/ o[k] > after}
           next == NextDue(anchor, cycle, after)
           Later(d) == d \in Days /\ d > after /\ OnCycle(anchor, cycle, d)
<1>1. /\ DOMAIN o = tries
      /\ \A k \in tries : o[k] # None => o[k] \in Days /\ OnCycle(anchor, cycle, o[k]) /\ Reachable(anchor, cycle, o[k])
      /\ \A j, k \in tries : j < k /\ o[k] # None => o[j] # None /\ o[j] < o[k]
      /\ \A d \in Days : OnCycle(anchor, cycle, d) /\ Reachable(anchor, cycle, d) => \E k \in tries : o[k] = d
      /\ \A k \in tries : \A d \in Days :
           o[k] # None /\ OnCycle(anchor, cycle, d) /\ d < o[k] => \E j \in tries : j < k /\ o[j] = d
  BY Tried
<1>2. next = IF stops = {} THEN None ELSE o[Min(stops)]
  BY DEF NextDue
<1>3. Days \subseteq Nat /\ None \notin Int /\ MaxSteps \in Nat
  BY DateTypes, ScheduleAssumption DEF ScheduleAssumption
<1> HIDE DEF o, next
<1>4. stops \in SUBSET Nat
  BY <1>1, <1>3
<1>5. ASSUME NEW k \in tries, k \notin stops PROVE o[k] # None /\ ~(o[k] > after)
  BY <1>1, <1>5
<1>6. ASSUME next # None
      PROVE  Later(next) /\ Reachable(anchor, cycle, next) /\ \A d : Later(d) => next <= d
  <2> DEFINE m == Min(stops)
  <2>1. stops # {} /\ next = o[m]
    BY <1>2, <1>6
  <2>2. m \in stops /\ \A x \in stops : m <= x
    BY <1>4, <2>1, MinIs
  <2> HIDE DEF m
  <2>3. m \in tries /\ o[m] # None /\ o[m] > after
    BY <1>1, <1>6, <2>1, <2>2
  <2>4. Later(next) /\ Reachable(anchor, cycle, next)
    BY <1>1, <2>1, <2>3
  <2>5. ASSUME NEW d \in Days, d > after, OnCycle(anchor, cycle, d) PROVE next <= d
    <3>1. SUFFICES ASSUME d < next PROVE FALSE
      BY <1>3, <2>4
    <3>2. PICK j \in tries : j < m /\ o[j] = d
      BY <1>1, <2>1, <2>3, <2>5, <3>1
    <3>3. j \in stops
      BY <1>1, <2>5, <3>2
    <3>4. QED
      BY <2>2, <2>3, <3>2, <3>3
  <2>6. QED
    BY <2>4, <2>5
<1>7. ASSUME next = None, NEW d, Later(d), Reachable(anchor, cycle, d) PROVE FALSE
  <2>1. d \in Days /\ d > after /\ OnCycle(anchor, cycle, d) /\ Reachable(anchor, cycle, d)
    BY <1>7
  <2>2. PICK k \in tries : o[k] = d
    BY <1>1, <2>1
  <2>3. d # None /\ d \in Nat
    BY <1>3, <2>1
  <2>4. k \in stops
    BY <1>1, <2>1, <2>2
  <2> DEFINE m == Min(stops)
  <2>5. m \in stops /\ (\A x \in stops : m <= x) /\ o[m] = None
    BY <1>2, <1>4, <1>7, <2>4, MinIs
  <2> HIDE DEF m
  <2>6. m \in tries /\ m <= k /\ m # k
    BY <1>1, <2>2, <2>3, <2>4, <2>5
  <2>7. m < k
    BY <1>3, <2>6
  <2>8. QED
    BY <1>1, <2>2, <2>3, <2>5, <2>6, <2>7
<1>8. QED
  BY <1>6, <1>7 DEF next

\* The dates of a window are those of the cycle within reach, between its bounds.
LEMMA RangeIs ==
  ASSUME NEW cycle, ACycle(cycle), NEW anchor \in Days, NEW from, NEW to, NEW end, NEW trial,
         Lower(from, trial) \in Int, Upper(to, end) \in Int, NEW d
  PROVE  d \in OccurrencesInRange(anchor, cycle, from, to, end, trial) <=>
           /\ d \in Days /\ OnCycle(anchor, cycle, d) /\ Reachable(anchor, cycle, d)
           /\ Lower(from, trial) <= d /\ d <= Upper(to, end)
<1> DEFINE o == Occurrences(anchor, cycle)
           tries == 0 .. MaxSteps - 1
           low == Lower(from, trial)
           high == Upper(to, end)
           stops == {k \in DOMAIN o : o[k] = None \/ o[k] > high}
           last == IF stops = {} THEN MaxSteps ELSE Min(stops)
           range == OccurrencesInRange(anchor, cycle, from, to, end, trial)
<1>1. /\ DOMAIN o = tries
      /\ \A k \in tries : o[k] # None => o[k] \in Days /\ OnCycle(anchor, cycle, o[k]) /\ Reachable(anchor, cycle, o[k])
      /\ \A j, k \in tries : j < k /\ o[k] # None => o[j] # None /\ o[j] < o[k]
      /\ \A e \in Days : OnCycle(anchor, cycle, e) /\ Reachable(anchor, cycle, e) => \E k \in tries : o[k] = e
  BY Tried
<1>2. range = {e \in {o[k] : k \in 0 .. last - 1} : e >= low}
  BY DEF OccurrencesInRange
<1>3. Days \subseteq Nat /\ None \notin Int /\ MaxSteps \in Nat /\ low \in Int /\ high \in Int
  BY DateTypes, ScheduleAssumption DEF ScheduleAssumption
<1> HIDE DEF o, range, low, high
<1>4. stops \in SUBSET Nat
  BY <1>1, <1>3
<1>5. last \in 0 .. MaxSteps /\ \A k \in tries : k < last <=> \A j \in 0 .. k : j \notin stops
  <2>1. CASE stops = {}
    BY <2>1, <1>3
  <2>2. CASE stops # {}
    <3> DEFINE m == Min(stops)
    <3>1. m \in stops /\ \A x \in stops : m <= x
      BY <1>4, <2>2, MinIs
    <3>2. last = m
      BY <2>2
    <3> HIDE DEF m, last
    <3>3. m \in tries
      BY <1>1, <3>1
    <3> HIDE DEF stops
    <3>4. QED
      BY <1>3, <3>1, <3>2, <3>3
  <2>3. QED
    BY <2>1, <2>2
<1> HIDE DEF last
<1>6. ASSUME d \in range
      PROVE  d \in Days /\ OnCycle(anchor, cycle, d) /\ Reachable(anchor, cycle, d) /\ low <= d /\ d <= high
  <2>1. PICK k \in 0 .. last - 1 : d = o[k]
    BY <1>2, <1>6
  <2>2. k \in tries /\ k < last /\ k \in 0 .. k
    BY <1>3, <1>5, <2>1
  <2>3. o[k] # None /\ ~(o[k] > high)
    BY <1>1, <1>5, <2>2
  <2>4. d \in Days /\ d \in Nat /\ d >= low
    BY <1>1, <1>2, <1>3, <1>6, <2>1, <2>2, <2>3
  <2>5. QED
    BY <1>1, <1>3, <2>1, <2>2, <2>3, <2>4
<1>7. ASSUME d \in Days, OnCycle(anchor, cycle, d), Reachable(anchor, cycle, d), low <= d, d <= high
      PROVE  d \in range
  <2>1. PICK k \in tries : o[k] = d
    BY <1>1, <1>7
  <2>2. d # None /\ d \in Nat
    BY <1>3, <1>7
  <2>3. ASSUME NEW j \in 0 .. k PROVE j \notin stops
    <3>1. j \in tries /\ (j = k \/ j < k)
      BY <1>3
    <3>2. o[j] # None /\ (j = k \/ o[j] < d)
      BY <1>1, <2>1, <2>2, <3>1
    <3>3. o[j] \in Nat
      BY <1>1, <1>3, <3>1, <3>2
    <3>4. ~(o[j] > high)
      BY <1>3, <1>7, <2>1, <2>2, <3>2, <3>3
    <3>5. QED
      BY <3>2, <3>4
  <2>4. k < last
    BY <1>5, <2>3
  <2>5. k \in 0 .. last - 1
    BY <1>3, <1>5, <2>4
  <2>6. d >= low
    BY <1>3, <1>7, <2>2
  <2>7. QED
    BY <1>2, <2>1, <2>5, <2>6
<1>8. QED
  BY <1>6, <1>7 DEF range, low, high

\* What is known of a date.
LEMMA DateIs == ASSUME NEW d \in Days PROVE d \in Nat /\ d # None /\ d <= LastDay /\ d # Unprocessable
  BY DateTypes, ScheduleAssumption DEF ScheduleAssumption

\* The cycle of a row that is read is one.
LEMMA CyclesAre ==
  ASSUME NEW r, r.interval \in Nat, IsCycle(r.unit, r.interval)
  PROVE  ACycle(Cycle(r))
  BY DEF IsCycle, Cycle, ACycle

\* The dates of a row in a window, as the reference counts them.
LEMMA DatesAre ==
  ASSUME NEW r, NEW from \in Nat, NEW to \in Int, NEW d
  PROVE  d \in Dates(r, from, to) <=> d \in Days /\ OnCycle(r.first, Cycle(r), d) /\ from <= d /\ d <= to
  BY DateTypes DEF Dates, Days

\* What an answer on the next due date must be.
FirstOrRefused(q, body) ==
  LET legal == q.first # None /\ q.after # None /\ IsCycle(q.unit, q.interval)
  IN IF ~legal THEN body = Unprocessable
     ELSE LET later == Dates(q, q.after + 1, LastDay) IN
          IF body # Unprocessable THEN later # {} /\ body = Min(later)
          ELSE later = {} \/ ~Reachable(q.first, Cycle(q), Min(later))

\* The answer to a question about the next due date is the first one, or a
\* refusal.
LEMMA NextDueAnswered ==
  ASSUME NEW q \in NextDueQueries, NEW next, next = NextDue(q.first, Cycle(q), q.after), NEW body,
         body = IF q.first = None \/ q.after = None \/ ~IsCycle(q.unit, q.interval) THEN Unprocessable
                ELSE IF next = None THEN Unprocessable ELSE next
  PROVE  FirstOrRefused(q, body)
<1>1. q.first \in Days \cup {None} /\ q.after \in Days \cup {None} /\ q.interval \in Nat /\ Unprocessable \notin Int
  BY ScheduleAssumption DEF ScheduleAssumption
<1>2. CASE q.first = None \/ q.after = None \/ ~IsCycle(q.unit, q.interval)
  BY <1>2, Zenon DEF FirstOrRefused
<1>3. CASE ~(q.first = None \/ q.after = None \/ ~IsCycle(q.unit, q.interval))
  <2> DEFINE c == Cycle(q)
             later == Dates(q, q.after + 1, LastDay)
  <2>0. ACycle(c)
    BY <1>1, <1>3, CyclesAre
  <2>1. ACycle(c) /\ q.first \in Days /\ q.after \in Days /\ q.after \in Nat /\ q.after + 1 \in Nat
    BY <1>1, <1>3, <2>0, DateIs
  <2>2. /\ next # None => /\ next \in Days /\ next > q.after /\ OnCycle(q.first, c, next) /\ Reachable(q.first, c, next)
                          /\ \A d : d \in Days /\ d > q.after /\ OnCycle(q.first, c, d) => next <= d
        /\ next = None => \A d : d \in Days /\ d > q.after /\ OnCycle(q.first, c, d) => ~Reachable(q.first, c, d)
    BY <2>1, NextDueFirst
  <2>3. \A d : d \in later <=> d \in Days /\ d > q.after /\ OnCycle(q.first, c, d)
    <3>1. \A d : d \in later <=> d \in Days /\ OnCycle(q.first, c, d) /\ q.after + 1 <= d /\ d <= LastDay
      BY <2>1, DateTypes, DatesAre
    <3> HIDE DEF later
    <3>2. \A d \in Days : d \in Nat /\ d <= LastDay
      BY DateIs
    <3>3. QED
      BY <2>1, <3>1, <3>2
  <2>4. later \in SUBSET Nat
    BY <2>3, DateTypes
  <2> HIDE DEF c, later
  <2>5. CASE next = None
    <3>1. body = Unprocessable
      BY <1>3, <2>5
    <3>2. later = {} \/ ~Reachable(q.first, c, Min(later))
      BY <2>2, <2>3, <2>4, <2>5, MinIs
    <3>3. QED
      BY <1>3, <3>1, <3>2 DEF FirstOrRefused, c, later
  <2>6. CASE next # None
    <3>1. body = next /\ next \in Nat /\ next # Unprocessable
      BY <1>3, <2>2, <2>6, DateIs
    <3>2. next \in later /\ \A d \in later : next <= d
      BY <2>2, <2>3, <2>6
    <3>3. Min(later) \in later /\ Min(later) <= next
      BY <2>4, <3>2, MinIs
    <3>4. next = Min(later)
      <4>1. Min(later) \in Nat /\ next <= Min(later) /\ Min(later) <= next
        BY <2>4, <3>2, <3>3
      <4>2. QED
        BY <3>1, <4>1
    <3>5. QED
      BY <1>3, <3>1, <3>2, <3>4 DEF FirstOrRefused, c, later
  <2>7. QED
    BY <2>5, <2>6
<1>4. QED
  BY <1>2, <1>3

\* A step that answers something else, or nothing.
LEMMA NextDueStep == ScheduleNext => NextDueIsFirst'
<1>1. ASSUME ComputeNextDue PROVE NextDueIsFirst'
  <2>1. PICK q \in NextDueQueries :
          reply' = Answer("next", q,
            LET next == NextDue(q.first, Cycle(q), q.after)
            IN IF q.first = None \/ q.after = None \/ ~IsCycle(q.unit, q.interval) THEN Unprocessable
               ELSE IF next = None THEN Unprocessable ELSE next)
    BY <1>1 DEF ComputeNextDue
  <2>2. reply'.q = q /\ FirstOrRefused(q, reply'.body)
    BY <2>1, NextDueAnswered DEF Answer
  <2>3. QED
    BY <2>2, Zenon DEF NextDueIsFirst, FirstOrRefused
<1>2. ASSUME GetUpcomingPayments \/ GetReminders PROVE reply'.op \in {"upcoming", "reminders"}
  BY <1>2 DEF GetUpcomingPayments, GetReminders, Answer
<1>3. QED
  BY <1>1, <1>2 DEF ScheduleNext, NextDueIsFirst

-----------------------------------------------------------------------------
(* The payments of a window. *)

\* The values of a function on a finite set are finitely many.
LEMMA FiniteImage ==
  ASSUME NEW S, IsFiniteSet(S), NEW h, h = [x \in S |-> h[x]], NEW T, \A y \in T : \E x \in S : y = h[x]
  PROVE  IsFiniteSet(T)
<1> DEFINE all == {h[x] : x \in S}
<1>1. h \in Surjection(S, all)
  <2>1. h \in [S -> all]
    <3> DEFINE g == [x \in S |-> h[x]]
    <3>1. g \in [S -> all]
      OBVIOUS
    <3>2. QED
      BY <3>1
  <2>2. QED
    BY <2>1 DEF Surjection
<1>2. IsFiniteSet(all)
  BY <1>1, FS_Surjection
<1>3. T \in SUBSET all
  OBVIOUS
<1>4. QED
  BY <1>2, <1>3, FS_Subset

\* What a row owes in a window.
Owed(r, from, to) ==
  {d \in Dates(r, from, to) : ~HasEnded(r, d) /\ ~IsInTrial(r, d) /\ Reachable(r.first, Cycle(r), d)}

\* The occurrences that the program enumerates are those that the row owes.
LEMMA OwedIs ==
  ASSUME NEW r, IsRow(r), IsCycle(r.unit, r.interval), NEW from \in Nat, NEW to \in Nat
  PROVE  OccurrencesInRange(r.first, Cycle(r), from, to, r.end, r.trial) = Owed(r, from, to)
<1> DEFINE c == Cycle(r)
           range == OccurrencesInRange(r.first, c, from, to, r.end, r.trial)
<1>1. r.first \in Days /\ r.end \in Days \cup {None} /\ r.trial \in Days \cup {None} /\ r.interval \in Nat
  BY DEF IsRow
<1>2. ACycle(c)
  BY <1>1, CyclesAre
<1>3. Lower(from, r.trial) \in Int /\ Upper(to, r.end) \in Int
  BY <1>1, DateIs DEF Lower, Upper
<1>4. \A d : d \in range <=> /\ d \in Days /\ OnCycle(r.first, c, d) /\ Reachable(r.first, c, d)
                             /\ Lower(from, r.trial) <= d /\ d <= Upper(to, r.end)
  BY <1>1, <1>2, <1>3, RangeIs
<1>5. ASSUME NEW d \in Days
      PROVE  /\ Lower(from, r.trial) <= d <=> from <= d /\ ~IsInTrial(r, d)
             /\ d <= Upper(to, r.end) <=> d <= to /\ ~HasEnded(r, d)
  <2>1. d \in Nat
    BY DateIs
  <2>2. (r.trial = None \/ r.trial \in Nat) /\ (r.end = None \/ r.end \in Nat)
    BY <1>1, DateIs
  <2>3. QED
    BY <2>1, <2>2 DEF Lower, Upper, IsInTrial, HasEnded
<1>6. \A d : d \in Dates(r, from, to) <=> d \in Days /\ OnCycle(r.first, c, d) /\ from <= d /\ d <= to
  BY DatesAre
<1> HIDE DEF range, c
<1>7. \A d : d \in range <=> d \in Dates(r, from, to) /\ ~HasEnded(r, d) /\ ~IsInTrial(r, d) /\ Reachable(r.first, c, d)
  BY <1>4, <1>5, <1>6
<1>8. QED
  BY <1>7 DEF Owed, range, c

\* The payments of a window, and their order.
PaymentsOf(rows, from, to) ==
  UNION {{[date |-> d, id |-> r.id] : d \in Owed(r, from, to)} : r \in {x \in rows : x.active /\ IsCycle(x.unit, x.interval)}}

\* The payments of a window are those owed, finitely many, in a strict order.
LEMMA PaymentsAre ==
  ASSUME NEW rows, IsHouse(rows), NEW from \in Nat, NEW to \in Nat
  PROVE  LET due == Payments(rows, from, to) IN
         /\ due = PaymentsOf(rows, from, to)
         /\ IsFiniteSet(due) /\ due \subseteq [date : Days, id : Nat]
         /\ StrictOrder(ByDate(due), due)
<1> DEFINE due == Payments(rows, from, to)
           paying == {x \in rows : x.active /\ IsCycle(x.unit, x.interval)}
<1>1. IsFiniteSet(rows) /\ \A r \in rows : IsRow(r)
  BY DEF IsHouse
<1>2. \A r \in paying : OccurrencesInRange(r.first, Cycle(r), from, to, r.end, r.trial) = Owed(r, from, to)
  BY <1>1, OwedIs
<1>3. due = PaymentsOf(rows, from, to)
  BY <1>2 DEF Payments, PaymentsOf
<1>4. \A p \in due : \E r \in rows : \E d \in Owed(r, from, to) : p = [date |-> d, id |-> r.id]
  BY <1>3 DEF PaymentsOf
<1>5. \A r : Owed(r, from, to) \subseteq Days
  BY DatesAre DEF Owed
<1>6. due \subseteq [date : Days, id : Nat]
  BY <1>1, <1>4, <1>5 DEF IsRow
<1> HIDE DEF due
<1>7. IsFiniteSet(due)
  <2> DEFINE h == [x \in Days \X rows |-> [date |-> x[1], id |-> x[2].id]]
  <2>1. \A a, b \in Int : IsFiniteSet(a .. b)
    BY FS_Interval
  <2>2. IsFiniteSet(Days)
    BY <2>1, DateTypes DEF Days
  <2>3. IsFiniteSet(Days \X rows)
    BY <1>1, <2>2, FS_Product
  <2>4. \A p \in due : \E x \in Days \X rows : p = h[x]
    <3>1. SUFFICES ASSUME NEW p \in due PROVE \E x \in Days \X rows : p = h[x]
      OBVIOUS
    <3>2. PICK r \in rows : \E d \in Owed(r, from, to) : p = [date |-> d, id |-> r.id]
      BY <1>4
    <3>3. PICK d \in Owed(r, from, to) : p = [date |-> d, id |-> r.id]
      BY <3>2
    <3>4. <<d, r>> \in Days \X rows
      BY <1>5
    <3>5. QED
      BY <3>3, <3>4
  <2>5. h = [x \in Days \X rows |-> h[x]]
    OBVIOUS
  <2> HIDE DEF h
  <2>6. QED
    BY <2>3, <2>4, <2>5, FiniteImage
<1>8. StrictOrder(ByDate(due), due)
  <2>1. ASSUME NEW p \in due PROVE p.date \in Nat /\ p.id \in Nat /\ p = [date |-> p.date, id |-> p.id]
    <3>1. p \in [date : Days, id : Nat]
      BY <1>6
    <3>2. p.date \in Days /\ p.id \in Nat /\ p = [date |-> p.date, id |-> p.id]
      BY <3>1
    <3>3. QED
      BY <3>2, DateIs
  <2>2. \A p, r \in due : <<p, r>> \in ByDate(due) <=> p.date < r.date \/ (p.date = r.date /\ p.id < r.id)
    BY DEF ByDate, Earlier
  <2>3. \A p \in due : <<p, p>> \notin ByDate(due)
    BY <2>1, <2>2
  <2>4. \A p, r \in due : p # r => <<p, r>> \in ByDate(due) \/ <<r, p>> \in ByDate(due)
    BY <2>1, <2>2
  <2>5. \A p, r, s \in due : <<p, r>> \in ByDate(due) /\ <<r, s>> \in ByDate(due) => <<p, s>> \in ByDate(due)
    BY <2>1, <2>2
  <2>6. QED
    BY <2>3, <2>4, <2>5 DEF StrictOrder
<1>9. QED
  BY <1>3, <1>6, <1>7, <1>8 DEF due

\* A sequence in the order of a set holds its elements, each once.
LEMMA SortedIs ==
  ASSUME NEW S, IsFiniteSet(S), NEW R, StrictOrder(R, S)
  PROVE  /\ Cardinality(S) \in Nat /\ Sorted(S, R) \in Seq(S)
         /\ Len(Sorted(S, R)) = Cardinality(S) /\ DOMAIN Sorted(S, R) = 1 .. Cardinality(S)
         /\ ToSet(Sorted(S, R)) = S
         /\ \A i, j \in DOMAIN Sorted(S, R) : i < j => <<Sorted(S, R)[i], Sorted(S, R)[j]>> \in R
<1> DEFINE n == Cardinality(S)
           s == Sorted(S, R)
<1>1. /\ n \in Nat /\ s \in [1 .. n -> S]
      /\ \A i, j \in 1 .. n : i < j => <<s[i], s[j]>> \in R
      /\ \A x \in S : \E k \in 1 .. n : s[k] = x
  BY SortedInOrder
<1> HIDE DEF n, s
<1>2. DOMAIN s = 1 .. n /\ s \in Seq(S) /\ Len(s) = n
  BY <1>1
<1>3. ToSet(s) = S
  BY <1>1, <1>2 DEF ToSet
<1>4. QED
  BY <1>1, <1>2, <1>3 DEF n, s

-----------------------------------------------------------------------------
(* The list, the window and the reminders. *)

\* The next payment of a row is the first date that it owes after the day before,
\* when it is on the cycle and within reach.
LEMMA NextPaymentIs ==
  ASSUME NEW r, IsRow(r), NEW day \in Days
  PROVE  LET shown == NextPayment(r, day)
             Owes(d) == /\ IsCycle(r.unit, r.interval) /\ d \in Days /\ d > Preceding(day)
                        /\ OnCycle(r.first, Cycle(r), d) /\ Reachable(r.first, Cycle(r), d) /\ ~HasEnded(r, d)
         IN /\ shown # None => Owes(shown) /\ \A d : Owes(d) => shown <= d
            /\ shown = None => \A d : ~Owes(d)
<1> DEFINE c == Cycle(r)
           before == Preceding(day)
           shown == NextPayment(r, day)
           next == NextDue(r.first, c, before)
           Owes(d) == /\ IsCycle(r.unit, r.interval) /\ d \in Days /\ d > Preceding(day)
                      /\ OnCycle(r.first, Cycle(r), d) /\ Reachable(r.first, Cycle(r), d) /\ ~HasEnded(r, d)
<1>1. /\ r.first \in Days /\ r.interval \in Nat /\ (r.end = None \/ r.end \in Nat)
      /\ day \in Nat /\ before \in Nat
  BY DateIs DEF IsRow, Preceding
<1>2. shown = IF ~IsCycle(r.unit, r.interval) \/ next = None \/ HasEnded(r, next) THEN None ELSE next
  BY <1>1 DEF NextPayment, HasEnded
<1>3. CASE ~IsCycle(r.unit, r.interval)
  BY <1>2, <1>3
<1>4. CASE IsCycle(r.unit, r.interval)
  <2>1. /\ next # None => /\ next \in Days /\ next > before /\ OnCycle(r.first, c, next) /\ Reachable(r.first, c, next)
                          /\ \A d : d \in Days /\ d > before /\ OnCycle(r.first, c, d) => next <= d
        /\ next = None => \A d : d \in Days /\ d > before /\ OnCycle(r.first, c, d) => ~Reachable(r.first, c, d)
    <3>1. ACycle(c) /\ before \in Int
      BY <1>1, <1>4, CyclesAre
    <3> HIDE DEF c
    <3>2. QED
      BY <1>1, <3>1, NextDueFirst
  <2>2. \A d \in Days : d \in Nat
    BY DateIs
  <2> HIDE DEF next, shown
  <2>3. CASE next = None
    <3>1. shown = None
      BY <1>2, <2>3
    <3>2. ASSUME NEW d, Owes(d) PROVE FALSE
      BY <2>1, <2>2, <2>3, <3>2
    <3>3. QED
      BY <3>1, <3>2 DEF shown
  <2>4. CASE next # None /\ HasEnded(r, next)
    <3>1. shown = None
      BY <1>2, <2>4
    <3>2. ASSUME NEW d, Owes(d) PROVE FALSE
      <4>1. d \in Days /\ d > before /\ OnCycle(r.first, c, d) /\ ~HasEnded(r, d)
        BY <3>2
      <4>2. next <= d /\ next \in Nat /\ d \in Nat
        BY <2>1, <2>2, <2>4, <4>1
      <4>3. HasEnded(r, d)
        BY <1>1, <2>4, <4>2 DEF HasEnded
      <4>4. QED
        BY <4>1, <4>3
    <3>3. QED
      BY <3>1, <3>2 DEF shown
  <2>5. CASE next # None /\ ~HasEnded(r, next)
    <3>1. shown = next /\ shown # None
      BY <1>2, <1>4, <2>5
    <3>2. Owes(next)
      BY <1>4, <2>1, <2>2, <2>5
    <3>3. \A d : Owes(d) => next <= d
      BY <2>1, <2>2, <2>5
    <3>4. QED
      BY <3>1, <3>2, <3>3 DEF shown
  <2>6. QED
    BY <2>3, <2>4, <2>5
<1>5. QED
  BY <1>3, <1>4

\* What UpcomingIsExact says of an answer.
ExactWindow(q, body) ==
  LET due == UNION {{[date |-> d, id |-> r.id] : d \in {x \in Dates(r, q.from, q.from + q.days) :
                      ~HasEnded(r, x) /\ ~IsInTrial(r, x) /\ Reachable(r.first, Cycle(r), x)}} :
                    r \in {x \in q.rows : x.active /\ IsCycle(x.unit, x.interval)}}
  IN /\ ToSet(body) = due /\ Len(body) = Cardinality(due)
     /\ \A i, j \in DOMAIN body : i < j => body[i].date <= body[j].date

\* Every answer is the exact window, and agrees with the list.
LEMMA UpcomingStep == ScheduleNext => UpcomingIsExact' /\ ListAgreesWithSchedule'
<1>1. ASSUME ComputeNextDue \/ GetReminders PROVE reply'.op \in {"next", "reminders"}
  BY <1>1 DEF ComputeNextDue, GetReminders, Answer
<1>2. ASSUME GetUpcomingPayments PROVE UpcomingIsExact' /\ ListAgreesWithSchedule'
  <2>1. PICK q \in UpcomingQueries : reply' = Answer("upcoming", q,
          IF q.days = 0 \/ q.days > MaxWindow \/ q.from = None THEN Unprocessable
          ELSE IF CheckedAddDays(q.from, q.days) = None THEN Unprocessable
          ELSE LET due == Payments(q.rows, q.from, q.from + q.days) IN Sorted(due, ByDate(due)))
    BY <1>2 DEF GetUpcomingPayments
  <2> DEFINE to == q.from + q.days
             due == Payments(q.rows, q.from, to)
             body == Sorted(due, ByDate(due))
  <2>2. IsHouse(q.rows) /\ q.from \in Days \cup {None} /\ q.days \in Nat
    BY ScheduleAssumption DEF ScheduleAssumption
  <2>3. CASE reply'.body = Unprocessable
    BY <2>3 DEF UpcomingIsExact, ListAgreesWithSchedule
  <2>4. CASE reply'.body # Unprocessable
    <3>1. q.from \in Days /\ q.from \in Nat /\ to \in Nat /\ reply'.q = q /\ reply'.body = body
      BY <2>1, <2>2, <2>4, DateIs DEF Answer
    <3>2. /\ due = PaymentsOf(q.rows, q.from, to)
          /\ IsFiniteSet(due) /\ due \subseteq [date : Days, id : Nat] /\ StrictOrder(ByDate(due), due)
      BY <2>2, <3>1, PaymentsAre
    <3> HIDE DEF due, to
    <3>3. /\ Cardinality(due) \in Nat /\ body \in Seq(due) /\ Len(body) = Cardinality(due)
          /\ DOMAIN body = 1 .. Cardinality(due) /\ ToSet(body) = due
          /\ \A i, j \in DOMAIN body : i < j => <<body[i], body[j]>> \in ByDate(due)
      BY <3>2, SortedIs
    <3> HIDE DEF body
    <3>4. ASSUME NEW i \in DOMAIN body, NEW j \in DOMAIN body, i < j PROVE body[i].date <= body[j].date
      <4>1. body[i] \in due /\ body[j] \in due
        BY <3>3
      <4>2. body[i].date \in Days /\ body[j].date \in Days
        BY <3>2, <4>1
      <4>2a. body[i].date \in Nat /\ body[j].date \in Nat
        BY <4>2, DateIs
      <4>3. <<body[i], body[j]>> \in ByDate(due)
        BY <3>3, <3>4
      <4>4. Earlier(body[i], body[j])
        BY <4>3 DEF ByDate
      <4>5. QED
        BY <4>2a, <4>4 DEF Earlier
    <3>5. UpcomingIsExact'
      <4>1. due = PaymentsOf(q.rows, q.from, q.from + q.days)
        BY <3>2 DEF to
      <4>2. ExactWindow(q, body) <=>
              /\ ToSet(body) = PaymentsOf(q.rows, q.from, q.from + q.days)
              /\ Len(body) = Cardinality(PaymentsOf(q.rows, q.from, q.from + q.days))
              /\ \A i, j \in DOMAIN body : i < j => body[i].date <= body[j].date
        BY Zenon DEF ExactWindow, PaymentsOf, Owed
      <4>3. ExactWindow(q, body)
        BY <3>3, <3>4, <4>1, <4>2
      <4>4. ExactWindow(reply'.q, reply'.body)
        BY <3>1, <4>3
      <4>5. QED
        BY <4>4, Zenon DEF UpcomingIsExact, ExactWindow
    <3>6. ASSUME NEW r \in q.rows, r.active, ~IsInTrial(r, q.from), q.from > 0
          PROVE  LET mine == {p.date : p \in {x \in due : x.id = r.id}}
                     shown == NextPayment(r, q.from)
                 IN IF mine # {} THEN shown = Min(mine) ELSE shown = None \/ shown > to
      <4> DEFINE mine == {p.date : p \in {x \in due : x.id = r.id}}
                 shown == NextPayment(r, q.from)
                 c == Cycle(r)
                 Owes(d) == /\ IsCycle(r.unit, r.interval) /\ d \in Days /\ d >= q.from
                            /\ OnCycle(r.first, Cycle(r), d) /\ Reachable(r.first, Cycle(r), d) /\ ~HasEnded(r, d)
      <4>1. IsRow(r) /\ \A x \in q.rows : x.id = r.id => x = r
        BY <2>2 DEF IsHouse
      <4>1a. Preceding(q.from) = q.from - 1 /\ \A d \in Days : d > q.from - 1 <=> d >= q.from
        BY <3>1, <3>6, DateIs DEF Preceding
      <4>2. /\ shown # None => Owes(shown) /\ \A d : Owes(d) => shown <= d
            /\ shown = None => \A d : ~Owes(d)
        <5> DEFINE Owing(d) == /\ IsCycle(r.unit, r.interval) /\ d \in Days /\ d > Preceding(q.from)
                               /\ OnCycle(r.first, Cycle(r), d) /\ Reachable(r.first, Cycle(r), d) /\ ~HasEnded(r, d)
        <5>1. /\ shown # None => Owing(shown) /\ \A d : Owing(d) => shown <= d
              /\ shown = None => \A d : ~Owing(d)
          <6> HIDE DEF shown
          <6>1. QED
            BY <3>1, <4>1, NextPaymentIs DEF shown
        <5>2. \A d : Owing(d) <=> Owes(d)
          BY <4>1a
        <5> HIDE DEF Owing, Owes, shown
        <5>3. QED
          BY <5>1, <5>2
      <4>3. \A p : p \in due <=> \E x \in q.rows : /\ x.active /\ IsCycle(x.unit, x.interval)
                                                  /\ \E d \in Owed(x, q.from, to) : p = [date |-> d, id |-> x.id]
        BY <3>2 DEF PaymentsOf
      <4>4. \A d : d \in mine <=> IsCycle(r.unit, r.interval) /\ d \in Owed(r, q.from, to)
        <5>1. ASSUME NEW d \in mine PROVE IsCycle(r.unit, r.interval) /\ d \in Owed(r, q.from, to)
          <6>1. PICK p \in due : p.id = r.id /\ p.date = d
            OBVIOUS
          <6>2. PICK x \in q.rows : /\ x.active /\ IsCycle(x.unit, x.interval)
                                    /\ \E e \in Owed(x, q.from, to) : p = [date |-> e, id |-> x.id]
            BY <4>3
          <6>3. x.id = r.id /\ d \in Owed(x, q.from, to)
            BY <6>1, <6>2
          <6>4. x = r
            BY <4>1, <6>3
          <6>5. QED
            BY <6>2, <6>3, <6>4
        <5>2. ASSUME IsCycle(r.unit, r.interval), NEW d \in Owed(r, q.from, to) PROVE d \in mine
          <6> DEFINE p == [date |-> d, id |-> r.id]
          <6>1. p \in due
            BY <3>6, <4>3, <5>2
          <6>2. p.date = d /\ p.id = r.id
            OBVIOUS
          <6> HIDE DEF p
          <6>3. QED
            BY <6>1, <6>2
        <5>3. QED
          BY <5>1, <5>2
      <4>5. \A d : d \in Owed(r, q.from, to) <=>
              /\ d \in Days /\ OnCycle(r.first, c, d) /\ q.from <= d /\ d <= to
              /\ ~HasEnded(r, d) /\ ~IsInTrial(r, d) /\ Reachable(r.first, c, d)
        BY <3>1, DatesAre DEF Owed
      <4>6. \A d \in Days : d \in Nat /\ d # None /\ (d >= q.from <=> q.from <= d) /\ (d >= q.from => ~IsInTrial(r, d))
        <5>1. \A d \in Days : d \in Nat /\ d # None
          BY DateIs
        <5>2. r.trial = None \/ r.trial \in Nat
          BY <4>1, DateIs DEF IsRow
        <5>3. QED
          BY <3>1, <3>6, <5>1, <5>2 DEF IsInTrial
      <4>7. \A d : d \in mine <=> Owes(d) /\ d <= to
        BY <4>4, <4>5, <4>6
      <4>8. mine \in SUBSET Nat
        BY <4>6, <4>7
      <4> HIDE DEF mine, shown
      <4>9. CASE mine # {}
        <5>1. Min(mine) \in mine /\ \A x \in mine : Min(mine) <= x
          BY <4>8, <4>9, MinIs
        <5>2. shown # None /\ shown \in Days /\ shown <= Min(mine) /\ Owes(shown)
          BY <4>2, <4>7, <5>1
        <5>3. Min(mine) \in Nat /\ shown \in Nat /\ Min(mine) <= to
          BY <4>6, <4>7, <4>8, <5>1, <5>2
        <5>4. shown \in mine
          BY <3>1, <4>7, <5>2, <5>3
        <5>5. shown = Min(mine)
          BY <5>1, <5>2, <5>3, <5>4
        <5>6. QED
          BY <4>9, <5>5 DEF mine, shown
      <4>10. CASE mine = {}
        <5>1. shown = None \/ ~(shown <= to)
          BY <4>2, <4>7, <4>10
        <5>2. shown = None \/ shown \in Nat
          BY <4>2, <4>6
        <5>3. shown = None \/ shown > to
          BY <3>1, <5>1, <5>2
        <5>4. QED
          BY <4>10, <5>3 DEF mine, shown
      <4>11. QED
        BY <4>9, <4>10
    <3>7. ListAgreesWithSchedule'
      BY <3>1, <3>3, <3>6, Zenon DEF ListAgreesWithSchedule, to
    <3>8. QED
      BY <3>5, <3>7
  <2>5. QED
    BY <2>3, <2>4
<1>3. QED
  BY <1>1, <1>2 DEF ScheduleNext, UpcomingIsExact, ListAgreesWithSchedule

\* A payment is reminded on the day that is its lead time before it, when it is
\* the next one that day.
LEMMA RemindsIs ==
  ASSUME NEW r, IsRow(r), NEW day \in Days, NEW o \in Days
  PROVE  (\E c \in DueWithKind({r}, day) : c.kind = "payment" /\ c.due = o)
           <=> r.active /\ NextPayment(r, day) = o /\ o >= day /\ o - day = r.lead
<1> DEFINE next == NextPayment(r, day)
           payments == PaymentCandidates({r}, day)
           trials == TrialCandidates({r}, day)
<1>1. o # None
  BY DateIs
<1>2. payments = IF r.active /\ next # None THEN {[id |-> r.id, due |-> next, lead |-> r.lead, kind |-> "payment"]} ELSE {}
  BY DEF PaymentCandidates
<1>3. \A c \in trials : c.kind = "trial_ending"
  BY DEF TrialCandidates
<1>4. DueWithKind({r}, day) = {c \in payments \cup trials : c.due >= day /\ c.due - day = c.lead}
  BY DEF DueWithKind, DueReminders
<1> HIDE DEF next, payments, trials
<1>5. ASSUME NEW c \in DueWithKind({r}, day), c.kind = "payment", c.due = o
      PROVE  r.active /\ next = o /\ o >= day /\ o - day = r.lead
  <2>1. c \in payments /\ o >= day /\ o - day = c.lead
    BY <1>3, <1>4, <1>5
  <2>2. r.active /\ next # None /\ c = [id |-> r.id, due |-> next, lead |-> r.lead, kind |-> "payment"]
    BY <1>2, <2>1
  <2>3. QED
    BY <1>5, <2>1, <2>2
<1>6. ASSUME r.active, next = o, o >= day, o - day = r.lead
      PROVE  \E c \in DueWithKind({r}, day) : c.kind = "payment" /\ c.due = o
  <2> DEFINE c == [id |-> r.id, due |-> next, lead |-> r.lead, kind |-> "payment"]
  <2>1. c \in payments
    BY <1>1, <1>2, <1>6
  <2>2. c.due = o /\ c.lead = r.lead /\ c.kind = "payment"
    BY <1>6
  <2> HIDE DEF c
  <2>3. c \in DueWithKind({r}, day)
    BY <1>4, <1>6, <2>1, <2>2
  <2>4. QED
    BY <2>2, <2>3
<1>7. QED
  BY <1>5, <1>6 DEF next

\* What RemindedOnce says of a household.
OnceEach(q) ==
  LET remind(r, o, day) == \E c \in DueWithKind({r}, day) : c.kind = "payment" /\ c.due = o
  IN \A r \in q.rows : \A o \in Dates(r, q.today, q.today + 40) :
       LET days == {day \in q.today .. o : remind(r, o, day)}
           clear == /\ IsCycle(r.unit, r.interval) /\ o > 0 /\ o >= q.today + r.lead /\ Dates(r, o - r.lead, o - 1) = {}
                    /\ Reachable(r.first, Cycle(r), o)
       IN /\ Cardinality(days) <= 1
          /\ r.active /\ clear /\ ~HasEnded(r, o) => days = {o - r.lead}

\* Each occurrence is reminded on one day at most, and its day is its lead time
\* before it.
LEMMA RemindersOnce ==
  ASSUME NEW q \in ReminderQueries
  PROVE  OnceEach(q)
<1>1. IsHouse(q.rows) /\ q.today \in Days /\ q.today \in Nat
  BY ScheduleAssumption, DateIs DEF ScheduleAssumption
<1> SUFFICES ASSUME NEW r \in q.rows, NEW o \in Dates(r, q.today, q.today + 40)
             PROVE  LET days == {day \in q.today .. o : \E c \in DueWithKind({r}, day) : c.kind = "payment" /\ c.due = o}
                        clear == /\ IsCycle(r.unit, r.interval) /\ o > 0 /\ o >= q.today + r.lead
                                 /\ Dates(r, o - r.lead, o - 1) = {} /\ Reachable(r.first, Cycle(r), o)
                    IN /\ Cardinality(days) <= 1
                       /\ r.active /\ clear /\ ~HasEnded(r, o) => days = {o - r.lead}
  BY Zenon DEF OnceEach
<1> DEFINE days == {day \in q.today .. o : \E c \in DueWithKind({r}, day) : c.kind = "payment" /\ c.due = o}
           only == {day \in q.today .. o : r.active /\ NextPayment(r, day) = o /\ o - day = r.lead}
<1>2. IsRow(r) /\ r.lead \in Nat
  BY <1>1 DEF IsHouse, IsRow
<1>3. o \in Days /\ OnCycle(r.first, Cycle(r), o) /\ q.today <= o /\ o \in Nat
  BY <1>1, DatesAre, DateIs
<1>4. \A day \in q.today .. o : day \in Days /\ day \in Nat /\ o >= day
  BY <1>1, <1>3, DateTypes DEF Days
<1>5. days = only
  BY <1>2, <1>3, <1>4, RemindsIs
<1> HIDE DEF days
<1>6. Cardinality(days) <= 1
  <2>1. days \subseteq {o - r.lead}
    BY <1>1, <1>2, <1>3, <1>5
  <2>2. IsFiniteSet({o - r.lead}) /\ Cardinality({o - r.lead}) = 1
    BY FS_Singleton
  <2>3. QED
    BY <2>1, <2>2, FS_Subset
<1>7. ASSUME r.active, IsCycle(r.unit, r.interval), o > 0, o >= q.today + r.lead,
             Dates(r, o - r.lead, o - 1) = {}, Reachable(r.first, Cycle(r), o), ~HasEnded(r, o)
      PROVE  days = {o - r.lead}
  <2> DEFINE day == o - r.lead
             shown == NextPayment(r, day)
             Owes(d) == /\ IsCycle(r.unit, r.interval) /\ d \in Days /\ d > Preceding(day)
                        /\ OnCycle(r.first, Cycle(r), d) /\ Reachable(r.first, Cycle(r), d) /\ ~HasEnded(r, d)
  <2>1. day \in q.today .. o /\ o - day = r.lead
    BY <1>1, <1>2, <1>3, <1>7
  <2> HIDE DEF day
  <2>2. day \in Days /\ day \in Nat
    BY <1>4, <2>1
  <2>3. /\ shown # None => Owes(shown) /\ \A d : Owes(d) => shown <= d
        /\ shown = None => \A d : ~Owes(d)
    BY <1>2, <2>2, NextPaymentIs
  <2>4. o > Preceding(day) /\ \A d \in Days : d > Preceding(day) => d >= day
    <3>1. \A d \in Days : d \in Nat
      BY DateIs
    <3>2. day <= o
      BY <2>1, <2>2, <1>3
    <3>3. QED
      BY <1>3, <1>7, <2>2, <3>1, <3>2 DEF Preceding
  <2>5. Owes(o)
    BY <1>3, <1>7, <2>4
  <2> HIDE DEF shown
  <2>6. shown # None /\ shown \in Days /\ OnCycle(r.first, Cycle(r), shown) /\ shown >= day /\ shown <= o
    BY <2>3, <2>4, <2>5
  <2>7. shown \in Nat
    BY <2>6, DateIs
  <2>8. ~(shown <= o - 1)
    <3>1. shown \in Dates(r, day, o - 1) <=> shown \in Days /\ OnCycle(r.first, Cycle(r), shown) /\ day <= shown /\ shown <= o - 1
      BY <1>3, <2>2, DatesAre
    <3>2. shown \notin Dates(r, day, o - 1)
      BY <1>7 DEF day
    <3>3. QED
      BY <2>2, <2>6, <2>7, <3>1, <3>2
  <2>9. shown = o
    BY <1>3, <2>6, <2>7, <2>8
  <2>10. day \in only
    BY <1>7, <2>1, <2>9 DEF shown
  <2>11. only \subseteq {day}
    BY <1>1, <1>2, <1>3, <2>1, <2>2
  <2>12. QED
    BY <1>5, <2>10, <2>11 DEF day
<1>8. QED
  BY <1>6, <1>7 DEF days

\* Every answer of the reminders is of such a household.
LEMMA RemindersStep == ScheduleNext => RemindedOnce'
<1>1. ASSUME ComputeNextDue \/ GetUpcomingPayments PROVE reply'.op \in {"next", "upcoming"}
  BY <1>1 DEF ComputeNextDue, GetUpcomingPayments, Answer
<1>2. ASSUME GetReminders PROVE RemindedOnce'
  <2>1. PICK q \in ReminderQueries : reply'.q = q
    BY <1>2 DEF GetReminders, Answer
  <2>2. OnceEach(reply'.q)
    BY <2>1, RemindersOnce
  <2>3. QED
    BY <2>2, Zenon DEF RemindedOnce, OnceEach
<1>3. QED
  BY <1>1, <1>2 DEF ScheduleNext, RemindedOnce

\* The three properties together: one answer is computed, of one of the three kinds.
LEMMA SchedulesExact == ScheduleSpec => [](NextDueIsFirst /\ ScheduleIsExact /\ RemindedOnce)
<1> DEFINE Inv == NextDueIsFirst /\ ScheduleIsExact /\ RemindedOnce
<1>1. ScheduleInit => Inv
  BY DEF ScheduleInit, NextDueIsFirst, ScheduleIsExact, UpcomingIsExact, ListAgreesWithSchedule, RemindedOnce
<1>2. ScheduleNext => Inv'
  BY NextDueStep, UpcomingStep, RemindersStep DEF ScheduleIsExact
<1>3. Inv /\ UNCHANGED reply => Inv'
  <2> SUFFICES ASSUME Inv, reply' = reply PROVE Inv'
    OBVIOUS
  <2>1. NextDueIsFirst'
    BY Zenon DEF NextDueIsFirst
  <2>2. UpcomingIsExact'
    <3>1. UpcomingIsExact <=>
            (reply # None /\ reply.op = "upcoming" /\ reply.body # Unprocessable => ExactWindow(reply.q, reply.body))
      BY Zenon DEF UpcomingIsExact, ExactWindow
    <3>2. UpcomingIsExact' <=>
            (reply' # None /\ reply'.op = "upcoming" /\ reply'.body # Unprocessable => ExactWindow(reply'.q, reply'.body))
      BY Zenon DEF UpcomingIsExact, ExactWindow
    <3>3. QED
      BY <3>1, <3>2 DEF ScheduleIsExact
  <2>3. ListAgreesWithSchedule'
    BY Zenon DEF ScheduleIsExact, ListAgreesWithSchedule
  <2>4. RemindedOnce'
    BY Zenon DEF RemindedOnce
  <2>5. QED
    BY <2>1, <2>2, <2>3, <2>4 DEF ScheduleIsExact
<1>4. Inv /\ [ScheduleNext]_reply => Inv'
  BY <1>2, <1>3
<1>5. QED
  BY <1>1, <1>4, PTL DEF ScheduleSpec

\* [NextDueIsFirst] For any cycle and any reference: the date computed is the first of
\* the cycle that is after the reference, and none only beyond the calendar or the
\* search (core/schedule.rs, next_due).
THEOREM DueDatesExact == ScheduleSpec => []NextDueIsFirst
  BY SchedulesExact, PTL

\* [ScheduleIsExact] For any subscriptions and window: every date of theirs in it is
\* shown, once, in order, and the list agrees on what is due next
\* (server/schedule.rs, get_upcoming_payments).
THEOREM WindowsExact == ScheduleSpec => []ScheduleIsExact
  BY SchedulesExact, PTL

\* [RemindedOnce] For any subscriptions and lead times: an occurrence is reminded on one
\* day at most, and on the day its lead time before it whenever the occurrence before
\* is passed by then (core/reminders.rs, due_reminders).
THEOREM RemindersExact == ScheduleSpec => []RemindedOnce
  BY SchedulesExact, PTL

-----------------------------------------------------------------------------
(* Rounding. *)

\* Half to even: no further than half a step, and in the order of the amounts.
LEMMA Rounding ==
  ASSUME NEW decimals, Grain \div 10 ^ decimals \in Nat \ {0}
  PROVE  LET step == Grain \div 10 ^ decimals IN
         \A a \in Nat : /\ RoundTo(a, decimals) \in Nat
                        /\ 2 * RoundTo(a, decimals) <= 2 * a + step
                        /\ 2 * a <= 2 * RoundTo(a, decimals) + step
<1> DEFINE step == Grain \div 10 ^ decimals
<1> SUFFICES ASSUME NEW a \in Nat
             PROVE  /\ RoundTo(a, decimals) \in Nat
                    /\ 2 * RoundTo(a, decimals) <= 2 * a + step
                    /\ 2 * a <= 2 * RoundTo(a, decimals) + step
  OBVIOUS
<1> DEFINE low == a \div step
           part == a % step
           up == 2 * part > step \/ (2 * part = step /\ low % 2 = 1)
<1>1. step \in Nat \ {0}
  OBVIOUS
<1>2. RoundTo(a, decimals) = step * (low + IF up THEN 1 ELSE 0)
  BY Zenon DEF RoundTo
<1> HIDE DEF step
<1>3. low \in Nat /\ part \in 0 .. step - 1 /\ a = step * low + part
  BY <1>1
<1>4. step * (low + IF up THEN 1 ELSE 0) = step * low + IF up THEN step ELSE 0
  <2>1. step * (low + 1) = step * low + step /\ step * (low + 0) = step * low /\ step * low \in Nat
    BY <1>1, <1>3
  <2>2. CASE up
    <3> HIDE DEF low
    <3>1. QED
      BY <2>1, <2>2
  <2>3. CASE ~up
    <3> HIDE DEF low
    <3>1. QED
      BY <2>1, <2>3
  <2>4. QED
    BY <2>2, <2>3
<1>5. up => 2 * part >= step
  BY <1>1, <1>3
<1>6. ~up => 2 * part <= step
  BY <1>1, <1>3
<1>7. step * low \in Nat
  BY <1>1, <1>3
<1> DEFINE base == step * low
<1> HIDE DEF low, part, up
<1>8. a = base + part /\ RoundTo(a, decimals) = base + (IF up THEN step ELSE 0) /\ base \in Nat
  BY <1>2, <1>3, <1>4, <1>7
<1> HIDE DEF base
<1>9. QED
  BY <1>1, <1>3, <1>5, <1>6, <1>8 DEF step

\* A larger amount is not rounded to less.
LEMMA RoundingRises ==
  ASSUME NEW decimals, Grain \div 10 ^ decimals \in Nat \ {0}, NEW a \in Nat, NEW b \in Nat, a <= b
  PROVE  RoundTo(a, decimals) <= RoundTo(b, decimals)
<1> DEFINE step == Grain \div 10 ^ decimals
           up(x) == 2 * (x % step) > step \/ (2 * (x % step) = step /\ (x \div step) % 2 = 1)
           low(x) == x \div step
<1>1. step \in Nat \ {0}
  OBVIOUS
<1>2. /\ RoundTo(a, decimals) = step * (low(a) + IF up(a) THEN 1 ELSE 0)
      /\ RoundTo(b, decimals) = step * (low(b) + IF up(b) THEN 1 ELSE 0)
  BY Zenon DEF RoundTo
<1> HIDE DEF step
<1>3. /\ low(a) \in Nat /\ a % step \in 0 .. step - 1 /\ a = step * low(a) + (a % step)
      /\ low(b) \in Nat /\ b % step \in 0 .. step - 1 /\ b = step * low(b) + (b % step)
  BY <1>1
<1>4. low(a) <= low(b)
  <2>1. ASSUME low(b) < low(a) PROVE FALSE
    <3>1. step * low(b) + step <= step * low(a) /\ step * low(b) \in Nat /\ step * low(a) \in Nat
      BY <1>1, <1>3, <2>1, Multiples
    <3> HIDE DEF low
    <3>2. QED
      BY <1>1, <1>3, <3>1
  <2>2. QED
    BY <1>3, <2>1
<1>5. CASE low(a) = low(b)
  <2>1. a % step <= b % step
    <3> DEFINE base == step * low(b)
    <3>1. base \in Nat /\ a = base + (a % step) /\ b = base + (b % step)
      BY <1>1, <1>3, <1>5, Multiples
    <3> HIDE DEF base, low
    <3>2. QED
      BY <1>1, <1>3, <3>1
  <2>2. up(a) => up(b)
    BY <1>1, <1>3, <1>5, <2>1
  <2>3. step * (low(a) + 0) = step * low(a) /\ step * (low(a) + 1) = step * low(a) + step /\ step * low(a) \in Nat
    BY <1>1, <1>3
  <2> HIDE DEF low, up
  <2>4. QED
    BY <1>1, <1>2, <1>5, <2>2, <2>3
<1>6. CASE low(a) < low(b)
  <2>1. step * low(a) + step <= step * low(b) /\ step * low(a) \in Nat /\ step * low(b) \in Nat
    BY <1>1, <1>3, <1>6, Multiples
  <2>2. /\ step * (low(a) + 0) = step * low(a) /\ step * (low(a) + 1) = step * low(a) + step
        /\ step * (low(b) + 0) = step * low(b) /\ step * (low(b) + 1) = step * low(b) + step
    BY <1>1, <1>3
  <2> HIDE DEF low, up
  <2>3. QED
    BY <1>1, <1>2, <2>1, <2>2
<1>7. QED
  BY <1>3, <1>4, <1>5, <1>6

-----------------------------------------------------------------------------
(* The repartition. *)

\* The monthly cost of an amount is one.
LEMMA MonthlyCostNat ==
  ASSUME NEW amount \in Nat, NEW unit, NEW interval \in Nat \ {0}
  PROVE  MonthlyCost(amount, unit, interval) \in Nat
<1>1. /\ (amount * 30) \div interval \in Nat /\ amount \div interval \in Nat
      /\ 12 * interval \in Nat \ {0}
  OBVIOUS
<1>2. amount \div (12 * interval) \in Nat
  <2> DEFINE n == 12 * interval
  <2> HIDE DEF n
  <2>1. n \in Nat \ {0} => amount \div n \in Nat
    OBVIOUS
  <2>2. QED
    BY <1>1, <2>1 DEF n
<1>3. ((amount * 435) \div 100) \div interval \in Nat
  <2> DEFINE n == (amount * 435) \div 100
  <2>1. n \in Nat
    OBVIOUS
  <2> HIDE DEF n
  <2>2. n \div interval \in Nat
    BY <2>1
  <2>3. QED
    BY <2>2 DEF n
<1>4. QED
  BY <1>1, <1>2, <1>3, Zenon DEF MonthlyCost

\* A row costs one amount in the target, or none.
LEMMA CostsAre ==
  ASSUME TableInv, NEW r, IsPriced(r), NEW target \in Currencies, MonthlyInTarget(r, target) # {}
  PROVE  CostIn(r, target) \in Nat
<1> DEFINE m == [amount |-> MonthlyCost(r.amount, r.unit, r.interval), currency |-> r.currency]
<1>1. IsMoney(r) /\ r.interval # 0 /\ r.amount \in Int /\ r.interval \in Nat
  BY DEF MonthlyInTarget, IsPriced
<1>2. r.currency \in Currencies /\ MonthlyCost(r.amount, r.unit, r.interval) \in Nat
  BY <1>1, MonthlyCostNat DEF IsMoney
<1>3. m.currency \in Currencies /\ m.amount \in Nat
  BY <1>2
<1>4. MonthlyInTarget(r, target) = {c.amount : c \in ConvertDated(m, target, LoadRateTable)}
  BY Zenon DEF MonthlyInTarget
<1> HIDE DEF m
<1>5. /\ RateOf(m, target).rate \in Nat
      /\ ConvertDated(m, target, LoadRateTable) =
              IF RateOf(m, target).rate > 0
              THEN {[amount |-> m.amount * RateOf(m, target).rate, asOf |-> RateOf(m, target).asOf]} ELSE {}
  BY <1>3, ConvertsAtNewest
<1> DEFINE x == m.amount * RateOf(m, target).rate
<1>6. x \in Nat
  BY <1>3, <1>5
<1>7. ConvertDated(m, target, LoadRateTable) = {}
      \/ ConvertDated(m, target, LoadRateTable) = {[amount |-> x, asOf |-> RateOf(m, target).asOf]}
  BY <1>5
<1> HIDE DEF x
<1>8. MonthlyInTarget(r, target) = {x}
  BY <1>4, <1>7
<1>9. CostIn(r, target) = x
  BY <1>8 DEF CostIn
<1>10. QED
  BY <1>6, <1>9

\* The slices of a repartition: priced, each with its key, as many as the rows.
AreSlices(S) ==
  /\ IsFiniteSet(S)
  /\ \A s \in S : s.monthly \in Nat /\ s.key \in Nat \cup {None}

\* The cost of each slice.
Monthly(S) == [s \in S |-> s.monthly]

\* The share of a key: its slices, counted and totalled.
ShareOf(S, k) ==
  [key |-> k, count |-> Cardinality({s \in S : s.key = k}),
   total |-> SumFunction([s \in {x \in S : x.key = k} |-> s.monthly])]

\* A share counts and totals the slices of its key.
LEMMA SharesAre ==
  ASSUME NEW S, AreSlices(S)
  PROVE  \A k \in KeysOf(S) :
           /\ k \in Nat \cup {None} /\ ShareOf(S, k).key = k
           /\ ShareOf(S, k).count = Cardinality({s \in S : s.key = k}) /\ ShareOf(S, k).count \in Nat
           /\ ShareOf(S, k).total = SumFunctionOnSet(Monthly(S), {s \in S : s.key = k}) /\ ShareOf(S, k).total \in Nat
<1> SUFFICES ASSUME NEW k \in KeysOf(S)
             PROVE  /\ k \in Nat \cup {None} /\ ShareOf(S, k).key = k
                    /\ ShareOf(S, k).count = Cardinality({s \in S : s.key = k}) /\ ShareOf(S, k).count \in Nat
                    /\ ShareOf(S, k).total = SumFunctionOnSet(Monthly(S), {s \in S : s.key = k}) /\ ShareOf(S, k).total \in Nat
  OBVIOUS
<1> DEFINE bucket == {s \in S : s.key = k}
           own == [s \in bucket |-> s.monthly]
<1>1. k \in Nat \cup {None}
  BY DEF KeysOf, AreSlices
<1>2. bucket \in SUBSET S /\ IsFiniteSet(bucket) /\ Cardinality(bucket) \in Nat
  BY FiniteParts DEF AreSlices
<1>3. Amounts(Monthly(S), bucket) /\ Amounts(own, bucket)
  BY <1>2 DEF Amounts, Monthly, AreSlices
<1>4. \A s \in bucket : own[s] = Monthly(S)[s]
  BY DEF Monthly
<1>5. ShareOf(S, k) = [key |-> k, count |-> Cardinality(bucket), total |-> SumFunction(own)]
  BY Zenon DEF ShareOf
<1>6. DOMAIN own = bucket
  OBVIOUS
<1> HIDE DEF own, bucket
<1>7. SumFunction(own) = SumFunctionOnSet(own, bucket)
  BY <1>6, Zenon DEF SumFunction
<1>8. SumFunctionOnSet(own, bucket) = SumFunctionOnSet(Monthly(S), bucket) /\ SumFunctionOnSet(own, bucket) \in Nat
  BY <1>3, <1>4, SumSame, SumNat
<1>9. QED
  BY <1>1, <1>2, <1>5, <1>7, <1>8 DEF bucket

\* The terms of g over S are those of f over R, through h, one to one.
Through(S, R, h, f, g) ==
  /\ h \in [S -> R] /\ Amounts(g, S)
  /\ \A x, y \in S : h[x] = h[y] => x = y
  /\ \A r \in R : \E x \in S : r = h[x]
  /\ \A x \in S : g[x] = f[h[x]]

\* They have the same sum.
LEMMA ThroughSums ==
  ASSUME NEW S, NEW R, NEW h, NEW f, NEW g, Through(S, R, h, f, g)
  PROVE  Amounts(f, R) /\ SumFunctionOnSet(f, R) = SumFunctionOnSet(g, S)
<1>1. /\ h \in [S -> R] /\ Amounts(g, S)
      /\ \A x, y \in S : h[x] = h[y] => x = y
      /\ \A r \in R : \E x \in S : r = h[x]
      /\ \A x \in S : g[x] = f[h[x]]
  BY DEF Through
<1>2. QED
  BY <1>1, SumThrough

\* b holds for each key of K what f sums to over the elements of S of that key.
Buckets(S, K, f, key, b) ==
  /\ Amounts(f, S) /\ IsFiniteSet(K) /\ \A x \in S : key[x] \in K
  /\ \A k \in K : b[k] = SumFunctionOnSet(f, {x \in S : key[x] = k})

\* The buckets add up to all that they hold.
LEMMA BucketsSum ==
  ASSUME NEW S, NEW K, NEW f, NEW key, NEW b, Buckets(S, K, f, key, b)
  PROVE  Amounts(b, K) /\ SumFunctionOnSet(b, K) = SumFunctionOnSet(f, S)
<1>1. /\ Amounts(f, S) /\ IsFiniteSet(K) /\ \A x \in S : key[x] \in K
      /\ \A k \in K : b[k] = SumFunctionOnSet(f, {x \in S : key[x] = k})
  BY DEF Buckets
<1>2. QED
  BY <1>1, SumBuckets

\* A repartition has one share for each key, the heaviest first; they add up to
\* the slices and count each of them once.
LEMMA RepartitionIs ==
  ASSUME NEW S, AreSlices(S)
  PROVE  LET shares == Repartition(S)
             n == Cardinality(KeysOf(S))
         IN /\ n \in Nat /\ DOMAIN shares = 1 .. n /\ Len(shares) = n
            /\ \A k \in 1 .. n : shares[k].total \in Nat /\ shares[k].count \in Nat
            /\ \A i, j \in 1 .. n : i < j => shares[i].total >= shares[j].total
            /\ SumTotals(shares) = SumFunctionOnSet(Monthly(S), S)
            /\ SumFunction([k \in 1 .. n |-> shares[k].count]) = Cardinality(S)
<1> DEFINE K == KeysOf(S)
           n == Cardinality(K)
           all == {ShareOf(S, k) : k \in K}
           heavy == {pair \in all \X all : Heavier(pair[1], pair[2])}
           shares == Repartition(S)
<1>1. Repartition(S) = Sorted(all, heavy)
  BY Zenon DEF Repartition, ShareOf
<1>2. \A k \in K : /\ k \in Nat \cup {None} /\ ShareOf(S, k).key = k
                   /\ ShareOf(S, k).count \in Nat /\ ShareOf(S, k).total \in Nat
  BY SharesAre
<1>3. IsFiniteSet(K)
  <2> DEFINE h == [s \in S |-> s.key]
  <2>1. h = [s \in S |-> h[s]] /\ \A k \in K : \E s \in S : k = h[s]
    BY DEF KeysOf
  <2> HIDE DEF h, K
  <2>2. QED
    BY <2>1, FiniteImage DEF AreSlices
<1> HIDE DEF K
<1>4. IsFiniteSet(all) /\ Cardinality(all) = n
  <2> DEFINE h == [k \in K |-> ShareOf(S, k)]
  <2>1. h \in Surjection(K, all) /\ h \in Injection(K, all)
    <3>1. h \in [K -> all] /\ \A k \in K : h[k] = ShareOf(S, k)
      OBVIOUS
    <3>2. \A j, k \in K : h[j] = h[k] => j = k
      BY <1>2, <3>1
    <3> HIDE DEF h
    <3>3. \A x \in all : \E k \in K : h[k] = x
      BY <3>1
    <3>4. QED
      BY <3>1, <3>2, <3>3 DEF Surjection, Injection, IsInjective
  <2> HIDE DEF h, all
  <2>2. QED
    BY <1>3, <2>1, FS_Surjection
<1>5. StrictOrder(heavy, all)
  <2>1. \A p \in all : p.key \in Nat \cup {None} /\ p.count \in Nat /\ p.total \in Nat
    BY <1>2
  <2>2. \A p, r \in all : p.key = r.key => p = r
    BY <1>2
  <2>3. \A p, r \in all : <<p, r>> \in heavy <=> Heavier(p, r)
    OBVIOUS
  <2>3a. None \notin Nat
    BY DateTypes
  <2> HIDE DEF all, heavy
  <2>4. \A p \in all : <<p, p>> \notin heavy
    BY <2>1, <2>3 DEF Heavier
  <2>5. \A p, r \in all : p # r => <<p, r>> \in heavy \/ <<r, p>> \in heavy
    BY <2>1, <2>2, <2>3, <2>3a DEF Heavier
  <2>6. \A p, r, s \in all : <<p, r>> \in heavy /\ <<r, s>> \in heavy => <<p, s>> \in heavy
    BY <2>1, <2>3, <2>3a DEF Heavier
  <2>7. QED
    BY <2>4, <2>5, <2>6 DEF StrictOrder
<1> HIDE DEF heavy, all
<1>6. /\ n \in Nat /\ shares \in Seq(all) /\ Len(shares) = n /\ DOMAIN shares = 1 .. n /\ ToSet(shares) = all
      /\ \A i, j \in 1 .. n : i < j => <<shares[i], shares[j]>> \in heavy
  BY <1>1, <1>4, <1>5, SortedIs
<1> HIDE DEF shares, n
<1>7. \A k \in 1 .. n : shares[k] \in all
  BY <1>6
<1>8. \A x \in all : \E k \in 1 .. n : shares[k] = x
  BY <1>6 DEF ToSet
<1>9. \A p \in all : p.key \in K /\ p = ShareOf(S, p.key) /\ p.count \in Nat /\ p.total \in Nat
  BY <1>2 DEF all
<1>10. \A i, j \in 1 .. n : i < j => Heavier(shares[i], shares[j])
  BY <1>6 DEF heavy
<1>11. \A i, j \in 1 .. n : shares[i] = shares[j] => i = j
  <2>1. ASSUME NEW i \in 1 .. n, NEW j \in 1 .. n, i < j PROVE shares[i] # shares[j]
    <3>1. Heavier(shares[i], shares[j])
      BY <2>1, <1>10
    <3>2. /\ shares[i].total \in Nat /\ shares[i].count \in Nat
          /\ shares[i].key \in K /\ shares[i].key \in Nat \cup {None}
      BY <1>2, <1>7, <1>9
    <3>3. None \notin Nat
      BY DateTypes
    <3>4. \A x : /\ x.total \in Nat /\ x.count \in Nat /\ x.key \in Nat \cup {None}
                => ~Heavier(x, x)
      BY <3>3 DEF Heavier
    <3>5. QED
      BY <3>1, <3>2, <3>4
  <2>2. QED
    BY <1>6, <2>1
<1>12. \A i, j \in 1 .. n : i < j => shares[i].total >= shares[j].total
  BY <1>7, <1>9, <1>10 DEF Heavier
<1> DEFINE h == [k \in 1 .. n |-> shares[k].key]
<1>13. h \in [1 .. n -> K]
  BY <1>7, <1>9
<1>14. \A i, j \in 1 .. n : h[i] = h[j] => i = j
  <2>1. SUFFICES ASSUME NEW i \in 1 .. n, NEW j \in 1 .. n, h[i] = h[j] PROVE i = j
    OBVIOUS
  <2>2. shares[i].key = shares[j].key
    BY <2>1
  <2>3. shares[i] = shares[j]
    BY <1>7, <1>9, <2>2
  <2>4. QED
    BY <1>11, <2>3
<1>15. \A k \in K : \E i \in 1 .. n : k = h[i]
  <2>1. SUFFICES ASSUME NEW k \in K PROVE \E i \in 1 .. n : k = h[i]
    OBVIOUS
  <2>2. PICK i \in 1 .. n : shares[i] = ShareOf(S, k)
    BY <1>8 DEF all
  <2>3. QED
    BY <1>2, <2>2
<1>16. IsFiniteSet(1 .. n)
  <2>1. \A a, b \in Int : IsFiniteSet(a .. b)
    BY FS_Interval
  <2>2. QED
    BY <1>6, <2>1
<1> DEFINE keyOf == [s \in S |-> s.key]
           totals == [k \in K |-> ShareOf(S, k).total]
           counts == [k \in K |-> ShareOf(S, k).count]
           ones == [s \in S |-> 1]
           shown == [k \in 1 .. n |-> shares[k].total]
           counted == [k \in 1 .. n |-> shares[k].count]
<1>17. \A s \in S : keyOf[s] \in K
  BY DEF K, KeysOf
<1>18. Amounts(Monthly(S), S) /\ Amounts(ones, S)
  BY DEF Amounts, Monthly, AreSlices
<1>19. \A k \in K : {s \in S : keyOf[s] = k} = {s \in S : s.key = k}
  OBVIOUS
<1>20. Amounts(totals, K) /\ SumFunctionOnSet(totals, K) = SumFunctionOnSet(Monthly(S), S)
  <2>1. ASSUME NEW k \in K PROVE totals[k] = SumFunctionOnSet(Monthly(S), {s \in S : keyOf[s] = k})
    <3>1. ShareOf(S, k).total = SumFunctionOnSet(Monthly(S), {s \in S : s.key = k})
      BY SharesAre, Zenon DEF K
    <3>2. totals[k] = ShareOf(S, k).total
      OBVIOUS
    <3> HIDE DEF totals
    <3>3. QED
      BY <1>19, <3>1, <3>2, Zenon
  <2> HIDE DEF totals, keyOf
  <2>2. Buckets(S, K, Monthly(S), keyOf, totals)
    BY <1>3, <1>17, <1>18, <2>1 DEF Buckets
  <2>3. QED
    BY <2>2, BucketsSum
<1>21. Amounts(counts, K) /\ SumFunctionOnSet(counts, K) = SumFunctionOnSet(ones, S)
  <2>1. ASSUME NEW k \in K PROVE counts[k] = SumFunctionOnSet(ones, {s \in S : keyOf[s] = k})
    <3> DEFINE bucket == {s \in S : s.key = k}
    <3>1. IsFiniteSet(bucket) /\ \A s \in bucket : ones[s] = 1
      <4>1. bucket \in SUBSET S
        OBVIOUS
      <4>2. IsFiniteSet(bucket)
        BY <4>1, FiniteParts DEF AreSlices
      <4>3. QED
        BY <4>2
    <3>2. SumFunctionOnSet(ones, bucket) = Cardinality(bucket)
      <4> HIDE DEF bucket, ones
      <4>1. QED
        BY <3>1, SumOnes
    <3>3. ShareOf(S, k).count = Cardinality({s \in S : s.key = k})
      BY SharesAre, Zenon DEF K
    <3>4. counts[k] = Cardinality(bucket)
      BY <3>3
    <3>5. {s \in S : keyOf[s] = k} = bucket
      BY <1>19
    <3> HIDE DEF bucket, keyOf, ones, counts
    <3>6. QED
      BY <3>2, <3>4, <3>5
  <2> HIDE DEF counts, keyOf, ones
  <2>2. Buckets(S, K, ones, keyOf, counts)
    BY <1>3, <1>17, <1>18, <2>1 DEF Buckets
  <2>3. QED
    BY <2>2, BucketsSum
<1>22. SumFunctionOnSet(ones, S) = Cardinality(S)
  <2>1. \A s \in S : ones[s] = 1
    OBVIOUS
  <2> HIDE DEF ones
  <2>2. QED
    BY <2>1, SumOnes DEF AreSlices
<1>23. \A k \in 1 .. n : shown[k] = totals[h[k]] /\ counted[k] = counts[h[k]]
  BY <1>7, <1>9
<1>24. Amounts(shown, 1 .. n) /\ Amounts(counted, 1 .. n)
  BY <1>7, <1>9, <1>16 DEF Amounts
<1>25. DOMAIN shown = 1 .. n /\ DOMAIN counted = 1 .. n /\ SumTotals(shares) = SumFunction(shown)
  BY <1>6, Zenon DEF SumTotals
<1> HIDE DEF shown, counted, totals, counts, h, ones, keyOf
<1>26. SumFunctionOnSet(totals, K) = SumFunctionOnSet(shown, 1 .. n)
  <2>1. \A i \in 1 .. n : shown[i] = totals[h[i]]
    BY <1>23
  <2>2. Through(1 .. n, K, h, totals, shown)
    BY <1>13, <1>14, <1>15, <1>24, <2>1 DEF Through
  <2>3. QED
    BY <2>2, ThroughSums
<1>27. SumFunctionOnSet(counts, K) = SumFunctionOnSet(counted, 1 .. n)
  <2>1. \A i \in 1 .. n : counted[i] = counts[h[i]]
    BY <1>23
  <2>2. Through(1 .. n, K, h, counts, counted)
    BY <1>13, <1>14, <1>15, <1>24, <2>1 DEF Through
  <2>3. QED
    BY <2>2, ThroughSums
<1>28. SumTotals(shares) = SumFunctionOnSet(Monthly(S), S) /\ SumFunction(counted) = Cardinality(S)
  BY <1>20, <1>21, <1>22, <1>25, <1>26, <1>27, Zenon DEF SumFunction
<1>29. QED
  BY <1>6, <1>7, <1>9, <1>12, <1>28 DEF shares, n, K, counted

\* The rows that cost something on the day are finitely many, known by their id.
LEMMA ConvertibleAre ==
  ASSUME TableInv, NEW q \in StatQueries, Target(q) \in Currencies
  PROVE  /\ IsFiniteSet(Convertible(q)) /\ Convertible(q) \subseteq q.rows
         /\ \A r \in Convertible(q) : /\ IsPriced(r) /\ CostIn(r, Target(q)) \in Nat
                                      /\ MonthlyInTarget(r, Target(q)) # {}
         /\ \A r, x \in Convertible(q) : r.id = x.id => r = x
<1>1. ArePriced(q.rows)
  BY StatisticsAssumption DEF StatisticsAssumption
<1>2. Convertible(q) \subseteq q.rows /\ \A r \in Convertible(q) : MonthlyInTarget(r, Target(q)) # {}
  BY DEF Convertible, LiveRows, Active
<1>3. IsFiniteSet(Convertible(q))
  BY <1>1, <1>2, FS_Subset DEF ArePriced
<1>4. \A r \in Convertible(q) : IsPriced(r) /\ CostIn(r, Target(q)) \in Nat
  BY <1>1, <1>2, CostsAre DEF ArePriced
<1>5. QED
  BY <1>1, <1>2, <1>3, <1>4 DEF ArePriced

\* What each row of a set costs in the target.
Costs(rows, target) == [r \in rows |-> CostIn(r, target)]

\* There is one slice for each of them on either axis, of the same cost.
LEMMA SlicesAre ==
  ASSUME TableInv, NEW q \in StatQueries, Target(q) \in Currencies, NEW axis \in {"category", "payer"}
  PROVE  LET S == Slices(q, axis)
         IN /\ AreSlices(S) /\ Cardinality(S) = Cardinality(Convertible(q))
            /\ Amounts(Costs(Convertible(q), Target(q)), Convertible(q))
            /\ SumFunctionOnSet(Monthly(S), S) = SumFunctionOnSet(Costs(Convertible(q), Target(q)), Convertible(q))
<1> DEFINE S == Slices(q, axis)
           R == Convertible(q)
           slice(r) == [id |-> r.id, key |-> r[axis], monthly |-> CostIn(r, Target(q))]
           h == [r \in R |-> slice(r)]
           costs == Costs(R, Target(q))
<1>1. /\ IsFiniteSet(R)
      /\ \A r \in R : IsPriced(r) /\ CostIn(r, Target(q)) \in Nat
      /\ \A r, x \in R : r.id = x.id => r = x
  BY ConvertibleAre
<1>2. S = {slice(r) : r \in R}
  BY Zenon DEF Slices
<1>3. \A r \in R : r[axis] \in Nat \cup {None}
  <2>1. CASE axis = "category"
    BY <1>1, <2>1 DEF IsPriced
  <2>2. CASE axis = "payer"
    BY <1>1, <2>2 DEF IsPriced
  <2>3. QED
    BY <2>1, <2>2
<1>4. \A r \in R : h[r] = slice(r) /\ slice(r).id = r.id /\ slice(r).key = r[axis]
                   /\ slice(r).monthly = CostIn(r, Target(q))
  OBVIOUS
<1> HIDE DEF slice, R, S
<1>5. h \in [R -> S] /\ \A s \in S : \E r \in R : s = h[r]
  BY <1>2
<1>6. \A r, x \in R : h[r] = h[x] => r = x
  BY <1>1, <1>4
<1>7. \A s \in S : s.monthly \in Nat /\ s.key \in Nat \cup {None}
  BY <1>1, <1>2, <1>3, <1>4
<1>8. IsFiniteSet(S)
  <2>1. h = [r \in R |-> h[r]]
    OBVIOUS
  <2> HIDE DEF h
  <2>2. QED
    BY <1>1, <1>5, <2>1, FiniteImage
<1>9. AreSlices(S)
  BY <1>7, <1>8 DEF AreSlices
<1> DEFINE ones == [r \in R |-> 1]
           units == [s \in S |-> 1]
<1>10. Amounts(costs, R) /\ Amounts(ones, R)
  BY <1>1 DEF Amounts, Costs
<1>11. Through(R, S, h, Monthly(S), costs)
  <2>1. \A r \in R : costs[r] = Monthly(S)[h[r]]
    BY <1>4, <1>5 DEF Costs, Monthly
  <2> HIDE DEF h, costs
  <2>2. QED
    BY <1>5, <1>6, <1>10, <2>1 DEF Through
<1>12. Through(R, S, h, units, ones)
  <2>1. \A r \in R : ones[r] = units[h[r]]
    BY <1>5
  <2> HIDE DEF h, ones, units
  <2>2. QED
    BY <1>5, <1>6, <1>10, <2>1 DEF Through
<1>13. SumFunctionOnSet(units, S) = Cardinality(S) /\ SumFunctionOnSet(ones, R) = Cardinality(R)
  <2>1. (\A s \in S : units[s] = 1) /\ (\A r \in R : ones[r] = 1)
    OBVIOUS
  <2> HIDE DEF units, ones
  <2>2. QED
    BY <1>1, <1>8, <2>1, SumOnes
<1> HIDE DEF h, costs, ones, units
<1>14. SumFunctionOnSet(Monthly(S), S) = SumFunctionOnSet(costs, R) /\ Cardinality(S) = Cardinality(R)
  BY <1>11, <1>12, <1>13, ThroughSums
<1>15. QED
  BY <1>9, <1>10, <1>14 DEF S, R, costs

\* What a repartition shows of its shares: as many entries, the totals rounded,
\* the order and the counts kept.
LEMMA EntriesAre ==
  ASSUME NEW S, AreSlices(S), NEW names, NEW decimals, Grain \div 10 ^ decimals \in Nat \ {0}
  PROVE  LET entries == Entries(Repartition(S), names, decimals)
             step == Grain \div 10 ^ decimals
             sum == SumFunctionOnSet(Monthly(S), S)
         IN /\ Len(entries) \in Nat /\ DOMAIN entries = 1 .. Len(entries) /\ sum \in Nat
            /\ SumTotals(Repartition(S)) = sum
            /\ SumCounts(entries) = Cardinality(S)
            /\ Near(SumTotals(entries), RoundTo(sum, decimals), step * (Len(entries) + 1))
            /\ \A i \in 1 .. Len(entries) - 1 : entries[i].total >= entries[i + 1].total
<1> DEFINE shares == Repartition(S)
           entries == Entries(shares, names, decimals)
           step == Grain \div 10 ^ decimals
           sum == SumFunctionOnSet(Monthly(S), S)
           n == Cardinality(KeysOf(S))
           shown == [k \in 1 .. n |-> entries[k].total]
           exact == [k \in 1 .. n |-> shares[k].total]
<1>1. /\ n \in Nat /\ DOMAIN shares = 1 .. n /\ Len(shares) = n
      /\ \A k \in 1 .. n : shares[k].total \in Nat /\ shares[k].count \in Nat
      /\ \A i, j \in 1 .. n : i < j => shares[i].total >= shares[j].total
      /\ SumTotals(shares) = sum
      /\ SumFunction([k \in 1 .. n |-> shares[k].count]) = Cardinality(S)
  BY RepartitionIs
<1> HIDE DEF shares, n
<1>2. /\ entries = [k \in 1 .. n |->
           [label |-> IF shares[k].key \in names THEN shares[k].key ELSE None,
            total |-> RoundTo(shares[k].total, decimals), count |-> shares[k].count]]
      /\ DOMAIN entries = 1 .. n
  BY <1>1 DEF Entries
<1>3. Len(entries) = n
  BY <1>1, <1>2
<1>4. \A k \in 1 .. n : entries[k].total = RoundTo(shares[k].total, decimals) /\ entries[k].count = shares[k].count
  BY <1>2
<1> HIDE DEF entries
<1>5. SumCounts(entries) = Cardinality(S)
  <2>1. [k \in 1 .. n |-> entries[k].count] = [k \in 1 .. n |-> shares[k].count]
    BY <1>4
  <2>2. SumCounts(entries) = SumFunction([k \in 1 .. n |-> entries[k].count])
    BY <1>2, Zenon DEF SumCounts
  <2>3. QED
    BY <1>1, <2>1, <2>2, Zenon
<1>6. /\ SumTotals(entries) = SumFunctionOnSet(shown, 1 .. n)
      /\ SumTotals(shares) = SumFunctionOnSet(exact, 1 .. n)
  <2>1. DOMAIN shown = 1 .. n /\ DOMAIN exact = 1 .. n
    OBVIOUS
  <2>2. SumTotals(entries) = SumFunction(shown) /\ SumTotals(shares) = SumFunction(exact)
    BY <1>1, <1>2, Zenon DEF SumTotals
  <2> HIDE DEF shown, exact
  <2>3. QED
    BY <2>1, <2>2, Zenon DEF SumFunction
<1>7. step \in Nat \ {0}
  OBVIOUS
<1>8. \A k \in 1 .. n : /\ RoundTo(shares[k].total, decimals) \in Nat
                        /\ 2 * RoundTo(shares[k].total, decimals) <= 2 * shares[k].total + step
                        /\ 2 * shares[k].total <= 2 * RoundTo(shares[k].total, decimals) + step
  BY <1>1, Rounding
<1>9. IsFiniteSet(1 .. n) /\ Cardinality(1 .. n) = n
  <2>1. \A a, b \in Int : IsFiniteSet(a .. b) /\ Cardinality(a .. b) = IF a > b THEN 0 ELSE b - a + 1
    BY FS_Interval
  <2>2. QED
    BY <1>1, <2>1
<1>10. \A k \in 1 .. n : /\ exact[k] \in Nat /\ shown[k] \in Nat
                         /\ 2 * shown[k] <= 2 * exact[k] + step /\ 2 * exact[k] <= 2 * shown[k] + step
  BY <1>1, <1>4, <1>8
<1> HIDE DEF shown, exact, step
<1>11. Amounts(shown, 1 .. n) /\ Amounts(exact, 1 .. n)
  BY <1>9, <1>10 DEF Amounts
<1>12. /\ 2 * SumFunctionOnSet(shown, 1 .. n) <= 2 * SumFunctionOnSet(exact, 1 .. n) + step * n
       /\ 2 * SumFunctionOnSet(exact, 1 .. n) <= 2 * SumFunctionOnSet(shown, 1 .. n) + step * n
  <2>1. /\ \A k \in 1 .. n : 2 * shown[k] <= 2 * exact[k] + step
        /\ \A k \in 1 .. n : 2 * exact[k] <= 2 * shown[k] + step
    BY <1>10
  <2>2. 2 * SumFunctionOnSet(shown, 1 .. n) <= 2 * SumFunctionOnSet(exact, 1 .. n) + step * Cardinality(1 .. n)
    BY <1>7, <1>11, <2>1, SumNear
  <2>3. 2 * SumFunctionOnSet(exact, 1 .. n) <= 2 * SumFunctionOnSet(shown, 1 .. n) + step * Cardinality(1 .. n)
    BY <1>7, <1>11, <2>1, SumNear
  <2>4. QED
    BY <1>9, <2>2, <2>3
<1>13. SumFunctionOnSet(shown, 1 .. n) \in Nat /\ sum \in Nat
  <2>1. SumFunctionOnSet(exact, 1 .. n) \in Nat
    BY <1>11, SumNat
  <2>2. QED
    BY <1>1, <1>6, <1>11, <2>1, SumNat
<1>14. RoundTo(sum, decimals) \in Nat /\ 2 * RoundTo(sum, decimals) <= 2 * sum + step
       /\ 2 * sum <= 2 * RoundTo(sum, decimals) + step
  BY <1>13, Rounding DEF step
<1>15. Near(SumTotals(entries), RoundTo(sum, decimals), step * (n + 1))
  <2> DEFINE gap == step * n
             whole == RoundTo(sum, decimals)
  <2>1. step * (n + 1) = gap + step /\ gap \in Nat
    BY <1>1, <1>7
  <2>2. 2 * SumTotals(entries) <= 2 * sum + gap /\ 2 * sum <= 2 * SumTotals(entries) + gap /\ SumTotals(entries) \in Nat
    BY <1>1, <1>6, <1>12, <1>13
  <2>3. whole \in Nat /\ 2 * whole <= 2 * sum + step /\ 2 * sum <= 2 * whole + step
    BY <1>14
  <2> HIDE DEF gap, sum, whole
  <2>4. Near(SumTotals(entries), whole, gap + step)
    BY <1>7, <1>13, <2>1, <2>2, <2>3 DEF Near
  <2>5. QED
    BY <2>1, <2>4 DEF whole
<1>16. \A i \in 1 .. n - 1 : entries[i].total >= entries[i + 1].total
  <2>1. SUFFICES ASSUME NEW i \in 1 .. n - 1 PROVE entries[i].total >= entries[i + 1].total
    OBVIOUS
  <2>2. i \in 1 .. n /\ i + 1 \in 1 .. n /\ i < i + 1
    BY <1>1
  <2>3. shares[i].total \in Nat /\ shares[i + 1].total \in Nat /\ shares[i + 1].total <= shares[i].total
    BY <1>1, <2>2
  <2>4. RoundTo(shares[i + 1].total, decimals) <= RoundTo(shares[i].total, decimals)
    BY <2>3, RoundingRises
  <2>5. RoundTo(shares[i + 1].total, decimals) \in Nat /\ RoundTo(shares[i].total, decimals) \in Nat
    BY <1>8, <2>2
  <2>6. QED
    BY <1>4, <2>2, <2>4, <2>5
<1>17. QED
  BY <1>1, <1>2, <1>3, <1>5, <1>13, <1>15, <1>16 DEF shares, entries, step

\* What the property says of an answer of the repartition.
AddsUp(q, answer) ==
  LET live == {r \in q.rows : r.active /\ Chargeable(r, q.today)}
      step == Grain \div 10 ^ Decimals[Target(q)]
      within(entries) == Near(SumTotals(entries), answer.total, step * (Len(entries) + 1))
  IN /\ SumCounts(answer.byCategory) = SumCounts(answer.byPayer)
     /\ answer.complete <=> SumCounts(answer.byCategory) = Cardinality(live)
     /\ within(answer.byCategory) /\ within(answer.byPayer)
     /\ \A i \in 1 .. Len(answer.byPayer) - 1 : answer.byPayer[i].total >= answer.byPayer[i + 1].total

\* The live rows are those that may be charged on the day.
LEMMA LiveAre ==
  ASSUME NEW q \in StatQueries
  PROVE  /\ LiveRows(q.rows, q.today) = {r \in q.rows : r.active /\ Chargeable(r, q.today)}
         /\ IsFiniteSet(LiveRows(q.rows, q.today)) /\ LiveRows(q.rows, q.today) \subseteq q.rows
<1>1. ArePriced(q.rows) /\ q.today \in Days
  BY StatisticsAssumption DEF StatisticsAssumption
<1>2. LiveRows(q.rows, q.today) = {r \in q.rows : r.active /\ Chargeable(r, q.today)}
  BY <1>1, DateTypes DEF LiveRows, Active, Chargeable, ArePriced, IsPriced
<1>3. QED
  BY <1>1, <1>2, FS_Subset DEF ArePriced

\* The answer of the repartition adds up.
LEMMA AnswerAddsUp ==
  ASSUME TableInv, NEW q \in StatQueries, Target(q) \in Currencies
  PROVE  AddsUp(q, GetRepartition(q))
<1> DEFINE decimals == Decimals[Target(q)]
           C == Slices(q, "category")
           P == Slices(q, "payer")
           R == Convertible(q)
           L == LiveRows(q.rows, q.today)
           step == Grain \div 10 ^ decimals
           costs == Costs(R, Target(q))
           sum == SumFunctionOnSet(costs, R)
           byCategory == Entries(Repartition(C), q.categories, decimals)
           byPayer == Entries(Repartition(P), q.payers, decimals)
           answer == GetRepartition(q)
<1>1. answer = [total |-> RoundTo(SumTotals(Repartition(C)), decimals), refused |-> FALSE,
                complete |-> (R = L), byCategory |-> byCategory, byPayer |-> byPayer]
  BY Zenon DEF GetRepartition
<1>2. Grain \div 10 ^ decimals \in Nat \ {0}
  BY StatisticsAssumption DEF StatisticsAssumption
<1>3. /\ AreSlices(C) /\ Cardinality(C) = Cardinality(R) /\ SumFunctionOnSet(Monthly(C), C) = sum
      /\ AreSlices(P) /\ Cardinality(P) = Cardinality(R) /\ SumFunctionOnSet(Monthly(P), P) = sum
  BY SlicesAre
<1>4. L = {r \in q.rows : r.active /\ Chargeable(r, q.today)} /\ IsFiniteSet(L) /\ R \subseteq L
  BY LiveAre DEF Convertible
<1>5. R = L <=> Cardinality(R) = Cardinality(L)
  <2> HIDE DEF R, L
  <2>1. IsFiniteSet(L) /\ R \in SUBSET L
    BY <1>4
  <2>2. QED
    BY <2>1, FS_Subset
<1> HIDE DEF C, P, R, L, costs, sum, decimals
<1>6. /\ SumTotals(Repartition(C)) = sum /\ SumCounts(byCategory) = Cardinality(R)
      /\ Near(SumTotals(byCategory), RoundTo(sum, decimals), step * (Len(byCategory) + 1))
  BY <1>2, <1>3, EntriesAre
<1>7. /\ SumCounts(byPayer) = Cardinality(R)
      /\ Near(SumTotals(byPayer), RoundTo(sum, decimals), step * (Len(byPayer) + 1))
      /\ \A i \in 1 .. Len(byPayer) - 1 : byPayer[i].total >= byPayer[i + 1].total
  BY <1>2, <1>3, EntriesAre
<1> HIDE DEF byCategory, byPayer, answer
<1>8. /\ answer.total = RoundTo(sum, decimals) /\ answer.byCategory = byCategory /\ answer.byPayer = byPayer
      /\ answer.complete <=> R = L
  BY <1>1, <1>6
<1>9. QED
  BY <1>4, <1>5, <1>6, <1>7, <1>8, Zenon DEF AddsUp, answer, R, L, decimals, step

\* [RepartitionAddsUp] Both axes spread the same subscriptions and the shares add up.
LEMMA RepartitionsAddUp == TableInv /\ Computed => RepartitionAddsUp
<1> SUFFICES ASSUME TableInv, Computed, asked.op = "statistics" PROVE RepartitionAddsUp
  BY DEF RepartitionAddsUp
<1>1. PICK q \in StatQueries : asked = [op |-> "statistics", q |-> q,
         body |-> [series |-> GetCostEvolution(q), shares |-> GetRepartition(q)]]
  BY DEF Computed, NoQuery
<1>2. asked.q = q /\ asked.body.shares = GetRepartition(q)
  BY <1>1
<1>3. CASE Target(q) \notin Currencies
  <2>1. GetRepartition(q).refused
    BY <1>3 DEF GetRepartition, Refusal
  <2>2. QED
    BY <1>2, <2>1 DEF RepartitionAddsUp
<1>4. CASE Target(q) \in Currencies
  <2>1. AddsUp(asked.q, asked.body.shares)
    BY <1>2, <1>4, AnswerAddsUp
  <2>2. QED
    BY <2>1, Zenon DEF RepartitionAddsUp, AddsUp
<1>5. QED
  BY <1>3, <1>4

-----------------------------------------------------------------------------
(* The evolution, month by month. *)

\* The days of a month are days between its first and its last.
LEMMA MonthWindow ==
  ASSUME NEW m \in FirstMonth .. LastMonth
  PROVE  MonthStart[m] \in Nat /\ LastOfMonth(m) \in Nat /\ MonthStart[m] <= LastOfMonth(m)
<1>1. m \in Nat /\ MonthLength(m) \in 28 .. 31 /\ MonthStart[m] \in Nat
  BY MonthFacts, MonthOrder
<1>2. QED
  BY <1>1 DEF LastOfMonth

\* A span meets a month when its row costs on one of the days, or ends unpaid.
LEMMA MeetsIs ==
  ASSUME NEW r, IsPriced(r), NEW first \in Nat, NEW last \in Nat, first <= last,
         NEW span, span.start = Start(r), span.end = r.end
  PROVE  Meets(span, first, last)
           <=> (\E d \in first .. last : CostsOn(r, d)) \/ EndsUnpaid(r, first .. last)
<1> DEFINE s == Start(r)
           e == r.end
<1>1. /\ r.first \in Nat /\ (r.trial = None \/ r.trial \in Nat) /\ (e = None \/ e \in Nat)
      /\ None \notin Int
  BY DateTypes DEF IsPriced
<1>2. s \in Nat /\ \A d \in Nat : CostsOn(r, d) <=> s <= d /\ (e = None \/ d <= e)
  <2>1. CASE r.trial # None /\ r.trial > r.first
    BY <1>1, <2>1 DEF Start, CostsOn, Chargeable
  <2>2. CASE ~(r.trial # None /\ r.trial > r.first)
    <3>1. s = r.first
      BY <2>2 DEF Start
    <3>2. r.trial = None \/ (r.trial \in Nat /\ r.trial <= r.first)
      BY <1>1, <2>2
    <3> HIDE DEF s
    <3>3. QED
      BY <1>1, <3>1, <3>2 DEF CostsOn, Chargeable
  <2>3. QED
    BY <2>1, <2>2
<1>3. Meets(span, first, last) <=> s <= last /\ (e = None \/ e >= first)
  BY DEF Meets
<1>4. EndsUnpaid(r, first .. last) <=> e \in first .. last /\ s \in first .. last /\ e < s
  BY DEF EndsUnpaid
<1> HIDE DEF s, e
<1>5. ASSUME NEW d \in first .. last, CostsOn(r, d) PROVE s <= last /\ (e = None \/ e >= first)
  <2>1. d \in Nat
    OBVIOUS
  <2>2. s <= d /\ (e = None \/ d <= e)
    BY <1>2, <1>5, <2>1
  <2>3. QED
    BY <1>1, <1>2, <2>1, <2>2
<1>6. EndsUnpaid(r, first .. last) => s <= last /\ (e = None \/ e >= first)
  BY <1>1, <1>2, <1>4
<1>7. ASSUME s <= last, e = None \/ e >= first
      PROVE  (\E d \in first .. last : CostsOn(r, d)) \/ EndsUnpaid(r, first .. last)
  <2> DEFINE d == IF s >= first THEN s ELSE first
  <2>1. d \in first .. last /\ d \in Nat /\ s <= d
    BY <1>2, <1>7
  <2>2. CASE e = None \/ d <= e
    <3>1. CostsOn(r, d)
      BY <1>2, <2>1, <2>2
    <3>2. QED
      BY <2>1, <3>1
  <2>3. CASE e # None /\ e < d
    <3>1. s > first /\ d = s
      BY <1>1, <1>2, <1>7, <2>3
    <3>2. QED
      BY <1>1, <1>2, <1>4, <1>7, <2>3, <3>1
  <2>4. QED
    BY <1>1, <2>1, <2>2, <2>3
<1>8. QED
  BY <1>3, <1>5, <1>6, <1>7

\* What a row of the household costs in the target, nothing when it does not convert.
Paid(q) == [r \in q.rows |-> IF MonthlyInTarget(r, Target(q)) = {} THEN 0 ELSE CostIn(r, Target(q))]

\* The rows that the property counts in a month.
HistoryRows(q, m) ==
  {r \in q.rows : r.active /\ ((\E d \in MonthStart[m] .. LastOfMonth(m) : CostsOn(r, d))
                               \/ EndsUnpaid(r, MonthStart[m] .. LastOfMonth(m)))}

\* What the rows of a household cost are amounts.
LEMMA PaidIs ==
  ASSUME TableInv, NEW q \in StatQueries, Target(q) \in Currencies
  PROVE  Amounts(Paid(q), q.rows)
<1>1. ArePriced(q.rows)
  BY StatisticsAssumption DEF StatisticsAssumption
<1>2. \A r \in q.rows : IF MonthlyInTarget(r, Target(q)) = {} THEN TRUE ELSE CostIn(r, Target(q)) \in Nat
  BY <1>1, CostsAre DEF ArePriced
<1>3. QED
  BY <1>1, <1>2 DEF ArePriced, Amounts, Paid

\* The spans that meet a month cost what its rows cost.
LEMMA MonthTotal ==
  ASSUME TableInv, NEW q \in StatQueries, Target(q) \in Currencies, NEW m \in FirstMonth .. LastMonth
  PROVE  LET met == {x \in Spans(q) : Meets(x, MonthStart[m], LastOfMonth(m))}
         IN SumFunction([s \in met |-> s.monthly]) = SumFunctionOnSet(Paid(q), HistoryRows(q, m))
<1> DEFINE first == MonthStart[m]
           last == LastOfMonth(m)
           met == {x \in Spans(q) : Meets(x, first, last)}
           target == Target(q)
           rows == HistoryRows(q, m)
           kept == {r \in rows : MonthlyInTarget(r, target) # {}}
           rest == rows \ kept
           span(r) == [id |-> r.id, start |-> Start(r), end |-> r.end, monthly |-> CostIn(r, target)]
           h == [r \in kept |-> span(r)]
           paid == Paid(q)
<1>1. ArePriced(q.rows) /\ first \in Nat /\ last \in Nat /\ first <= last
  BY MonthWindow, StatisticsAssumption DEF StatisticsAssumption
<1>2. Amounts(paid, q.rows)
  BY PaidIs
<1>3. rows \subseteq q.rows /\ kept \subseteq q.rows /\ rest \subseteq q.rows
      /\ kept \cap rest = {} /\ kept \cup rest = rows
  BY DEF HistoryRows
<1>4. \A r : span(r).id = r.id /\ span(r).start = Start(r) /\ span(r).end = r.end
             /\ span(r).monthly = CostIn(r, target)
  OBVIOUS
<1>5. \A r \in kept : h[r] = span(r) /\ r.active /\ MonthlyInTarget(r, target) # {}
  BY DEF HistoryRows
<1>6. \A r \in kept : paid[r] = CostIn(r, target)
  BY <1>3, <1>5 DEF Paid
<1>7. \A r \in rest : paid[r] = 0
  BY <1>3 DEF Paid
<1>8. Spans(q) = {span(r) : r \in {x \in Active(q.rows) : MonthlyInTarget(x, target) # {}}}
  BY Zenon DEF Spans
<1>9. ASSUME NEW r \in q.rows
      PROVE  Meets(span(r), first, last)
               <=> (\E d \in first .. last : CostsOn(r, d)) \/ EndsUnpaid(r, first .. last)
  <2>1. IsPriced(r)
    BY <1>1 DEF ArePriced
  <2> HIDE DEF span, first, last
  <2>2. QED
    BY <1>1, <1>4, <2>1, MeetsIs
<1>10. rows = {r \in q.rows : r.active /\ Meets(span(r), first, last)}
  <2> HIDE DEF span
  <2>1. rows = {r \in q.rows : r.active /\ ((\E d \in first .. last : CostsOn(r, d)) \/ EndsUnpaid(r, first .. last))}
    BY Zenon DEF HistoryRows
  <2> HIDE DEF rows, first, last
  <2>2. QED
    BY <1>9, <2>1
<1> HIDE DEF span, rows, first, last, target, paid
<1>11. h \in [kept -> met] /\ \A s \in met : \E r \in kept : s = h[r]
  <2>1. ASSUME NEW r \in kept PROVE span(r) \in met
    <3>1. r \in Active(q.rows) /\ MonthlyInTarget(r, target) # {} /\ Meets(span(r), first, last)
      BY <1>3, <1>5, <1>10 DEF Active
    <3>2. QED
      BY <1>8, <3>1
  <2>2. ASSUME NEW s \in met PROVE \E r \in kept : s = h[r]
    <3>1. PICK r \in {x \in Active(q.rows) : MonthlyInTarget(x, target) # {}} : s = span(r)
      BY <1>8
    <3>2. r \in q.rows /\ r.active /\ Meets(span(r), first, last)
      BY <3>1 DEF Active
    <3>3. r \in kept
      BY <1>10, <3>1, <3>2
    <3>4. QED
      BY <3>1, <3>3
  <2>3. h \in [kept -> met]
    BY <2>1
  <2>4. QED
    BY <2>2, <2>3
<1>12. \A r, x \in kept : h[r] = h[x] => r = x
  <2>1. \A r, x \in kept : r.id = x.id => r = x
    BY <1>1, <1>3 DEF ArePriced
  <2>2. QED
    BY <1>4, <1>5, <2>1
<1>13. Amounts(paid, kept) /\ Amounts(paid, rest) /\ Amounts(paid, rows)
  BY <1>2, <1>3, SumPart
<1>14. Through(kept, met, h, Monthly(met), paid)
  <2>1. \A r \in kept : paid[r] = Monthly(met)[h[r]]
    <3>1. \A r \in kept : h[r] \in met /\ h[r].monthly = CostIn(r, target)
      BY <1>4, <1>5, <1>11
    <3> HIDE DEF h, met, kept
    <3>2. QED
      BY <1>6, <3>1 DEF Monthly
  <2> HIDE DEF h, met, kept
  <2>2. QED
    BY <1>11, <1>12, <1>13, <2>1 DEF Through
<1> HIDE DEF h, kept, rest
<1>15. SumFunctionOnSet(Monthly(met), met) = SumFunctionOnSet(paid, kept)
  BY <1>14, ThroughSums
<1>16. SumFunctionOnSet(paid, rest) = 0
  BY <1>7, <1>13, SumZeros DEF Amounts
<1>17. /\ SumFunctionOnSet(paid, rows) = SumFunctionOnSet(paid, kept) + SumFunctionOnSet(paid, rest)
       /\ SumFunctionOnSet(paid, kept) \in Nat
  BY <1>3, <1>13, SumUnion, SumNat
<1>18. SumFunction([s \in met |-> s.monthly]) = SumFunctionOnSet(Monthly(met), met)
  <2>1. DOMAIN Monthly(met) = met
    BY DEF Monthly
  <2> HIDE DEF met
  <2>2. QED
    BY <2>1, Zenon DEF Monthly, SumFunction
<1>19. SumFunction([s \in met |-> s.monthly]) = SumFunctionOnSet(paid, rows)
  BY <1>15, <1>16, <1>17, <1>18
<1>20. QED
  BY <1>19 DEF met, first, last, paid, rows

\* A series is given, month after month, and totals what its rows cost.
LEMMA SeriesAre ==
  ASSUME TableInv, NEW q \in StatQueries, ~GetCostEvolution(q).refused
  PROVE  LET series == GetCostEvolution(q)
             month(k) == MonthOf(q.today) - q.months + k
         IN /\ q.months \in Nat \ {0} /\ Target(q) \in Currencies
            /\ DOMAIN series.points = 1 .. q.months /\ Len(series.points) = q.months
            /\ series.complete <=> Cardinality(Spans(q)) = Cardinality(Active(q.rows))
            /\ \A k \in 1 .. q.months :
                 /\ month(k) \in FirstMonth .. LastMonth
                 /\ series.points[k].month = month(k)
                 /\ series.points[k].total
                      = RoundTo(SumFunctionOnSet(Paid(q), HistoryRows(q, month(k))), Decimals[Target(q)])
<1> DEFINE series == GetCostEvolution(q)
           n == q.months
           month(k) == MonthOf(q.today) - n + k
           decimals == Decimals[Target(q)]
           raw == MonthlyCostEvolution(Spans(q), q.today, n)
           met(m) == {x \in Spans(q) : Meets(x, MonthStart[m], LastOfMonth(m))}
<1>1. ~(q.months = 0 \/ q.months > MaxMonths \/ Target(q) \notin Currencies)
  BY DEF GetCostEvolution, Refusal
<1>2. /\ n \in Nat \ {0} /\ n <= MaxMonths /\ Target(q) \in Currencies /\ MaxMonths \in Nat
      /\ q.today \in Days /\ MonthOf(q.today) + 1 >= FirstMonth + MaxMonths
  BY <1>1, StatisticsAssumption DEF StatisticsAssumption
<1>3. series = [points |-> Rounded(raw, decimals),
                complete |-> Cardinality(Spans(q)) = Cardinality(Active(q.rows)), refused |-> FALSE]
  BY <1>1, Zenon DEF GetCostEvolution
<1>4. ASSUME NEW k \in 1 .. n
      PROVE  /\ month(k) \in FirstMonth .. LastMonth
             /\ MonthOf(q.today) - (n - k) = month(k)
  <2>1. MonthOf(q.today) \in FirstMonth .. LastMonth /\ FirstMonth \in Nat /\ LastMonth \in Nat
    BY <1>2, MonthIs, MonthFacts
  <2>2. QED
    BY <1>2, <2>1
<1>5. raw = [k \in 1 .. n |-> [month |-> MonthOf(q.today) - (n - k),
               total |-> SumFunction([s \in met(MonthOf(q.today) - (n - k)) |-> s.monthly])]]
  BY Zenon DEF MonthlyCostEvolution
<1>6. ASSUME NEW k \in 1 .. n
      PROVE  /\ raw[k].month = month(k)
             /\ raw[k].total = SumFunctionOnSet(Paid(q), HistoryRows(q, month(k)))
  <2> DEFINE m == MonthOf(q.today) - (n - k)
             total == SumFunction([s \in met(m) |-> s.monthly])
  <2>1. raw[k] = [month |-> m, total |-> total]
    BY <1>5
  <2>2. m = month(k) /\ m \in FirstMonth .. LastMonth
    BY <1>4
  <2> HIDE DEF raw, m, month
  <2>3. total = SumFunctionOnSet(Paid(q), HistoryRows(q, m))
    BY <1>2, <2>2, MonthTotal
  <2> HIDE DEF total
  <2>4. QED
    BY <2>1, <2>2, <2>3
<1>7. DOMAIN raw = 1 .. n
  BY <1>5
<1> HIDE DEF raw, month
<1>8. Rounded(raw, decimals) = [k \in 1 .. n |-> [raw[k] EXCEPT !.total = RoundTo(@, decimals)]]
  BY <1>7 DEF Rounded
<1>9. ASSUME NEW k \in 1 .. n
      PROVE  /\ Rounded(raw, decimals)[k].month = month(k)
             /\ Rounded(raw, decimals)[k].total
                  = RoundTo(SumFunctionOnSet(Paid(q), HistoryRows(q, month(k))), decimals)
  <2>1. raw[k] = [month |-> MonthOf(q.today) - (n - k),
               total |-> SumFunction([s \in met(MonthOf(q.today) - (n - k)) |-> s.monthly])]
    BY <1>5
  <2> DEFINE a == MonthOf(q.today) - (n - k)
             b == SumFunction([s \in met(MonthOf(q.today) - (n - k)) |-> s.monthly])
  <2>2. raw[k] = [month |-> a, total |-> b]
    BY <2>1
  <2> HIDE DEF a, b
  <2>3. Rounded(raw, decimals)[k] = [month |-> a, total |-> RoundTo(b, decimals)]
    BY <1>8, <2>2
  <2>4. raw[k].month = a /\ raw[k].total = b
    BY <2>2
  <2>5. QED
    BY <1>6, <2>3, <2>4
<1>10. series.points = Rounded(raw, decimals) /\ DOMAIN series.points = 1 .. n
  BY <1>3, <1>8
<1>11. Len(series.points) = n
  BY <1>2, <1>10
<1>12. series.complete <=> Cardinality(Spans(q)) = Cardinality(Active(q.rows))
  <2> DEFINE whole == Cardinality(Spans(q)) = Cardinality(Active(q.rows))
             points == Rounded(raw, decimals)
  <2>1. series = [points |-> points, complete |-> whole, refused |-> FALSE]
    BY <1>3, Zenon
  <2> HIDE DEF series, points, whole
  <2>2. series.complete = whole
    BY <2>1
  <2>3. QED
    BY <2>2, Zenon DEF whole
<1> HIDE DEF series
<1>13. QED
  BY <1>2, <1>4, <1>9, <1>10, <1>11, <1>12 DEF series, month

\* What the property says of an answer of the evolution.
IsHistory(q, answer) ==
  LET cost(r) == IF MonthlyInTarget(r, Target(q)) = {} THEN 0 ELSE CostIn(r, Target(q))
  IN /\ Len(answer.points) = q.months
     /\ \A k \in DOMAIN answer.points :
          LET m == answer.points[k].month
              month == MonthStart[m] .. LastOfMonth(m)
              rows == {r \in q.rows : r.active /\ ((\E d \in month : CostsOn(r, d)) \/ EndsUnpaid(r, month))}
          IN /\ m = MonthOf(q.today) - q.months + k
             /\ answer.points[k].total = RoundTo(SumFunction([r \in rows |-> cost(r)]), Decimals[Target(q)])

\* The answer of the evolution is the history.
LEMMA AnswerIsHistory ==
  ASSUME TableInv, NEW q \in StatQueries, ~GetCostEvolution(q).refused
  PROVE  IsHistory(q, GetCostEvolution(q))
<1> DEFINE answer == GetCostEvolution(q)
           cost(r) == IF MonthlyInTarget(r, Target(q)) = {} THEN 0 ELSE CostIn(r, Target(q))
<1>1. /\ q.months \in Nat \ {0} /\ Target(q) \in Currencies
      /\ DOMAIN answer.points = 1 .. q.months /\ Len(answer.points) = q.months
      /\ \A k \in 1 .. q.months :
           /\ MonthOf(q.today) - q.months + k \in FirstMonth .. LastMonth
           /\ answer.points[k].month = MonthOf(q.today) - q.months + k
           /\ answer.points[k].total
                = RoundTo(SumFunctionOnSet(Paid(q), HistoryRows(q, MonthOf(q.today) - q.months + k)), Decimals[Target(q)])
  BY SeriesAre
<1>2. Amounts(Paid(q), q.rows)
  BY <1>1, PaidIs
<1>3. ASSUME NEW rows \in SUBSET q.rows
      PROVE  SumFunction([r \in rows |-> cost(r)]) = SumFunctionOnSet(Paid(q), rows)
  <2> DEFINE own == [r \in rows |-> cost(r)]
  <2>1. DOMAIN own = rows /\ \A r \in rows : own[r] = Paid(q)[r]
    BY DEF Paid
  <2>2. Amounts(Paid(q), rows)
    BY <1>2, SumPart
  <2> HIDE DEF own
  <2>3. Amounts(own, rows)
    BY <2>1, <2>2 DEF Amounts
  <2>4. SumFunctionOnSet(own, rows) = SumFunctionOnSet(Paid(q), rows)
    BY <2>1, <2>3, SumSame
  <2>5. SumFunction(own) = SumFunctionOnSet(own, rows)
    BY <2>1, Zenon DEF SumFunction
  <2>6. QED
    BY <2>4, <2>5, Zenon DEF own
<1> HIDE DEF answer
<1>4. ASSUME NEW k \in DOMAIN answer.points
      PROVE  LET m == answer.points[k].month
                 month == MonthStart[m] .. LastOfMonth(m)
                 rows == {r \in q.rows : r.active /\ ((\E d \in month : CostsOn(r, d)) \/ EndsUnpaid(r, month))}
             IN /\ m = MonthOf(q.today) - q.months + k
                /\ answer.points[k].total = RoundTo(SumFunction([r \in rows |-> cost(r)]), Decimals[Target(q)])
  <2> DEFINE m == answer.points[k].month
             month == MonthStart[m] .. LastOfMonth(m)
             rows == {r \in q.rows : r.active /\ ((\E d \in month : CostsOn(r, d)) \/ EndsUnpaid(r, month))}
  <2>1. m = MonthOf(q.today) - q.months + k
        /\ answer.points[k].total
             = RoundTo(SumFunctionOnSet(Paid(q), HistoryRows(q, m)), Decimals[Target(q)])
    BY <1>1
  <2>2. rows = HistoryRows(q, m)
    BY Zenon DEF HistoryRows
  <2>3. rows \in SUBSET q.rows
    OBVIOUS
  <2> HIDE DEF rows
  <2>4. SumFunction([r \in rows |-> cost(r)]) = SumFunctionOnSet(Paid(q), rows)
    BY <1>3, <2>3
  <2>5. answer.points[k].total = RoundTo(SumFunction([r \in rows |-> cost(r)]), Decimals[Target(q)])
    BY <2>1, <2>2, <2>4, Zenon
  <2>6. QED
    BY <2>1, <2>5, Zenon DEF rows
<1>5. QED
  BY <1>1, <1>4, Zenon DEF IsHistory, answer

\* [EvolutionIsHistory] A month costs what the rows that cost on its days cost.
LEMMA EvolutionsAreHistory == TableInv /\ Computed => EvolutionIsHistory
<1> SUFFICES ASSUME TableInv, Computed, asked.op = "statistics" PROVE EvolutionIsHistory
  BY DEF EvolutionIsHistory
<1>1. PICK q \in StatQueries : asked = [op |-> "statistics", q |-> q,
         body |-> [series |-> GetCostEvolution(q), shares |-> GetRepartition(q)]]
  BY DEF Computed, NoQuery
<1>2. asked.q = q /\ asked.body.series = GetCostEvolution(q)
  BY <1>1
<1>3. ~GetCostEvolution(q).refused => IsHistory(asked.q, asked.body.series)
  BY <1>2, AnswerIsHistory
<1>4. QED
  BY <1>2, <1>3, Zenon DEF EvolutionIsHistory, IsHistory

\* Today's rows are among those of this month, when all of them have started.
LEMMA TodayInMonth ==
  ASSUME TableInv, NEW q \in StatQueries, Target(q) \in Currencies, \A r \in q.rows : r.first <= q.today
  PROVE  SumFunctionOnSet(Costs(Convertible(q), Target(q)), Convertible(q))
           <= SumFunctionOnSet(Paid(q), HistoryRows(q, MonthOf(q.today)))
<1> DEFINE m == MonthOf(q.today)
           R == Convertible(q)
           rows == HistoryRows(q, m)
           costs == Costs(R, Target(q))
           paid == Paid(q)
<1>1. q.today \in Days /\ m \in FirstMonth .. LastMonth /\ ArePriced(q.rows)
  BY MonthIs, StatisticsAssumption DEF StatisticsAssumption
<1>2. q.today \in MonthStart[m] .. LastOfMonth(m)
  <2>1. /\ DayOf(q.today) \in 0 .. MonthLength(m) - 1 /\ q.today = MonthStart[m] + DayOf(q.today)
        /\ MonthStart[m] \in Nat /\ MonthLength(m) \in 28 .. 31
    BY <1>1, MonthIs, MonthFacts, MonthOrder
  <2> HIDE DEF m
  <2>2. QED
    BY <2>1 DEF LastOfMonth
<1>3. /\ R \subseteq q.rows /\ IsFiniteSet(R)
      /\ \A r \in R : MonthlyInTarget(r, Target(q)) # {} /\ CostIn(r, Target(q)) \in Nat
  BY ConvertibleAre
<1>4. R \subseteq rows
  <2>1. SUFFICES ASSUME NEW r \in R PROVE r \in rows
    OBVIOUS
  <2>2. r \in q.rows /\ r.active /\ Chargeable(r, q.today)
    BY LiveAre DEF Convertible
  <2>3. r.first \in Nat /\ q.today \in Nat
    BY <1>1, <2>2, DateTypes DEF ArePriced, IsPriced
  <2>4. CostsOn(r, q.today)
    BY <2>2, <2>3 DEF CostsOn
  <2>5. QED
    BY <1>2, <2>2, <2>4 DEF HistoryRows
<1>5. Amounts(paid, rows)
  <2>1. rows \in SUBSET q.rows
    BY DEF HistoryRows
  <2>2. QED
    BY <2>1, PaidIs, SumPart
<1>6. \A r \in R : costs[r] = paid[r]
  BY <1>3 DEF Costs, Paid
<1>7. Amounts(costs, R)
  <2>1. \A r \in R : costs[r] = CostIn(r, Target(q))
    BY DEF Costs
  <2> HIDE DEF costs, R
  <2>2. QED
    BY <1>3, <2>1 DEF Amounts
<1> HIDE DEF R, rows, costs, paid
<1>8. SumFunctionOnSet(costs, R) = SumFunctionOnSet(paid, R)
  BY <1>6, <1>7, SumSame
<1>9. SumFunctionOnSet(paid, R) <= SumFunctionOnSet(paid, rows)
  BY <1>4, <1>5, SumPart
<1>10. QED
  BY <1>8, <1>9 DEF R, rows, costs, paid

\* A complete series leaves no row that does not convert.
LEMMA CompleteMeansAll ==
  ASSUME NEW q \in StatQueries, Cardinality(Spans(q)) = Cardinality(Active(q.rows))
  PROVE  Convertible(q) = LiveRows(q.rows, q.today)
<1> DEFINE A == Active(q.rows)
           kept == {x \in A : MonthlyInTarget(x, Target(q)) # {}}
           h == [r \in kept |-> [id |-> r.id, start |-> Start(r), end |-> r.end, monthly |-> CostIn(r, Target(q))]]
<1>1. IsFiniteSet(A) /\ kept \in SUBSET A
  <2>1. IsFiniteSet(q.rows)
    BY StatisticsAssumption DEF StatisticsAssumption, ArePriced
  <2>2. QED
    BY <2>1, FS_Subset DEF Active
<1>2. IsFiniteSet(kept) /\ Cardinality(kept) \in Nat /\ Cardinality(A) \in Nat
      /\ Cardinality(kept) <= Cardinality(A) /\ (Cardinality(kept) = Cardinality(A) => kept = A)
  <2> HIDE DEF kept, A
  <2>1. QED
    BY <1>1, FS_Subset, FS_CardinalityType
<1>3. h \in Surjection(kept, Spans(q))
  <2>1. Spans(q) = {h[r] : r \in kept}
    BY DEF Spans
  <2>2. h = [r \in kept |-> h[r]]
    OBVIOUS
  <2> HIDE DEF h, kept
  <2>3. h \in [kept -> Spans(q)] /\ \A s \in Spans(q) : \E r \in kept : h[r] = s
    BY <2>1, <2>2
  <2>4. QED
    BY <2>3 DEF Surjection
<1> HIDE DEF h, kept
<1>4. Cardinality(Spans(q)) <= Cardinality(kept)
  BY <1>2, <1>3, FS_Surjection
<1>5. kept = A
  BY <1>2, <1>4
<1>6. QED
  BY <1>5 DEF kept, Convertible, LiveRows

\* [StatisticsAgree] Today's total is no more than its month's, when all have
\* started; a complete series leaves no partial repartition.
LEMMA BothAgree == TableInv /\ Computed => StatisticsAgree
<1> SUFFICES ASSUME TableInv, Computed, asked.op = "statistics" PROVE StatisticsAgree
  BY DEF StatisticsAgree
<1>1. PICK q \in StatQueries : asked = [op |-> "statistics", q |-> q,
         body |-> [series |-> GetCostEvolution(q), shares |-> GetRepartition(q)]]
  BY DEF Computed, NoQuery
<1>2. asked.q = q /\ asked.body.series = GetCostEvolution(q) /\ asked.body.shares = GetRepartition(q)
  BY <1>1
<1> DEFINE series == GetCostEvolution(q)
           shares == GetRepartition(q)
           decimals == Decimals[Target(q)]
           today == SumFunctionOnSet(Costs(Convertible(q), Target(q)), Convertible(q))
           month == SumFunctionOnSet(Paid(q), HistoryRows(q, MonthOf(q.today)))
<1>3. ASSUME ~series.refused
      PROVE  /\ (\A r \in q.rows : r.first <= q.today) => shares.total <= series.points[q.months].total
             /\ series.complete => shares.complete
  <2>1. /\ q.months \in Nat \ {0} /\ Target(q) \in Currencies
        /\ series.complete <=> Cardinality(Spans(q)) = Cardinality(Active(q.rows))
        /\ \A k \in 1 .. q.months :
             series.points[k].total
               = RoundTo(SumFunctionOnSet(Paid(q), HistoryRows(q, MonthOf(q.today) - q.months + k)), decimals)
    BY <1>3, SeriesAre
  <2>2. shares = [total |-> RoundTo(SumTotals(Repartition(Slices(q, "category"))), decimals), refused |-> FALSE,
                  complete |-> Convertible(q) = LiveRows(q.rows, q.today),
                  byCategory |-> Entries(Repartition(Slices(q, "category")), q.categories, decimals),
                  byPayer |-> Entries(Repartition(Slices(q, "payer")), q.payers, decimals)]
    BY <2>1, Zenon DEF GetRepartition
  <2>3. Grain \div 10 ^ decimals \in Nat \ {0} /\ q.today \in Days
    BY <2>1, StatisticsAssumption DEF StatisticsAssumption
  <2>4. SumTotals(Repartition(Slices(q, "category"))) = today /\ today \in Nat
    <3> DEFINE S == Slices(q, "category")
    <3>1. AreSlices(S) /\ SumFunctionOnSet(Monthly(S), S) = today
      BY <2>1, SlicesAre
    <3> HIDE DEF S, today
    <3>2. SumTotals(Repartition(S)) = SumFunctionOnSet(Monthly(S), S) /\ SumFunctionOnSet(Monthly(S), S) \in Nat
      BY <2>3, <3>1, EntriesAre
    <3>3. QED
      BY <3>1, <3>2 DEF S
  <2>5. month \in Nat
    <3>1. HistoryRows(q, MonthOf(q.today)) \in SUBSET q.rows
      BY DEF HistoryRows
    <3>2. QED
      BY <2>1, <3>1, PaidIs, SumPart, SumNat
  <2>6. series.points[q.months].total = RoundTo(month, decimals)
    <3>1. MonthOf(q.today) \in Nat
      BY <2>3, MonthIs, MonthFacts
    <3>2. MonthOf(q.today) - q.months + q.months = MonthOf(q.today) /\ q.months \in 1 .. q.months
      BY <2>1, <3>1
    <3>3. series.points[q.months].total
            = RoundTo(SumFunctionOnSet(Paid(q), HistoryRows(q, MonthOf(q.today) - q.months + q.months)), decimals)
      BY <2>1, <3>2
    <3>4. QED
      BY <3>2, <3>3
  <2>7. (\A r \in q.rows : r.first <= q.today) => today <= month
    BY <2>1, TodayInMonth
  <2>8. series.complete => Convertible(q) = LiveRows(q.rows, q.today)
    BY <2>1, CompleteMeansAll
  <2> HIDE DEF today, month, series
  <2>9. shares.total = RoundTo(today, decimals) /\ (shares.complete <=> Convertible(q) = LiveRows(q.rows, q.today))
    <3> DEFINE total == RoundTo(SumTotals(Repartition(Slices(q, "category"))), decimals)
               whole == Convertible(q) = LiveRows(q.rows, q.today)
               byCategory == Entries(Repartition(Slices(q, "category")), q.categories, decimals)
               byPayer == Entries(Repartition(Slices(q, "payer")), q.payers, decimals)
    <3>1. shares = [total |-> total, refused |-> FALSE, complete |-> whole,
                    byCategory |-> byCategory, byPayer |-> byPayer]
      BY <2>2, Zenon
    <3> HIDE DEF shares, total, whole, byCategory, byPayer
    <3>2. shares.total = total /\ shares.complete = whole
      BY <3>1
    <3>3. QED
      BY <2>4, <3>2, Zenon DEF total, whole
  <2>10. today <= month => RoundTo(today, decimals) <= RoundTo(month, decimals)
    BY <2>3, <2>4, <2>5, RoundingRises
  <2>11. QED
    BY <2>6, <2>7, <2>8, <2>9, <2>10
<1>4. QED
  BY <1>2, <1>3, Zenon DEF StatisticsAgree

\* [StatisticsAreExact] Whatever the rates that were stored, the repartition
\* spreads today's rows over each axis, the series is what each month cost, and
\* the two agree.
THEOREM StatisticsExact == FiguresSpec => []StatisticsAreExact
<1>1. RatesInit => RatesInv
  BY TableInit, ComputedInit DEF RatesInv
<1>2. RatesInv /\ [FiguresNext]_rateVars => RatesInv'
  BY TableNext, ComputedNext DEF RatesInv
<1>3. RatesInv => StatisticsAreExact
  BY RepartitionsAddUp, EvolutionsAreHistory, BothAgree DEF RatesInv, StatisticsAreExact
<1>4. QED
  BY <1>1, <1>2, <1>3, PTL DEF FiguresSpec

-----------------------------------------------------------------------------
(* The order of a list. *)

\* Two texts agree on their first letters.
Agree(s, t, n) == \A j \in 1 .. n : s[j] = t[j]

\* The pieces of texts are equal when the texts agree there.
LEMMA PiecesAgree ==
  ASSUME NEW s \in Seq(Nat), NEW t \in Seq(Nat), NEW n \in Nat, n <= Len(s), n <= Len(t)
  PROVE  SubSeq(s, 1, n) = SubSeq(t, 1, n) <=> Agree(s, t, n)
<1>1. /\ SubSeq(s, 1, n) \in Seq(Nat) /\ Len(SubSeq(s, 1, n)) = n
      /\ \A j \in 1 .. n : SubSeq(s, 1, n)[j] = s[j]
  OBVIOUS
<1>2. /\ SubSeq(t, 1, n) \in Seq(Nat) /\ Len(SubSeq(t, 1, n)) = n
      /\ \A j \in 1 .. n : SubSeq(t, 1, n)[j] = t[j]
  OBVIOUS
<1> DEFINE a == SubSeq(s, 1, n)
           b == SubSeq(t, 1, n)
<1> HIDE DEF a, b
<1>3. a = b <=> \A j \in 1 .. n : a[j] = b[j]
  <2>1. a \in Seq(Nat) /\ b \in Seq(Nat) /\ Len(a) = n /\ Len(b) = n
    BY <1>1, <1>2 DEF a, b
  <2>2. QED
    BY <2>1
<1>4. QED
  BY <1>1, <1>2, <1>3 DEF Agree, a, b

\* A text is before another at the first letter where they differ, or as its start.
LEMMA BeforeIs ==
  ASSUME NEW s \in Seq(Nat), NEW t \in Seq(Nat)
  PROVE  Before(s, t) <=> \/ Len(s) < Len(t) /\ Agree(s, t, Len(s))
                          \/ \E i \in 1 .. Len(s) : i <= Len(t) /\ s[i] < t[i] /\ Agree(s, t, i - 1)
<1>1. Len(s) \in Nat /\ Len(t) \in Nat /\ DOMAIN s = 1 .. Len(s) /\ DOMAIN t = 1 .. Len(t)
  OBVIOUS
<1>2. IsStrictPrefix(s, t) <=> Len(s) < Len(t) /\ Agree(s, t, Len(s))
  <2>1. Len(s) <= Len(t) => (SubSeq(s, 1, Len(s)) = SubSeq(t, 1, Len(s)) <=> Agree(s, t, Len(s)))
    <3>1. \A n \in Nat : n <= Len(s) /\ n <= Len(t) => (SubSeq(s, 1, n) = SubSeq(t, 1, n) <=> Agree(s, t, n))
      BY PiecesAgree
    <3>2. Len(s) <= Len(s)
      BY <1>1
    <3>3. QED
      BY <1>1, <3>1, <3>2
  <2>2. ASSUME Len(s) = Len(t), Agree(s, t, Len(s)) PROVE s = t
    <3>1. \A j \in 1 .. Len(s) : s[j] = t[j]
      BY <2>2 DEF Agree
    <3>2. QED
      BY <1>1, <2>2, <3>1
  <2>3. IsStrictPrefix(s, t) <=> (Len(s) <= Len(t) /\ SubSeq(s, 1, Len(s)) = SubSeq(t, 1, Len(s))) /\ s # t
    BY Zenon DEF IsStrictPrefix, IsPrefix
  <2>4. s # t /\ Len(s) <= Len(t) /\ Agree(s, t, Len(s)) => Len(s) < Len(t)
    <3>1. ASSUME s # t, Agree(s, t, Len(s)) PROVE Len(s) # Len(t)
      BY <2>2, <3>1
    <3>2. \A a, b \in Nat : a <= b /\ a # b => a < b
      OBVIOUS
    <3>3. QED
      BY <1>1, <3>1, <3>2, Zenon
  <2>5. Len(s) < Len(t) => s # t /\ Len(s) <= Len(t)
    BY <1>1
  <2>6. QED
    BY <2>1, <2>3, <2>4, <2>5
<1>3. \A i \in 1 .. Len(s) : i <= Len(t) => (SubSeq(s, 1, i - 1) = SubSeq(t, 1, i - 1) <=> Agree(s, t, i - 1))
  <2>1. SUFFICES ASSUME NEW i \in 1 .. Len(s), i <= Len(t)
                 PROVE  SubSeq(s, 1, i - 1) = SubSeq(t, 1, i - 1) <=> Agree(s, t, i - 1)
    OBVIOUS
  <2>2. i - 1 \in Nat /\ i - 1 <= Len(s) /\ i - 1 <= Len(t)
    BY <1>1, <2>1
  <2>3. QED
    BY <2>2, PiecesAgree
<1>4. Before(s, t) <=> \/ IsStrictPrefix(s, t)
                      \/ \E i \in 1 .. Len(s) : i \in 1 .. Len(t) /\ s[i] < t[i] /\ SubSeq(s, 1, i - 1) = SubSeq(t, 1, i - 1)
  BY <1>1, Zenon DEF Before
<1>5. \A i \in 1 .. Len(s) : i \in 1 .. Len(t) <=> i <= Len(t)
  BY <1>1
<1>6. QED
  BY <1>2, <1>3, <1>4, <1>5, Zenon

\* The order of the texts is strict and total.
LEMMA BeforeOrders ==
  /\ \A s \in Seq(Nat) : ~Before(s, s)
  /\ \A s, t, u \in Seq(Nat) : Before(s, t) /\ Before(t, u) => Before(s, u)
  /\ \A s, t \in Seq(Nat) : s # t => Before(s, t) \/ Before(t, s)
<1>0. \A s \in Seq(Nat) : Len(s) \in Nat /\ \A i \in 1 .. Len(s) : s[i] \in Nat
  OBVIOUS
<1>1. ASSUME NEW s \in Seq(Nat) PROVE ~Before(s, s)
  BY <1>0, BeforeIs
<1>2. ASSUME NEW s \in Seq(Nat), NEW t \in Seq(Nat), NEW u \in Seq(Nat), Before(s, t), Before(t, u)
      PROVE  Before(s, u)
  <2>1. \/ Len(s) < Len(t) /\ Agree(s, t, Len(s))
        \/ \E i \in 1 .. Len(s) : i <= Len(t) /\ s[i] < t[i] /\ Agree(s, t, i - 1)
    BY <1>2, BeforeIs
  <2>2. \/ Len(t) < Len(u) /\ Agree(t, u, Len(t))
        \/ \E i \in 1 .. Len(t) : i <= Len(u) /\ t[i] < u[i] /\ Agree(t, u, i - 1)
    BY <1>2, BeforeIs
  <2>3. \/ Len(s) < Len(u) /\ Agree(s, u, Len(s))
        \/ \E i \in 1 .. Len(s) : i <= Len(u) /\ s[i] < u[i] /\ Agree(s, u, i - 1)
    <3>1. CASE Len(s) < Len(t) /\ Agree(s, t, Len(s))
      <4>1. CASE Len(t) < Len(u) /\ Agree(t, u, Len(t))
        BY <1>0, <3>1, <4>1 DEF Agree
      <4>2. CASE \E i \in 1 .. Len(t) : i <= Len(u) /\ t[i] < u[i] /\ Agree(t, u, i - 1)
        <5>1. PICK i \in 1 .. Len(t) : i <= Len(u) /\ t[i] < u[i] /\ Agree(t, u, i - 1)
          BY <4>2
        <5>2. CASE i <= Len(s)
          <6>1. s[i] = t[i] /\ i \in 1 .. Len(s) /\ Agree(s, u, i - 1)
            BY <1>0, <3>1, <5>1, <5>2 DEF Agree
          <6>2. QED
            BY <5>1, <6>1
        <5>3. CASE i > Len(s)
          <6>1. Len(s) < Len(u) /\ Agree(s, u, Len(s))
            BY <1>0, <3>1, <5>1, <5>3 DEF Agree
          <6>2. QED
            BY <6>1
        <5>4. QED
          BY <1>0, <5>2, <5>3
      <4>3. QED
        BY <2>2, <4>1, <4>2
    <3>2. CASE \E i \in 1 .. Len(s) : i <= Len(t) /\ s[i] < t[i] /\ Agree(s, t, i - 1)
      <4>0. PICK i \in 1 .. Len(s) : i <= Len(t) /\ s[i] < t[i] /\ Agree(s, t, i - 1)
        BY <3>2
      <4>1. CASE Len(t) < Len(u) /\ Agree(t, u, Len(t))
        <5>1. t[i] = u[i] /\ i <= Len(u) /\ Agree(s, u, i - 1)
          BY <1>0, <4>0, <4>1 DEF Agree
        <5>2. QED
          BY <4>0, <5>1
      <4>2. CASE \E k \in 1 .. Len(t) : k <= Len(u) /\ t[k] < u[k] /\ Agree(t, u, k - 1)
        <5>1. PICK k \in 1 .. Len(t) : k <= Len(u) /\ t[k] < u[k] /\ Agree(t, u, k - 1)
          BY <4>2
        <5>2. CASE k < i
          <6>1. s[k] = t[k] /\ k \in 1 .. Len(s) /\ Agree(s, u, k - 1)
            <7>1. /\ Len(s) \in Nat /\ i \in Nat /\ k \in 1 .. i - 1 /\ i <= Len(s)
                  /\ \A j \in 1 .. k - 1 : j \in 1 .. i - 1
              BY <1>0, <4>0, <5>1, <5>2
            <7>2. \A j \in 1 .. i - 1 : s[j] = t[j]
              BY <4>0 DEF Agree
            <7>3. \A j \in 1 .. k - 1 : t[j] = u[j]
              BY <5>1 DEF Agree
            <7>4. QED
              BY <7>1, <7>2, <7>3 DEF Agree
          <6>2. QED
            BY <5>1, <6>1
        <5>3. CASE k >= i
          <6>1. i <= Len(u) /\ s[i] < u[i] /\ Agree(s, u, i - 1)
            <7>1. /\ Len(s) \in Nat /\ Len(t) \in Nat /\ Len(u) \in Nat /\ i \in Nat /\ k \in Nat
                  /\ i \in 1 .. Len(s) /\ i \in 1 .. Len(t) /\ i \in 1 .. Len(u) /\ i <= Len(u)
              BY <1>0, <4>0, <5>1, <5>3
            <7>2. s[i] \in Nat /\ t[i] \in Nat /\ u[i] \in Nat
              BY <1>0, <7>1
            <7>3. \A j \in 1 .. k - 1 : t[j] = u[j]
              BY <5>1 DEF Agree
            <7>4. t[i] <= u[i]
              <8>1. CASE k = i
                BY <5>1, <7>2, <8>1
              <8>2. CASE k # i
                <9>1. i \in 1 .. k - 1
                  BY <5>3, <7>1, <8>2
                <9>2. QED
                  BY <7>2, <7>3, <9>1
              <8>3. QED
                BY <8>1, <8>2
            <7>5. Agree(s, u, i - 1)
              <8>1. \A j \in 1 .. i - 1 : s[j] = t[j]
                BY <4>0 DEF Agree
              <8>2. \A j \in 1 .. i - 1 : j \in 1 .. k - 1
                BY <5>3, <7>1
              <8>3. QED
                BY <7>3, <8>1, <8>2 DEF Agree
            <7>6. s[i] < u[i]
              <8>1. s[i] < t[i]
                BY <4>0, Zenon
              <8>2. \A a, b, c \in Nat : a < b /\ b <= c => a < c
                OBVIOUS
              <8>3. QED
                BY <7>2, <7>4, <8>1, <8>2, Zenon
            <7>7. QED
              BY <7>1, <7>5, <7>6
          <6>2. QED
            BY <4>0, <6>1
        <5>4. QED
          BY <5>2, <5>3
      <4>3. QED
        BY <2>2, <4>1, <4>2
    <3>3. QED
      BY <2>1, <3>1, <3>2
  <2>4. QED
    BY <2>3, BeforeIs
<1>3. ASSUME NEW s \in Seq(Nat), NEW t \in Seq(Nat), s # t PROVE Before(s, t) \/ Before(t, s)
  <2> DEFINE Differ == {i \in Nat : i \in 1 .. Len(s) /\ i <= Len(t) /\ s[i] # t[i]}
  <2>1. CASE Differ = {}
    <3>1. \A i \in 1 .. Len(s) : i <= Len(t) => s[i] = t[i]
      BY <1>0, <2>1
    <3>2. CASE Len(s) = Len(t)
      <4>1. s = t
        <5>1. s = [i \in 1 .. Len(s) |-> s[i]] /\ t = [i \in 1 .. Len(t) |-> t[i]]
          OBVIOUS
        <5>2. \A i \in 1 .. Len(s) : s[i] = t[i]
          BY <1>0, <3>1, <3>2
        <5>3. [i \in 1 .. Len(s) |-> s[i]] = [i \in 1 .. Len(t) |-> t[i]]
          BY <3>2, <5>2, Zenon
        <5>4. QED
          BY <5>1, <5>3, Zenon
      <4>2. QED
        BY <1>3, <4>1
    <3>3. CASE Len(s) < Len(t)
      <4>1. Agree(s, t, Len(s))
        BY <1>0, <3>1, <3>3 DEF Agree
      <4>2. QED
        BY <3>3, <4>1, BeforeIs
    <3>4. CASE Len(t) < Len(s)
      <4>1. Agree(t, s, Len(t))
        BY <1>0, <3>1, <3>4 DEF Agree
      <4>2. QED
        BY <3>4, <4>1, BeforeIs
    <3>5. QED
      BY <1>0, <3>2, <3>3, <3>4
  <2>2. CASE Differ # {}
    <3>1. PICK i \in Differ : \A j \in Differ : ~(j < i)
      <4>1. Differ \in SUBSET Nat
        OBVIOUS
      <4> HIDE DEF Differ
      <4>2. QED
        BY <2>2, <4>1, Least
    <3>2. /\ i \in 1 .. Len(s) /\ i \in 1 .. Len(t) /\ s[i] # t[i] /\ s[i] \in Nat /\ t[i] \in Nat
          /\ i <= Len(s) /\ i <= Len(t)
      BY <1>0
    <3>3. Agree(s, t, i - 1) /\ Agree(t, s, i - 1)
      <4>1. \A j \in 1 .. i - 1 : s[j] = t[j]
        <5>1. SUFFICES ASSUME NEW j \in 1 .. i - 1, s[j] # t[j] PROVE FALSE
          OBVIOUS
        <5>2. j \in Nat /\ j \in 1 .. Len(s) /\ j <= Len(t) /\ j < i
          BY <1>0, <3>2
        <5>3. j \in Differ
          BY <5>1, <5>2
        <5> HIDE DEF Differ
        <5>4. QED
          BY <3>1, <5>2, <5>3
      <4>2. QED
        BY <4>1 DEF Agree
    <3>4. s[i] < t[i] \/ t[i] < s[i]
      BY <3>2
    <3>5. QED
      BY <3>2, <3>3, <3>4, BeforeIs
  <2>3. QED
    BY <2>1, <2>2
<1>4. QED
  BY <1>1, <1>2, <1>3

\* A list may hold an item: an identifier, a folded name, a date and a cost or none.
AnItem(x) ==
  /\ x.id \in Nat /\ x.folded \in Seq(Nat)
  /\ x.due \in Nat \cup {None} /\ x.cost \in Nat \cup {None}

\* Under each criterion the order of the items is strict, and total by their identifiers.
LEMMA PrecedesOrders ==
  ASSUME NEW c
  PROVE  /\ \A p : AnItem(p) => ~Precedes(c, p, p)
         /\ \A p, r, s : AnItem(p) /\ AnItem(r) /\ AnItem(s) /\ Precedes(c, p, r) /\ Precedes(c, r, s)
                           => Precedes(c, p, s)
         /\ \A p, r : AnItem(p) /\ AnItem(r) /\ p.id # r.id => Precedes(c, p, r) \/ Precedes(c, r, p)
<1> DEFINE first(a, b) == \/ c = "amount" /\ a.cost # None /\ (b.cost = None \/ a.cost > b.cost)
                          \/ c = "next_due" /\ NoneLast(a.due, b.due)
<1>1. None \notin Int
  BY DateTypes
<1>2. /\ \A p : AnItem(p) => ~first(p, p)
      /\ \A p, r, s : AnItem(p) /\ AnItem(r) /\ AnItem(s) =>
           /\ first(p, r) /\ first(r, s) => first(p, s)
           /\ ~first(r, p) /\ ~first(s, r) => ~first(s, p)
  <2>1. CASE c = "amount"
    BY <1>1, <2>1 DEF AnItem
  <2>2. CASE c = "next_due"
    BY <1>1, <2>2 DEF AnItem, NoneLast
  <2>3. QED
    BY <2>1, <2>2
<1>3. /\ \A p : AnItem(p) => ~ByName(p, p)
      /\ \A p, r, s : AnItem(p) /\ AnItem(r) /\ AnItem(s) /\ ByName(p, r) /\ ByName(r, s) => ByName(p, s)
      /\ \A p, r : AnItem(p) /\ AnItem(r) /\ p.id # r.id => ByName(p, r) \/ ByName(r, p)
  <2>1. ASSUME NEW p, AnItem(p) PROVE ~ByName(p, p)
    BY <2>1, BeforeOrders DEF AnItem, ByName
  <2>2. ASSUME NEW p, NEW r, NEW s, AnItem(p), AnItem(r), AnItem(s), ByName(p, r), ByName(r, s)
        PROVE  ByName(p, s)
    BY <2>2, BeforeOrders DEF AnItem, ByName
  <2>3. ASSUME NEW p, NEW r, AnItem(p), AnItem(r), p.id # r.id PROVE ByName(p, r) \/ ByName(r, p)
    BY <2>3, BeforeOrders DEF AnItem, ByName
  <2>4. QED
    BY <2>1, <2>2, <2>3
<1>4. \A p, r : Precedes(c, p, r) <=> first(p, r) \/ (~first(r, p) /\ ByName(p, r))
  BY Zenon DEF Precedes
<1> HIDE DEF first
<1>5. ASSUME NEW p, AnItem(p) PROVE ~Precedes(c, p, p)
  BY <1>2, <1>3, <1>4, <1>5
<1>6. ASSUME NEW p, NEW r, NEW s, AnItem(p), AnItem(r), AnItem(s), Precedes(c, p, r), Precedes(c, r, s)
      PROVE  Precedes(c, p, s)
  <2>1. CASE first(p, r) /\ first(r, s)
    BY <1>2, <1>4, <1>6, <2>1
  <2>2. CASE first(p, r) /\ ~first(s, r)
    \* were s first or level with p, it would be so with r
    <3>1. ~first(s, p)
      BY <1>2, <1>6, <2>2
    <3>2. first(p, s)
      <4>1. ~first(p, s) /\ ~first(s, r) => ~first(p, r)
        BY <1>2, <1>6
      <4>2. QED
        BY <2>2, <4>1
    <3>3. QED
      BY <1>4, <3>2
  <2>3. CASE ~first(r, p) /\ first(r, s)
    <3>1. first(p, s)
      <4>1. ~first(p, s) /\ ~first(r, p) => ~first(r, s)
        BY <1>2, <1>6
      <4>2. QED
        BY <2>3, <4>1
    <3>2. QED
      BY <1>4, <3>1
  <2>4. CASE ~first(p, r) /\ ~first(r, p) /\ ~first(r, s) /\ ~first(s, r)
    <3>1. ByName(p, r) /\ ByName(r, s)
      BY <1>4, <1>6, <2>4
    <3>2. ByName(p, s)
      BY <1>3, <1>6, <3>1
    <3>3. ~first(s, p)
      BY <1>2, <1>6, <2>4
    <3>4. QED
      BY <1>4, <3>2, <3>3
  <2>5. QED
    BY <1>2, <1>4, <1>6, <2>1, <2>2, <2>3, <2>4
<1>7. ASSUME NEW p, NEW r, AnItem(p), AnItem(r), p.id # r.id PROVE Precedes(c, p, r) \/ Precedes(c, r, p)
  BY <1>3, <1>4, <1>7
<1>8. QED
  BY <1>5, <1>6, <1>7

-----------------------------------------------------------------------------
(* The texts, and the items of a list. *)

\* A text folds to a text of letters that fold to themselves, and so to itself.
LEMMA FoldingHolds ==
  ASSUME NEW text \in Seq(DOMAIN Folding)
  PROVE  /\ FoldForSearch(text) \in Seq(DOMAIN Folding) /\ FoldForSearch(text) \in Seq(Nat)
         /\ FoldForSearch(FoldForSearch(text)) = FoldForSearch(text)
<1> DEFINE Letters == DOMAIN Folding
           Fixed == {c \in Letters : Folding[c] = <<c>>}
           f == FoldForSearch(text)
           parts == [i \in DOMAIN text |-> Folding[text[i]]]
<1>1. /\ Folding \in Seq(Seq(Letters)) /\ Letters = 1 .. Len(Folding) /\ Len(Folding) \in Nat
      /\ \A c \in Letters : \A i \in DOMAIN Folding[c] : Folding[Folding[c][i]] = <<Folding[c][i]>>
  BY ListingAssumption DEF ListingAssumption
<1>2. Letters \subseteq Nat
  BY <1>1
<1>3. \A c \in Letters : Folding[c] \in Seq(Letters)
  <2>1. \A A : \A t \in Seq(A) : \A k \in DOMAIN t : t[k] \in A
    OBVIOUS
  <2>2. QED
    BY <1>1, <2>1, Zenon
<1>4. \A c \in Letters : Folding[c] \in Seq(Fixed)
  <2>1. SUFFICES ASSUME NEW c \in Letters PROVE Folding[c] \in Seq(Fixed)
    OBVIOUS
  <2> DEFINE t == Folding[c]
  <2>2. t \in Seq(Letters) /\ \A i \in DOMAIN t : t[i] \in Letters
    <3>1. \A A : \A u \in Seq(A) : \A k \in DOMAIN u : u[k] \in A
      OBVIOUS
    <3>2. QED
      BY <1>3, <3>1, Zenon
  <2>3. \A i \in DOMAIN t : t[i] \in Fixed
    BY <1>1, <2>2
  <2> HIDE DEF t, Fixed, Letters
  <2>4. Len(t) \in Nat /\ DOMAIN t = 1 .. Len(t) /\ t = [i \in 1 .. Len(t) |-> t[i]]
    BY <2>2
  <2>5. t \in Seq(Fixed)
    BY <2>3, <2>4
  <2>6. QED
    BY <2>5 DEF t
<1>5. Len(text) \in Nat /\ DOMAIN text = 1 .. Len(text) /\ \A i \in DOMAIN text : text[i] \in Letters
  <2>1. \A A : \A t \in Seq(A) : \A k \in DOMAIN t : t[k] \in A
    OBVIOUS
  <2>2. \A i \in DOMAIN text : text[i] \in Letters
    BY <2>1, Zenon
  <2>3. QED
    BY <2>2
<1>6. parts \in Seq(Seq(Fixed))
  <2>1. \A i \in 1 .. Len(text) : parts[i] \in Seq(Fixed)
    BY <1>4, <1>5
  <2>2. parts = [i \in 1 .. Len(text) |-> parts[i]]
    BY <1>5
  <2> HIDE DEF parts, Fixed
  <2>3. QED
    BY <1>5, <2>1, <2>2
<1>7. f = FlattenSeq(parts)
  BY Zenon DEF FoldForSearch
<1>8. f \in Seq(Fixed)
  <2> HIDE DEF parts, Fixed, f
  <2>1. QED
    BY <1>6, <1>7, FlattenIn
<1>9. Fixed \subseteq Letters /\ Fixed \subseteq Nat
  BY <1>2
<1>10. Len(f) \in Nat /\ DOMAIN f = 1 .. Len(f) /\ \A i \in DOMAIN f : f[i] \in Fixed
  <2>1. \A A : \A t \in Seq(A) : \A k \in DOMAIN t : t[k] \in A
    OBVIOUS
  <2>2. \A i \in DOMAIN f : f[i] \in Fixed
    BY <1>8, <2>1, Zenon
  <2> HIDE DEF f, Fixed
  <2>3. QED
    BY <1>8, <2>2
<1>11. f \in Seq(Letters) /\ f \in Seq(Nat)
  <2>1. f = [i \in 1 .. Len(f) |-> f[i]]
    <3> HIDE DEF f, Fixed
    <3>1. QED
      BY <1>8
  <2> HIDE DEF f, Fixed, Letters
  <2>2. QED
    BY <1>9, <1>10, <2>1
<1>12. FoldForSearch(f) = f
  <2> DEFINE again == [i \in DOMAIN f |-> Folding[f[i]]]
  <2>1. \A i \in DOMAIN f : Folding[f[i]] = <<f[i]>>
    BY <1>10
  <2>2. again = [i \in DOMAIN f |-> <<f[i]>>]
    <3> HIDE DEF f
    <3>1. QED
      BY <2>1
  <2>3. FoldForSearch(f) = FlattenSeq(again)
    BY Zenon DEF FoldForSearch
  <2> HIDE DEF again, f, Fixed
  <2>4. QED
    BY <1>8, <2>2, <2>3, FlattenSingles
<1>13. QED
  BY <1>11, <1>12

\* A text is part of itself.
LEMMA WholeIsPart ==
  ASSUME NEW f \in Seq(Nat)
  PROVE  f = <<>> \/ HasPart(f, f)
<1>1. Len(f) \in Nat /\ SubSeq(f, 1, Len(f)) = f /\ IsPrefix(f, f)
  BY DEF IsPrefix
<1>2. f # <<>> => 1 \in 1 .. Len(f)
  OBVIOUS
<1>3. QED
  BY <1>1, <1>2 DEF HasPart

\* [FoundByItsName] A row is found by its name and by what the name folds to.
LEMMA RowsAreFound == Computed => FoundByItsName
<1> SUFFICES ASSUME Computed, asked.op = "list", NEW r \in Filtered(asked.q),
                    NEW words \in {r.name, FoldForSearch(r.name)}
             PROVE  r \in Shown(asked.q, words)
  BY DEF FoundByItsName
<1>1. PICK q \in ListQueries : asked = [op |-> "list", q |-> q,
         body |-> [c \in Criteria |-> ListSubscriptions(q, c)]]
  BY DEF Computed, NoQuery
<1>2. r \in q.rows
  BY <1>1 DEF Filtered
<1>3. r.name \in Seq(DOMAIN Folding)
  BY <1>2, ListingAssumption DEF ListingAssumption
<1> DEFINE f == FoldForSearch(r.name)
<1>4. f \in Seq(Nat) /\ FoldForSearch(f) = f
  BY <1>3, FoldingHolds
<1>5. FoldForSearch(words) = f
  BY <1>4
<1> HIDE DEF f
<1>6. f = <<>> \/ HasPart(f, f)
  BY <1>4, WholeIsPart
<1>7. MatchesSearch(r.name, words)
  BY <1>5, <1>6 DEF MatchesSearch, f
<1>8. QED
  BY <1>7 DEF Shown

\* The item of a row under a criterion, and the items of the rows that are shown.
ItemOf(q, sort, r) ==
  [id |-> r.id, folded |-> FoldForSearch(r.name), due |-> NextPayment(r, q.today),
   cost |-> IF SortCriterion(sort) = "amount"
            THEN MonthlyInReference(r, Target(q), RatesFor(ActiveAmounts(Shown(q, q.search), q.today), SortCriterion(sort)))
            ELSE None]

\* The items of the rows that are shown.
ItemsOf(q, sort) == {ItemOf(q, sort, r) : r \in Shown(q, q.search)}

\* Their order under the criterion.
ItemOrder(q, sort) ==
  {pair \in ItemsOf(q, sort) \X ItemsOf(q, sort) : Precedes(SortCriterion(sort), pair[1], pair[2])}

\* What the list answers, part by part.
LEMMA ListIs ==
  ASSUME NEW q, NEW sort, Target(q) \in Currencies
  PROVE  LET amounts == ActiveAmounts(Shown(q, q.search), q.today)
         IN ListSubscriptions(q, sort)
              = [refused |-> FALSE, items |-> Sorted(ItemsOf(q, sort), ItemOrder(q, sort)),
                 total |-> AggregateConverted(amounts, Target(q), RatesFor(amounts, SortCriterion(sort)))]
  BY Zenon DEF ListSubscriptions, ItemOf, ItemsOf, ItemOrder

\* What a row costs a month in the reference is a number, or nothing.
LEMMA MonthlyIs ==
  ASSUME TableInv, NEW r, IsPriced(r), NEW target \in Currencies
  PROVE  MonthlyInReference(r, target, LoadRateTable) \in Nat \cup {None}
<1>1. CASE ~IsMoney(r) \/ ~Stored(r)
  BY <1>1, Zenon DEF MonthlyInReference
<1>2. CASE IsMoney(r) /\ Stored(r)
  <2> DEFINE cost == RoundTo(MonthlyCost(r.amount, r.unit, r.interval), Decimals[r.currency])
             m == [amount |-> cost, currency |-> r.currency]
             converted == ConvertDated(m, target, LoadRateTable)
  <2>1. r.amount \in Nat /\ r.interval \in Nat \ {0} /\ r.currency \in Currencies
    BY <1>2 DEF IsPriced, IsMoney, Stored, IsCycle
  <2>2. MonthlyCost(r.amount, r.unit, r.interval) \in Nat
    BY <2>1, MonthlyCostNat
  <2>3. cost \in Nat
    <3>1. Grain \div 10 ^ Decimals[r.currency] \in Nat \ {0}
      BY <2>1, StatisticsAssumption DEF StatisticsAssumption
    <3>2. QED
      BY <2>2, <3>1, Rounding
  <2> HIDE DEF cost
  <2>4. m.currency \in Currencies /\ m.amount \in Nat
    BY <2>1, <2>3
  <2>5. MonthlyInReference(r, target, LoadRateTable)
          = IF converted = {} THEN None ELSE (CHOOSE c \in converted : TRUE).amount
    BY <1>2, Zenon DEF MonthlyInReference, cost
  <2> HIDE DEF m
  <2>6. /\ RateOf(m, target).rate \in Nat
        /\ converted = IF RateOf(m, target).rate > 0
                       THEN {[amount |-> m.amount * RateOf(m, target).rate, asOf |-> RateOf(m, target).asOf]} ELSE {}
    BY <2>4, ConvertsAtNewest
  <2> DEFINE x == m.amount * RateOf(m, target).rate
             y == RateOf(m, target).asOf
  <2>7. x \in Nat
    BY <2>4, <2>6
  <2>8. converted = {} \/ converted = {[amount |-> x, asOf |-> y]}
    BY <2>6
  <2> HIDE DEF x, y, converted
  <2>9. converted # {} => (CHOOSE c \in converted : TRUE).amount = x
    BY <2>8
  <2>10. QED
    BY <2>5, <2>7, <2>9
<1>3. QED
  BY <1>1, <1>2

\* The items of a list can be sorted: finitely many, in a strict order.
LEMMA ItemsAre ==
  ASSUME TableInv, NEW q \in ListQueries, Target(q) \in Currencies, NEW sort
  PROVE  /\ IsFiniteSet(ItemsOf(q, sort)) /\ \A x \in ItemsOf(q, sort) : AnItem(x)
         /\ StrictOrder(ItemOrder(q, sort), ItemsOf(q, sort))
<1> DEFINE rows == Shown(q, q.search)
           S == ItemsOf(q, sort)
           c == SortCriterion(sort)
           item(r) == ItemOf(q, sort, r)
<1>1. /\ ArePriced(q.rows) /\ IsHouse(q.rows) /\ q.today \in Days /\ rows \subseteq q.rows
      /\ \A r \in q.rows : r.name \in Seq(DOMAIN Folding)
  BY ListingAssumption DEF ListingAssumption, Shown, Filtered
<1>2. IsFiniteSet(rows)
  BY <1>1, FS_Subset DEF ArePriced
<1> HIDE DEF rows
<1>3. IsFiniteSet(S)
  <2> DEFINE h == [r \in rows |-> item(r)]
  <2>1. h = [r \in rows |-> h[r]] /\ \A x \in S : \E r \in rows : x = h[r]
    BY DEF ItemsOf, rows
  <2> HIDE DEF h
  <2>2. QED
    BY <1>2, <2>1, FiniteImage
<1>4. ASSUME NEW r \in rows
      PROVE  AnItem(item(r)) /\ item(r).id = r.id
  <2> DEFINE cost == IF c = "amount" THEN MonthlyInReference(r, Target(q), RatesFor(ActiveAmounts(rows, q.today), c))
                     ELSE None
             folded == FoldForSearch(r.name)
             due == NextPayment(r, q.today)
  <2>1. IsPriced(r) /\ IsRow(r) /\ r.name \in Seq(DOMAIN Folding) /\ r.id \in Nat
    BY <1>1 DEF ArePriced, IsHouse, IsRow
  <2>2. folded \in Seq(Nat)
    BY <2>1, FoldingHolds
  <2>3. due \in Nat \cup {None}
    <3>1. due # None => due \in Days
      BY <1>1, <2>1, NextPaymentIs
    <3>2. QED
      BY <3>1, DateIs
  <2>4. cost \in Nat \cup {None}
    <3>1. CASE c = "amount"
      <4>1. RatesFor(ActiveAmounts(rows, q.today), c) = LoadRateTable
        BY <3>1 DEF RatesFor
      <4>2. cost = MonthlyInReference(r, Target(q), LoadRateTable)
        BY <3>1, <4>1
      <4>3. QED
        BY <2>1, <4>2, MonthlyIs
    <3>2. CASE c # "amount"
      BY <3>2
    <3>3. QED
      BY <3>1, <3>2
  <2>5. item(r) = [id |-> r.id, folded |-> folded, due |-> due, cost |-> cost]
    BY Zenon DEF ItemOf, rows
  <2> HIDE DEF folded, due, cost, item
  <2>6. QED
    BY <2>1, <2>2, <2>3, <2>4, <2>5 DEF AnItem
<1>5. \A x \in S : \E r \in rows : x = item(r)
  BY DEF ItemsOf, rows
<1>6. \A r, p \in rows : r.id = p.id => r = p
  BY <1>1 DEF ArePriced
<1> DEFINE order == ItemOrder(q, sort)
<1>7. \A x, y \in S : <<x, y>> \in order <=> Precedes(c, x, y)
  BY DEF ItemOrder
<1> HIDE DEF S, item, c, order
<1>8. \A x \in S : AnItem(x)
  BY <1>4, <1>5
<1>9. \A x, y \in S : x.id = y.id => x = y
  BY <1>4, <1>5, <1>6
<1>10. StrictOrder(order, S)
  <2>1. \A x \in S : <<x, x>> \notin order
    BY <1>7, <1>8, PrecedesOrders
  <2>2. \A x, y, z \in S : <<x, y>> \in order /\ <<y, z>> \in order => <<x, z>> \in order
    BY <1>7, <1>8, PrecedesOrders
  <2>3. \A x, y \in S : x # y => <<x, y>> \in order \/ <<y, x>> \in order
    BY <1>7, <1>8, <1>9, PrecedesOrders
  <2>4. QED
    BY <2>1, <2>2, <2>3 DEF StrictOrder
<1>11. QED
  BY <1>3, <1>8, <1>10 DEF S, order

\* The items of a list: all that are shown, each before those after it.
LEMMA ListHolds ==
  ASSUME TableInv, NEW q \in ListQueries, Target(q) \in Currencies, NEW sort
  PROVE  LET items == ListSubscriptions(q, sort).items
         IN /\ \A i \in DOMAIN items : items[i] \in ItemsOf(q, sort) /\ AnItem(items[i])
            /\ \A x \in ItemsOf(q, sort) : \E i \in DOMAIN items : items[i] = x
            /\ \A i, j \in DOMAIN items : i \in Nat /\ (i < j => Precedes(SortCriterion(sort), items[i], items[j]))
<1> DEFINE items == ListSubscriptions(q, sort).items
           S == ItemsOf(q, sort)
           R == ItemOrder(q, sort)
           n == Cardinality(S)
<1>1. IsFiniteSet(S) /\ (\A x \in S : AnItem(x)) /\ StrictOrder(R, S)
  BY ItemsAre
<1>2. items = Sorted(S, R)
  <2>1. items = [refused |-> FALSE, items |-> Sorted(S, R),
                 total |-> AggregateConverted(ActiveAmounts(Shown(q, q.search), q.today), Target(q),
                    RatesFor(ActiveAmounts(Shown(q, q.search), q.today), SortCriterion(sort)))].items
    BY ListIs
  <2> HIDE DEF S, R, items
  <2>2. QED
    BY <2>1
<1>3. \A x, y : <<x, y>> \in R => Precedes(SortCriterion(sort), x, y)
  BY DEF ItemOrder
<1> HIDE DEF S, R, items
<1>4. /\ n \in Nat /\ items \in [1 .. n -> S]
      /\ \A i, j \in 1 .. n : i < j => <<items[i], items[j]>> \in R
      /\ \A x \in S : \E k \in 1 .. n : items[k] = x
  BY <1>1, <1>2, SortedInOrder
<1> HIDE DEF n
<1>5. DOMAIN items = 1 .. n /\ \A i \in 1 .. n : items[i] \in S /\ i \in Nat
  BY <1>4
<1>6. QED
  BY <1>1, <1>3, <1>4, <1>5 DEF S, items

\* What the property says of the items of a list under a criterion.
ItemsInOrder(criterion, items) ==
  LET key(item) == IF criterion = "amount" THEN item.cost ELSE item.due
  IN \A i, j \in DOMAIN items :
       i < j /\ key(items[j]) # None =>
         /\ key(items[i]) # None
         /\ IF criterion = "amount" THEN key(items[i]) >= key(items[j]) ELSE key(items[i]) <= key(items[j])

\* A list answers in its order.
LEMMA AnswerInOrder ==
  ASSUME TableInv, NEW q \in ListQueries, NEW c \in {"amount", "next_due"}
  PROVE  ItemsInOrder(c, ListSubscriptions(q, c).items)
<1> DEFINE items == ListSubscriptions(q, c).items
<1>1. CASE Target(q) \notin Currencies
  <2>1. items = <<>>
    BY <1>1 DEF ListSubscriptions
  <2>2. DOMAIN items = {}
    BY <2>1
  <2> HIDE DEF items
  <2>3. QED
    BY <2>2 DEF ItemsInOrder, items
<1>2. CASE Target(q) \in Currencies
  <2>1. /\ \A i \in DOMAIN items : AnItem(items[i])
        /\ \A i, j \in DOMAIN items : i < j => Precedes(c, items[i], items[j])
    <3>1. SortCriterion(c) = c
      BY DEF SortCriterion
    <3>2. QED
      BY <1>2, <3>1, ListHolds
  <2>2. None \notin Int
    BY DateTypes
  <2> HIDE DEF items
  <2>3. ASSUME NEW i \in DOMAIN items, NEW j \in DOMAIN items, i < j
        PROVE  /\ c = "amount" /\ items[j].cost # None => items[i].cost # None /\ items[i].cost >= items[j].cost
               /\ c = "next_due" /\ items[j].due # None => items[i].due # None /\ items[i].due <= items[j].due
    <3> DEFINE p == items[i]
               r == items[j]
    <3>1. AnItem(p) /\ AnItem(r) /\ Precedes(c, p, r)
      BY <2>1, <2>3
    <3> HIDE DEF p, r
    <3>2. CASE c = "amount"
      <4>1. (p.cost # None /\ (r.cost = None \/ p.cost > r.cost)) \/ ~(r.cost # None /\ (p.cost = None \/ r.cost > p.cost))
        BY <3>1, <3>2, Zenon DEF Precedes
      <4>2. QED
        BY <2>2, <3>1, <3>2, <4>1 DEF AnItem, p, r
    <3>3. CASE c = "next_due"
      <4>1. NoneLast(p.due, r.due) \/ ~NoneLast(r.due, p.due)
        BY <3>1, <3>3 DEF Precedes
      <4>2. QED
        BY <2>2, <3>1, <3>3, <4>1 DEF AnItem, NoneLast, p, r
    <3>4. QED
      BY <3>2, <3>3
  <2>4. QED
    BY <2>3 DEF ItemsInOrder, items
<1>3. QED
  BY <1>1, <1>2

\* [OrderIsAsAsked] The dates rise and the costs fall, what has none being last.
LEMMA ListsAreInOrder == TableInv /\ Computed => OrderIsAsAsked
<1> SUFFICES ASSUME TableInv, Computed, asked.op = "list" PROVE OrderIsAsAsked
  BY DEF OrderIsAsAsked
<1>1. PICK q \in ListQueries : asked = [op |-> "list", q |-> q,
         body |-> [c \in Criteria |-> ListSubscriptions(q, c)]]
  BY DEF Computed, NoQuery
<1>2. \A c \in {"amount", "next_due"} : asked.body[c].items = ListSubscriptions(q, c).items
  BY <1>1 DEF Criteria
<1>3. \A c \in {"amount", "next_due"} : ItemsInOrder(c, asked.body[c].items)
  BY <1>2, AnswerInOrder
<1>4. QED
  BY <1>3, Zenon DEF OrderIsAsAsked, ItemsInOrder

\* Nothing is totalled without rates as with them.
LEMMA NothingTotals ==
  ASSUME NEW target, NEW table, NEW other
  PROVE  AggregateConverted(<<>>, target, table) = AggregateConverted(<<>>, target, other)
<1> DEFINE done(t) == [i \in DOMAIN <<>> |-> ConvertDated(<<>>[i], target, t)]
           Total(d) == LET kept == {i \in DOMAIN <<>> : d[i] # {}}
                           dates == {c.asOf : c \in UNION {d[i] : i \in kept}} \ {0}
                       IN [total |-> SumFunction([i \in kept |-> (CHOOSE c \in d[i] : TRUE).amount]),
                           converted |-> Cardinality(kept), excluded |-> Len(<<>>) - Cardinality(kept),
                           complete |-> Len(<<>>) = Cardinality(kept),
                           asOf |-> IF dates = {} THEN 0 ELSE Min(dates)]
<1>1. done(table) = done(other)
  <2>1. DOMAIN <<>> = {}
    OBVIOUS
  <2>2. QED
    BY <2>1
<1>2. AggregateConverted(<<>>, target, table) = Total(done(table))
      /\ AggregateConverted(<<>>, target, other) = Total(done(other))
  BY Zenon DEF AggregateConverted
<1> HIDE DEF done, Total
<1>3. QED
  BY <1>1, <1>2

\* [SortKeepsTheView] The criterion changes neither the rows nor the total.
LEMMA ViewsAreKept == TableInv /\ Computed => SortKeepsTheView
<1> SUFFICES ASSUME TableInv, Computed, asked.op = "list", NEW c \in Criteria
             PROVE  /\ asked.body[c].total = asked.body["name"].total
                    /\ {asked.body[c].items[i].id : i \in DOMAIN asked.body[c].items}
                         = {asked.body["name"].items[i].id : i \in DOMAIN asked.body["name"].items}
  BY Zenon DEF SortKeepsTheView
<1>1. PICK q \in ListQueries : asked = [op |-> "list", q |-> q,
         body |-> [x \in Criteria |-> ListSubscriptions(q, x)]]
  BY DEF Computed, NoQuery
<1>2. "name" \in Criteria
  BY DEF Criteria
<1>3. \A x \in Criteria : asked.body[x] = ListSubscriptions(q, x)
  BY <1>1
<1>4. CASE Target(q) \notin Currencies
  <2>1. \A x : ListSubscriptions(q, x) = [refused |-> TRUE, items |-> <<>>, total |-> Unreadable]
    BY <1>4, Zenon DEF ListSubscriptions
  <2>2. QED
    BY <1>2, <1>3, <2>1
<1>5. CASE Target(q) \in Currencies
  <2> DEFINE amounts == ActiveAmounts(Shown(q, q.search), q.today)
             total(x) == AggregateConverted(amounts, Target(q), RatesFor(amounts, SortCriterion(x)))
             rows == Shown(q, q.search)
             ids(x) == {ListSubscriptions(q, x).items[i].id : i \in DOMAIN ListSubscriptions(q, x).items}
  <2>1. \A x : ListSubscriptions(q, x).total = total(x)
    <3>1. SUFFICES ASSUME NEW x PROVE ListSubscriptions(q, x).total = total(x)
      OBVIOUS
    <3> DEFINE items == Sorted(ItemsOf(q, x), ItemOrder(q, x))
               t == total(x)
    <3>2. ListSubscriptions(q, x) = [refused |-> FALSE, items |-> items, total |-> t]
      BY <1>5, ListIs
    <3> HIDE DEF items, t
    <3>3. ListSubscriptions(q, x).total = t
      BY <3>2
    <3>4. QED
      BY <3>3 DEF t
  <2>2. total(c) = total("name")
    <3>1. CASE amounts = <<>>
      BY <3>1, NothingTotals
    <3>2. CASE amounts # <<>>
      <4>1. \A x : RatesFor(amounts, x) = LoadRateTable
        BY <3>2 DEF RatesFor
      <4> HIDE DEF amounts
      <4>2. QED
        BY <4>1
    <3>3. QED
      BY <3>1, <3>2
  <2>3. ASSUME NEW x PROVE ids(x) = {r.id : r \in rows}
    <3> DEFINE items == ListSubscriptions(q, x).items
    <3>1. /\ \A i \in DOMAIN items : items[i] \in ItemsOf(q, x)
          /\ \A y \in ItemsOf(q, x) : \E i \in DOMAIN items : items[i] = y
      BY <1>5, ListHolds
    <3>2. /\ \A y \in ItemsOf(q, x) : \E r \in rows : y.id = r.id
          /\ \A r \in rows : \E y \in ItemsOf(q, x) : y.id = r.id
      <4>1. ASSUME NEW r PROVE ItemOf(q, x, r).id = r.id
        BY DEF ItemOf
      <4>2. \A y \in ItemsOf(q, x) : \E r \in rows : y = ItemOf(q, x, r)
        BY DEF ItemsOf
      <4>3. \A r \in rows : ItemOf(q, x, r) \in ItemsOf(q, x)
        BY DEF ItemsOf
      <4> HIDE DEF rows
      <4>4. QED
        BY <4>1, <4>2, <4>3
    <3> HIDE DEF items, rows
    <3>3. {items[i].id : i \in DOMAIN items} = {r.id : r \in rows}
      BY <3>1, <3>2
    <3>4. QED
      BY <3>3 DEF items
  <2> HIDE DEF total, rows
  <2>4. ids(c) = ids("name")
    BY <2>3
  <2>5. QED
    BY <1>2, <1>3, <2>1, <2>2, <2>4
<1>6. QED
  BY <1>4, <1>5

\* [ListIsAsAsked] A list shows what was asked, whatever the criterion, in the
\* order of the criterion, and a row is found by its name.
THEOREM ListExact == FiguresSpec => []ListIsAsAsked
<1>1. RatesInit => RatesInv
  BY TableInit, ComputedInit DEF RatesInv
<1>2. RatesInv /\ [FiguresNext]_rateVars => RatesInv'
  BY TableNext, ComputedNext DEF RatesInv
<1>3. RatesInv => ListIsAsAsked
  BY ViewsAreKept, ListsAreInOrder, RowsAreFound DEF RatesInv, ListIsAsAsked
<1>4. QED
  BY <1>1, <1>2, <1>3, PTL DEF FiguresSpec
=============================================================================
