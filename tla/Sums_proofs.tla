---------------------------- MODULE Sums_proofs ----------------------------
(***************************************************************************)
(* What a sum over a finite set is.  The models add up amounts, units and  *)
(* holds with MapThenSumSet, a fold that picks one element after another;  *)
(* here it is shown to count the units of the values that it adds, from    *)
(* which everything that the proofs need to know about sums follows.  The  *)
(* last part is about FoldLeft, which applies the events of a feed one     *)
(* after another: there is a function that folds, so that the one that is  *)
(* chosen does.                                                            *)
(*                                                                         *)
(* Induction over finite sets is by their smallest counterexample: a set   *)
(* of subsets that is not empty has a member that has no other below it.   *)
(***************************************************************************)
EXTENDS Integers, FiniteSetsExt, FiniteSetTheorems, WellFoundedInduction, TLAPS

\* The sum of f over S, as the models fold it.
SumOver(f, S) == MapThenSumSet(LAMBDA x : f[x], S)

\* The element that the fold takes first.
Picked(s) == CHOOSE x \in s : TRUE

\* g has the sum of every subset of S, as the fold computes it.
IsSum(g, f, S) ==
    g = [s \in SUBSET S |->
            IF s = {} THEN 0 ELSE f[Picked(s)] + g[s \ {Picked(s)}]]

\* What the values of f are made of.
Units(f, S) == {u \in S \X Nat : u[2] < f[u[1]]}

-----------------------------------------------------------------------------
(* Counting *)

\* A set of subsets of a finite set has a smallest member.
LEMMA SmallestSubset ==
    ASSUME NEW S, IsFiniteSet(S), NEW Bad \in SUBSET (SUBSET S), Bad # {}
    PROVE  \E U \in Bad : \A V \in Bad : V \subseteq U => V = U
<1>1. FiniteSubsetsOf(S) = SUBSET S
  BY FS_FiniteSubsetsOfFinite
<1>2. IsWellFoundedOn(StrictSubsetOrdering(S), SUBSET S)
  BY <1>1, FS_StrictSubsetOrderingWellFounded
<1>3. \E x \in Bad : \A y \in Bad : ~ (<<y, x>> \in StrictSubsetOrdering(S))
  BY <1>2, WFMin
<1> QED BY <1>3 DEF StrictSubsetOrdering

\* A set of numbers has a smallest member.
LEMMA SmallestNumber ==
    ASSUME NEW S \in SUBSET Nat, S # {}
    PROVE  \E n \in S : \A m \in S : n <= m
<1> DEFINE R == {p \in Nat \X Nat : p[1] < p[2]}
<1>1. IsWellFoundedOn(R, Nat)
  BY NatLessThanWellFounded DEF OpToRel
<1> HIDE DEF R
<1>2. \E n \in S : \A m \in S : <<m, n>> \notin R
  BY <1>1, WFMin
<1>3. PICK n \in S : \A m \in S : <<m, n>> \notin R
  BY <1>2
<1>4. ASSUME NEW m \in S PROVE n <= m
  <2>1. m \in Nat /\ n \in Nat /\ <<m, n>> \notin R
    BY <1>3
  <2>2. ~(m < n)
    BY <2>1 DEF R
  <2> QED BY <2>1, <2>2
<1> QED BY <1>4

\* The units of one element are as many as its value.
LEMMA UnitsOfOne ==
    ASSUME NEW f, NEW x, f[x] \in Nat
    PROVE  /\ IsFiniteSet(Units(f, {x}))
           /\ Cardinality(Units(f, {x})) = f[x]
<1> DEFINE b == [n \in 0..(f[x] - 1) |-> <<x, n>>]
<1>1. IsFiniteSet(0..(f[x] - 1)) /\ Cardinality(0..(f[x] - 1)) = f[x]
  BY FS_Interval
<1>2. b \in Bijection(0..(f[x] - 1), Units(f, {x}))
  <2>1. b \in [0..(f[x] - 1) -> Units(f, {x})]
    BY DEF Units
  <2>2. \A u \in Units(f, {x}) : \E n \in 0..(f[x] - 1) : b[n] = u
    BY DEF Units
  <2>3. \A m, n \in 0..(f[x] - 1) : b[m] = b[n] => m = n
    OBVIOUS
  <2> QED BY <2>1, <2>2, <2>3 DEF Bijection, Injection, Surjection, IsInjective
<1>3. ExistsBijection(0..(f[x] - 1), Units(f, {x}))
  BY <1>2 DEF ExistsBijection
<1> QED BY <1>1, <1>3, FS_Bijection

\* An element more brings as many units as its value.
LEMMA UnitsOfMore ==
    ASSUME NEW f, NEW S, NEW x, x \notin S, f[x] \in Nat,
           IsFiniteSet(Units(f, S))
    PROVE  /\ IsFiniteSet(Units(f, S \cup {x}))
           /\ Cardinality(Units(f, S \cup {x})) =
                 Cardinality(Units(f, S)) + f[x]
<1>1. Units(f, S \cup {x}) = Units(f, S) \cup Units(f, {x})
  BY DEF Units
<1>2. Units(f, S) \cap Units(f, {x}) = {}
  BY DEF Units
<1>3. Cardinality(Units(f, S)) \in Nat
  BY FS_CardinalityType
<1>4. /\ IsFiniteSet(Units(f, {x})) /\ Cardinality(Units(f, {x})) = f[x]
  BY UnitsOfOne
<1>5. /\ IsFiniteSet(Units(f, S) \cup Units(f, {x}))
      /\ Cardinality(Units(f, S) \cup Units(f, {x})) =
            Cardinality(Units(f, S)) + Cardinality(Units(f, {x}))
            - Cardinality(Units(f, S) \cap Units(f, {x}))
  BY <1>4, FS_Union
<1>6. Cardinality(Units(f, S) \cap Units(f, {x})) = 0
  BY <1>2, FS_EmptySet
<1>7. Cardinality(Units(f, S)) + f[x] - 0 = Cardinality(Units(f, S)) + f[x]
  BY <1>3
<1> QED BY <1>1, <1>4, <1>5, <1>6, <1>7

\* Finitely many natural numbers have finitely many units.
LEMMA UnitsFinite ==
    ASSUME NEW S, IsFiniteSet(S), NEW f, \A x \in S : f[x] \in Nat
    PROVE  \A U \in SUBSET S : IsFiniteSet(Units(f, U))
<1> DEFINE Bad == {U \in SUBSET S : ~IsFiniteSet(Units(f, U))}
<1> SUFFICES ASSUME Bad # {} PROVE FALSE
  OBVIOUS
<1> Bad \in SUBSET (SUBSET S)
  OBVIOUS
<1> HIDE DEF Bad
<1>1. PICK U \in Bad : \A V \in Bad : V \subseteq U => V = U
  BY SmallestSubset
<1> USE DEF Bad
<1>2. Units(f, {}) = {}
  BY DEF Units
<1>3. U # {}
  BY <1>2, FS_EmptySet
<1>4. PICK x \in U : TRUE
  BY <1>3
<1>5. IsFiniteSet(Units(f, U \ {x}))
  BY <1>1, <1>4
<1>6. U = (U \ {x}) \cup {x} /\ f[x] \in Nat /\ x \notin U \ {x}
  BY <1>4
<1>7. IsFiniteSet(Units(f, (U \ {x}) \cup {x}))
  BY <1>5, <1>6, UnitsOfMore
<1> QED BY <1>6, <1>7

\* Counting units is a function of the shape that the fold defines, so that
\* the CHOOSE in the fold has something to choose.
LEMMA SumExists ==
    ASSUME NEW S, IsFiniteSet(S), NEW f, \A x \in S : f[x] \in Nat
    PROVE  IsSum([s \in SUBSET S |-> Cardinality(Units(f, s))], f, S)
<1> DEFINE g == [s \in SUBSET S |-> Cardinality(Units(f, s))]
<1>1. Units(f, {}) = {}
  BY DEF Units
<1>2. ASSUME NEW s \in SUBSET S, s # {}
      PROVE  g[s] = f[Picked(s)] + g[s \ {Picked(s)}]
  <2>1. Picked(s) \in s
    BY <1>2 DEF Picked
  <2>2. s = (s \ {Picked(s)}) \cup {Picked(s)}
    BY <2>1
  <2>3. Cardinality(Units(f, (s \ {Picked(s)}) \cup {Picked(s)})) =
           Cardinality(Units(f, s \ {Picked(s)})) + f[Picked(s)]
    BY <2>1, UnitsOfMore, UnitsFinite
  <2>4. Cardinality(Units(f, s \ {Picked(s)})) \in Nat /\ f[Picked(s)] \in Nat
    BY <2>1, UnitsFinite, FS_CardinalityType
  <2>5. /\ g[s] = Cardinality(Units(f, s))
        /\ g[s \ {Picked(s)}] = Cardinality(Units(f, s \ {Picked(s)}))
    OBVIOUS
  <2> HIDE DEF g
  <2>6. g[s] = g[s \ {Picked(s)}] + f[Picked(s)]
    BY <2>2, <2>3, <2>5
  <2> QED BY <2>4, <2>5, <2>6
<1>3. \A s \in SUBSET S :
         g[s] = IF s = {} THEN 0 ELSE f[Picked(s)] + g[s \ {Picked(s)}]
  BY <1>1, <1>2, FS_EmptySet
<1> HIDE DEF g
<1>4. g = [s \in SUBSET S |->
             IF s = {} THEN 0 ELSE f[Picked(s)] + g[s \ {Picked(s)}]]
  BY <1>3 DEF g
<1> QED BY <1>4 DEF IsSum, g

\* Every function of that shape counts units, by the smallest subset for which
\* it would not.
LEMMA SumUnique ==
    ASSUME NEW S, IsFiniteSet(S), NEW f, \A x \in S : f[x] \in Nat,
           NEW g, IsSum(g, f, S)
    PROVE  \A U \in SUBSET S : g[U] = Cardinality(Units(f, U))
<1> DEFINE Bad == {U \in SUBSET S : g[U] # Cardinality(Units(f, U))}
<1> SUFFICES ASSUME Bad # {} PROVE FALSE
  OBVIOUS
<1> Bad \in SUBSET (SUBSET S)
  OBVIOUS
<1> HIDE DEF Bad
<1>1. PICK U \in Bad : \A V \in Bad : V \subseteq U => V = U
  BY SmallestSubset
<1> USE DEF Bad
<1>2. Units(f, {}) = {} /\ g[{}] = 0
  BY DEF Units, IsSum
<1>3. U # {}
  BY <1>2, FS_EmptySet
<1>4. Picked(U) \in U
  BY <1>3 DEF Picked
<1>5. g[U \ {Picked(U)}] = Cardinality(Units(f, U \ {Picked(U)}))
  BY <1>1, <1>4
<1>6. g[U] = f[Picked(U)] + g[U \ {Picked(U)}]
  BY <1>3 DEF IsSum
<1>7. U = (U \ {Picked(U)}) \cup {Picked(U)}
  BY <1>4
<1>8. Cardinality(Units(f, (U \ {Picked(U)}) \cup {Picked(U)})) =
         Cardinality(Units(f, U \ {Picked(U)})) + f[Picked(U)]
  BY <1>4, UnitsOfMore, UnitsFinite
<1>9. Cardinality(Units(f, U \ {Picked(U)})) \in Nat /\ f[Picked(U)] \in Nat
  BY <1>4, UnitsFinite, FS_CardinalityType
<1>10. g[U] = Cardinality(Units(f, U))
  <2>1. Cardinality(Units(f, U)) =
           Cardinality(Units(f, U \ {Picked(U)})) + f[Picked(U)]
    BY <1>7, <1>8
  <2> QED BY <2>1, <1>5, <1>6, <1>9
<1> QED BY <1>10

\* The fold of the community modules that adds up the values of a function
\* over a finite set counts their units.
LEMMA SumIsCount ==
    ASSUME NEW S, IsFiniteSet(S), NEW f, \A x \in S : f[x] \in Nat
    PROVE  SumOver(f, S) = Cardinality(Units(f, S))
<1> DEFINE g == CHOOSE g : IsSum(g, f, S)
<1>1. \E h : IsSum(h, f, S)
  BY SumExists
<1>2. IsSum(g, f, S)
  BY <1>1
<1>3. SumOver(f, S) = g[S]
  BY DEF SumOver, MapThenSumSet, MapThenFoldSet, IsSum, Picked
<1> HIDE DEF g
<1> QED BY <1>2, <1>3, SumUnique

-----------------------------------------------------------------------------
(* Facts about sums *)

\* A sum of natural numbers is one.
LEMMA SumType ==
    ASSUME NEW S, IsFiniteSet(S), NEW f, \A x \in S : f[x] \in Nat
    PROVE  SumOver(f, S) \in Nat
BY SumIsCount, UnitsFinite, FS_CardinalityType

\* Nothing adds up to nothing.
LEMMA SumEmpty == ASSUME NEW f PROVE SumOver(f, {}) = 0
<1>1. Units(f, {}) = {}
  BY DEF Units
<1> QED BY <1>1, SumIsCount, FS_EmptySet

\* A new element adds its value.
LEMMA SumAdd ==
    ASSUME NEW S, IsFiniteSet(S), NEW f, \A y \in S : f[y] \in Nat,
           NEW x, x \notin S, f[x] \in Nat
    PROVE  SumOver(f, S \cup {x}) = SumOver(f, S) + f[x]
<1>1. IsFiniteSet(S \cup {x}) /\ \A y \in S \cup {x} : f[y] \in Nat
  BY FS_AddElement
<1>2. IsFiniteSet(Units(f, S))
  BY UnitsFinite
<1>3. SumOver(f, S \cup {x}) = Cardinality(Units(f, S \cup {x}))
  BY <1>1, SumIsCount
<1>4. SumOver(f, S) = Cardinality(Units(f, S))
  BY SumIsCount
<1> QED BY <1>2, <1>3, <1>4, UnitsOfMore

\* An element taken away takes its value with it, and the sum is no less.
LEMMA SumRemove ==
    ASSUME NEW S, IsFiniteSet(S), NEW f, \A y \in S : f[y] \in Nat,
           NEW x \in S
    PROVE  /\ SumOver(f, S) = SumOver(f, S \ {x}) + f[x]
           /\ SumOver(f, S \ {x}) = SumOver(f, S) - f[x]
           /\ f[x] <= SumOver(f, S)
<1>1. IsFiniteSet(S \ {x}) /\ x \notin S \ {x}
  BY FS_RemoveElement
<1>2. SumOver(f, S \ {x}) \in Nat
  BY <1>1, SumType
<1>3. SumOver(f, (S \ {x}) \cup {x}) = SumOver(f, S \ {x}) + f[x]
  BY <1>1, SumAdd
<1>4. (S \ {x}) \cup {x} = S
  OBVIOUS
<1>5. SumOver(f, S) = SumOver(f, S \ {x}) + f[x]
  BY <1>3, <1>4
<1>6. f[x] \in Nat
  OBVIOUS
<1> QED BY <1>2, <1>5, <1>6

\* Only the values on the set count.
LEMMA SumSame ==
    ASSUME NEW S, IsFiniteSet(S), NEW f, NEW g,
           \A x \in S : f[x] \in Nat /\ g[x] = f[x]
    PROVE  SumOver(g, S) = SumOver(f, S)
<1>1. Units(g, S) = Units(f, S)
  BY DEF Units
<1> QED BY <1>1, SumIsCount

\* Two sets that have nothing in common add up to the sum of their sums.
LEMMA SumUnion ==
    ASSUME NEW S, IsFiniteSet(S), NEW T, IsFiniteSet(T), S \cap T = {},
           NEW f, \A x \in S \cup T : f[x] \in Nat
    PROVE  SumOver(f, S \cup T) = SumOver(f, S) + SumOver(f, T)
<1>1. IsFiniteSet(S \cup T)
  BY FS_Union
<1>2. /\ SumOver(f, S \cup T) = Cardinality(Units(f, S \cup T))
      /\ SumOver(f, S) = Cardinality(Units(f, S))
      /\ SumOver(f, T) = Cardinality(Units(f, T))
  BY <1>1, SumIsCount
<1>3. /\ Units(f, S \cup T) = Units(f, S) \cup Units(f, T)
      /\ Units(f, S) \cap Units(f, T) = {}
  BY DEF Units
<1>4. IsFiniteSet(Units(f, S)) /\ IsFiniteSet(Units(f, T))
  BY UnitsFinite
<1>5. Cardinality(Units(f, S) \cup Units(f, T)) =
         Cardinality(Units(f, S)) + Cardinality(Units(f, T))
                                  - Cardinality(Units(f, S) \cap Units(f, T))
  BY <1>4, FS_Union
<1>6. Cardinality(Units(f, S) \cap Units(f, T)) = 0
  BY <1>3, FS_EmptySet
<1>7. Cardinality(Units(f, S)) \in Nat /\ Cardinality(Units(f, T)) \in Nat
  BY <1>4, FS_CardinalityType
<1>8. SumOver(f, S \cup T) =
         Cardinality(Units(f, S)) + Cardinality(Units(f, T)) - 0
  BY <1>2, <1>3, <1>5, <1>6
<1> QED BY <1>2, <1>7, <1>8

\* Fewer elements add up to less, or to the same.
LEMMA SumSubset ==
    ASSUME NEW S, IsFiniteSet(S), NEW T \in SUBSET S,
           NEW f, \A x \in S : f[x] \in Nat
    PROVE  SumOver(f, T) <= SumOver(f, S)
<1>1. IsFiniteSet(T) /\ IsFiniteSet(S \ T)
  BY FS_Subset
<1>2. T \cup (S \ T) = S /\ T \cap (S \ T) = {}
  OBVIOUS
<1>3. SumOver(f, T \cup (S \ T)) = SumOver(f, T) + SumOver(f, S \ T)
  BY <1>1, <1>2, SumUnion
<1>4. SumOver(f, T) \in Nat /\ SumOver(f, S \ T) \in Nat
  BY <1>1, SumType
<1>5. SumOver(f, S) = SumOver(f, T) + SumOver(f, S \ T)
  BY <1>2, <1>3
<1> QED BY <1>4, <1>5

\* Values that are sums of two add up to the sum of both sums.
LEMMA SumPlus ==
    ASSUME NEW S, IsFiniteSet(S), NEW f, NEW g, NEW h,
           \A x \in S : f[x] \in Nat /\ g[x] \in Nat /\ h[x] = f[x] + g[x]
    PROVE  SumOver(h, S) = SumOver(f, S) + SumOver(g, S)
<1> DEFINE Bad == {U \in SUBSET S :
                     SumOver(h, U) # SumOver(f, U) + SumOver(g, U)}
<1> SUFFICES ASSUME Bad # {} PROVE FALSE
  OBVIOUS
<1> Bad \in SUBSET (SUBSET S)
  OBVIOUS
<1> HIDE DEF Bad
<1>1. PICK U \in Bad : \A V \in Bad : V \subseteq U => V = U
  BY SmallestSubset
<1> USE DEF Bad
<1>2. U # {}
  <2>1. SumOver(f, {}) = 0 /\ SumOver(g, {}) = 0 /\ SumOver(h, {}) = 0
    BY SumEmpty
  <2> QED BY <2>1
<1>3. PICK x \in U : TRUE
  BY <1>2
<1>4. IsFiniteSet(U) /\ IsFiniteSet(U \ {x})
  BY FS_Subset
<1>5. SumOver(h, U \ {x}) = SumOver(f, U \ {x}) + SumOver(g, U \ {x})
  BY <1>1, <1>3
<1>6. /\ SumOver(f, U) = SumOver(f, U \ {x}) + f[x]
      /\ SumOver(g, U) = SumOver(g, U \ {x}) + g[x]
      /\ SumOver(h, U) = SumOver(h, U \ {x}) + h[x]
  BY <1>4, SumRemove
<1>7. SumOver(f, U \ {x}) \in Nat /\ SumOver(g, U \ {x}) \in Nat
  BY <1>4, SumType
<1>8. f[x] \in Nat /\ g[x] \in Nat /\ h[x] = f[x] + g[x]
  OBVIOUS
<1>9. SumOver(h, U) = SumOver(f, U) + SumOver(g, U)
  BY <1>5, <1>6, <1>7, <1>8
<1> QED BY <1>9

\* A sum of ones counts.
LEMMA SumOfOnes ==
    ASSUME NEW S, IsFiniteSet(S), NEW f, \A x \in S : f[x] = 1
    PROVE  SumOver(f, S) = Cardinality(S)
<1> DEFINE Bad == {U \in SUBSET S : SumOver(f, U) # Cardinality(U)}
<1> SUFFICES ASSUME Bad # {} PROVE FALSE
  OBVIOUS
<1> Bad \in SUBSET (SUBSET S)
  OBVIOUS
<1> HIDE DEF Bad
<1>1. PICK U \in Bad : \A V \in Bad : V \subseteq U => V = U
  BY SmallestSubset
<1> USE DEF Bad
<1>2. U # {}
  BY SumEmpty, FS_EmptySet
<1>3. PICK x \in U : TRUE
  BY <1>2
<1>4. IsFiniteSet(U) /\ f[x] = 1 /\ \A y \in U : f[y] \in Nat
  BY FS_Subset
<1>5. SumOver(f, U \ {x}) = Cardinality(U \ {x})
  BY <1>1, <1>3
<1>6. SumOver(f, U) = SumOver(f, U \ {x}) + f[x]
  BY <1>4, SumRemove
<1>7. Cardinality(U \ {x}) = Cardinality(U) - 1 /\ Cardinality(U) \in Nat
  BY <1>4, FS_RemoveElement, FS_CardinalityType
<1>8. SumOver(f, U) = Cardinality(U)
  BY <1>4, <1>5, <1>6, <1>7
<1> QED BY <1>8

\* Elements whose value is 0 do not count.
LEMMA SumOutside ==
    ASSUME NEW S, IsFiniteSet(S), NEW T \in SUBSET S, NEW f, NEW g,
           \A x \in T : f[x] \in Nat /\ g[x] = f[x],
           \A x \in S \ T : g[x] = 0
    PROVE  SumOver(g, S) = SumOver(f, T)
<1>1. IsFiniteSet(T)
  BY FS_Subset
<1>2. Units(g, S) = Units(f, T)
  BY DEF Units
<1>3. \A x \in S : g[x] \in Nat
  OBVIOUS
<1> QED BY <1>1, <1>2, <1>3, SumIsCount

\* A fold that adds two values of each element is the sum of both sums.
LEMMA SumOfTwo ==
    ASSUME NEW S, IsFiniteSet(S), NEW a, NEW b,
           \A x \in S : a[x] \in Nat /\ b[x] \in Nat
    PROVE  MapThenSumSet(LAMBDA x : a[x] + b[x], S) =
              SumOver(a, S) + SumOver(b, S)
<1> DEFINE f == [x \in S |-> a[x] + b[x]]
           A(h) == [s \in SUBSET S |->
                      IF s = {} THEN 0
                      ELSE a[CHOOSE x \in s : TRUE] + b[CHOOSE x \in s : TRUE]
                           + h[s \ {CHOOSE x \in s : TRUE}]]
           g == CHOOSE h : h = A(h)
<1>1. \A x \in S : f[x] \in Nat /\ f[x] = a[x] + b[x]
  OBVIOUS
<1> HIDE DEF f
<1>2. ASSUME NEW h PROVE (h = A(h)) <=> IsSum(h, f, S)
  <2>1. ASSUME NEW s \in SUBSET S, s # {}
        PROVE  f[Picked(s)] =
                  a[CHOOSE x \in s : TRUE] + b[CHOOSE x \in s : TRUE]
    BY <1>1, <2>1 DEF Picked
  <2>2. ASSUME NEW s \in SUBSET S
        PROVE  (IF s = {} THEN 0
                ELSE a[CHOOSE x \in s : TRUE] + b[CHOOSE x \in s : TRUE]
                     + h[s \ {CHOOSE x \in s : TRUE}])
               = IF s = {} THEN 0 ELSE f[Picked(s)] + h[s \ {Picked(s)}]
    BY <2>1 DEF Picked
  <2>3. A(h) = [s \in SUBSET S |->
            IF s = {} THEN 0 ELSE f[Picked(s)] + h[s \ {Picked(s)}]]
    BY <2>2
  <2> HIDE DEF A
  <2> QED BY <2>3 DEF IsSum
<1>3. MapThenSumSet(LAMBDA x : a[x] + b[x], S) = g[S]
  BY DEF MapThenSumSet, MapThenFoldSet
<1> HIDE DEF A
<1>4. g = A(g)
  BY <1>1, <1>2, SumExists
<1>5. IsSum(g, f, S)
  BY <1>2, <1>4
<1> HIDE DEF g
<1>6. g[S] = SumOver(f, S)
  BY <1>1, <1>5, SumUnique, SumIsCount
<1>7. SumOver(f, S) = SumOver(a, S) + SumOver(b, S)
  BY <1>1, SumPlus
<1> QED BY <1>3, <1>6, <1>7

-----------------------------------------------------------------------------
(* Folds over a sequence *)

\* A set of positions that is not empty has a last one.
LEMMA LastOfPositions ==
    ASSUME NEW n \in Nat, NEW s \in SUBSET (1 .. n), s # {}
    PROVE  /\ Max(s) \in s
           /\ \A i \in s : i <= Max(s)
<1> DEFINE B == {k \in Nat : \A i \in s : i <= k}
<1>1. n \in B
  OBVIOUS
<1>2. PICK k \in B : \A m \in B : k <= m
  BY <1>1, SmallestNumber
<1>3. k \in s
  <2> SUFFICES ASSUME k \notin s PROVE FALSE
    OBVIOUS
  <2>1. PICK i \in s : TRUE
    OBVIOUS
  <2>2. i \in Nat /\ i <= k /\ i >= 1 /\ k \in Nat
    BY <1>2, <2>1
  <2>3. \A j \in s : j <= k - 1
    <3> TAKE j \in s
    <3>1. j \in Nat /\ j <= k /\ j # k
      BY <1>2
    <3> QED BY <2>2, <3>1
  <2>4. k - 1 \in B
    BY <2>2, <2>3
  <2>5. k <= k - 1
    BY <1>2, <2>4
  <2> QED BY <2>2, <2>5
<1>4. \E x \in s : \A y \in s : x >= y
  <2>1. \A y \in s : k >= y
    BY <1>2
  <2> QED BY <1>3, <2>1
<1>5. Max(s) \in s /\ \A y \in s : Max(s) >= y
  BY <1>4 DEF Max
<1> QED BY <1>5

\* The last of the first k positions.
LEMMA LastOfFirst ==
    ASSUME NEW n \in Nat, NEW k \in 1 .. n
    PROVE  /\ 1 .. k \in SUBSET (1 .. n) /\ 1 .. k # {}
           /\ Max(1 .. k) = k /\ (1 .. k) \ {Max(1 .. k)} = 1 .. (k - 1)
<1>1. 1 .. k \in SUBSET (1 .. n) /\ k \in 1 .. k
  OBVIOUS
<1>2. Max(1 .. k) \in 1 .. k /\ k <= Max(1 .. k)
  BY <1>1, LastOfPositions
<1>3. Max(1 .. k) = k
  BY <1>2
<1> QED BY <1>1, <1>3

\* h is what MapThenFoldSet makes of a fold of G over n positions.
IsFold(h, G, base, n) ==
    h = [s \in SUBSET (1 .. n) |->
           IF s = {} THEN base ELSE G[<<h[s \ {Max(s)}], Max(s)>>]]

\* There is such a function: over sets of at most k positions for every k.
LEMMA FoldExists ==
    ASSUME NEW n \in Nat, NEW X, NEW base \in X, NEW G \in [X \X (1 .. n) -> X]
    PROVE  \E h \in [SUBSET (1 .. n) -> X] : IsFold(h, G, base, n)
<1> DEFINE P == SUBSET (1 .. n)
           Next(h, s) == IF s = {} THEN base
                         ELSE G[<<h[s \ {Max(s)}], Max(s)>>]
           UpTo(k, h) == \A s \in P : Cardinality(s) <= k => h[s] = Next(h, s)
           Bad == {k \in Nat : ~\E h \in [P -> X] : UpTo(k, h)}
<1>0. IsFiniteSet(1 .. n) /\ Cardinality(1 .. n) = n
  <2>1. 1 \in Int /\ n \in Int
    OBVIOUS
  <2>2. /\ IsFiniteSet(1 .. n)
        /\ Cardinality(1 .. n) = IF 1 > n THEN 0 ELSE n - 1 + 1
    BY <2>1, FS_Interval
  <2> QED BY <2>2
<1>1. \A s \in P : IsFiniteSet(s) /\ Cardinality(s) \in Nat
  <2> TAKE s \in P
  <2>1. IsFiniteSet(s)
    BY <1>0, FS_Subset
  <2> QED BY <2>1, FS_CardinalityType
<1>2. \A s \in P : s # {} =>
         /\ Max(s) \in 1 .. n /\ s \ {Max(s)} \in P
         /\ Cardinality(s \ {Max(s)}) = Cardinality(s) - 1
  <2> SUFFICES ASSUME NEW s \in P, s # {}
               PROVE  /\ Max(s) \in 1 .. n /\ s \ {Max(s)} \in P
                      /\ Cardinality(s \ {Max(s)}) = Cardinality(s) - 1
    OBVIOUS
  <2>1. Max(s) \in s
    BY LastOfPositions
  <2>2. Cardinality(s \ {Max(s)}) = Cardinality(s) - 1
    BY <1>1, <2>1, FS_RemoveElement
  <2> QED BY <2>1, <2>2
<1>3. \A h \in [P -> X], s \in P : Next(h, s) \in X
  BY <1>2
<1>4. Bad = {}
  <2> SUFFICES ASSUME Bad # {} PROVE FALSE
    OBVIOUS
  <2> HIDE DEF P, Next, UpTo
  <2>1. Bad \in SUBSET Nat
    OBVIOUS
  <2> HIDE DEF Bad
  <2>2. PICK k \in Bad : \A m \in Bad : k <= m
    BY <2>1, SmallestNumber
  <2> USE DEF Bad
  <2>3. k # 0
    <3> DEFINE h == [s \in P |-> base]
    <3>1. h \in [P -> X]
      OBVIOUS
    <3>2. UpTo(0, h)
      <4> SUFFICES ASSUME NEW s \in P, Cardinality(s) <= 0
                   PROVE  h[s] = Next(h, s)
        BY DEF UpTo
      <4>1. IsFiniteSet(s) /\ Cardinality(s) = 0
        BY <1>1
      <4>2. s = {}
        BY <4>1, FS_EmptySet
      <4> QED BY <4>2 DEF Next
    <3> HIDE DEF h
    <3> QED BY <3>1, <3>2
  <2>4. k \in Nat /\ k - 1 \in Nat /\ ~(k <= k - 1)
    BY <2>3
  <2>5. PICK h \in [P -> X] : UpTo(k - 1, h)
    BY <2>2, <2>4
  <2> DEFINE g == [s \in P |-> Next(h, s)]
  <2>6. g \in [P -> X]
    BY <1>3
  <2>7. UpTo(k, g)
    <3> SUFFICES ASSUME NEW s \in P, Cardinality(s) <= k
                 PROVE  g[s] = Next(g, s)
      BY DEF UpTo
    <3>1. CASE s = {}
      BY <3>1 DEF Next
    <3>2. CASE s # {}
      <4> DEFINE t == s \ {Max(s)}
      <4>1. t \in P /\ Cardinality(t) <= k - 1
        BY <1>1, <1>2, <2>4, <3>2
      <4>2. h[t] = Next(h, t)
        BY <2>5, <4>1 DEF UpTo
      <4>3. g[t] = h[t]
        BY <4>1, <4>2
      <4>4. Next(g, s) = G[<<g[t], Max(s)>>] /\ Next(h, s) = G[<<h[t], Max(s)>>]
        BY <3>2 DEF Next
      <4> QED BY <4>3, <4>4
    <3> QED BY <3>1, <3>2
  <2> HIDE DEF g
  <2> QED BY <2>6, <2>7
<1>5. \A s \in P : Cardinality(s) <= n
  <2> TAKE s \in P
  <2> DEFINE D == 1 .. n
  <2>1. IsFiniteSet(D) /\ Cardinality(D) = n /\ s \in SUBSET D
    BY <1>0
  <2> HIDE DEF D
  <2>2. Cardinality(s) <= Cardinality(D)
    BY <2>1, FS_Subset
  <2> QED BY <2>1, <2>2
<1>6. PICK h \in [P -> X] : UpTo(n, h)
  BY <1>4
<1>7. h = [s \in P |-> Next(h, s)]
  <2>1. \A s \in P : h[s] = Next(h, s)
    BY <1>5, <1>6
  <2> HIDE DEF Next, P, UpTo
  <2> QED BY <2>1
<1> QED BY <1>7 DEF IsFold
=============================================================================
