-------------------------- MODULE FiniteSums_proofs --------------------------
(***************************************************************************)
(* Facts the other proofs share.  About the sum of a function over a       *)
(* finite set (MapThenSumSet): it is a number, any element may be taken    *)
(* out of it, and changing one entry of the function changes it by as      *)
(* much.  About numbers: a nonempty set of them has a least one, division  *)
(* rounds down, and multiples of a number are ordered like their factors.  *)
(* The library's theorems on folds and on induction take an operator as a  *)
(* parameter; here the sums are derived from the fact that strict          *)
(* inclusion of finite sets is well founded, and the rest from the fact    *)
(* that the order of the natural numbers is.                               *)
(***************************************************************************)
EXTENDS FiniteSetsExt, FiniteSetTheorems, TLAPS

\* Induction over the subsets of a finite set, as the existence of a least one
\* among those that lack a property.
LEMMA LeastSet ==
    ASSUME NEW S, IsFiniteSet(S), NEW B, B \subseteq SUBSET S, B # {}
    PROVE  \E T \in B : \A U \in B : ~(U \subseteq T /\ U # T)
  <1>1. FiniteSubsetsOf(S) = SUBSET S
    BY FS_FiniteSubsetsOfFinite
  <1>2. IsWellFoundedOn(StrictSubsetOrdering(S), SUBSET S)
    BY <1>1, FS_StrictSubsetOrderingWellFounded
  <1>3. PICK T \in B : \A U \in B : <<U, T>> \notin StrictSubsetOrdering(S)
    BY <1>2, WFMin
  <1> QED
    BY <1>3 DEF StrictSubsetOrdering

\* A nonempty set of natural numbers has a least one.
LEMMA LeastNat ==
    ASSUME NEW B, B \subseteq Nat, B # {}
    PROVE  \E x \in B : \A y \in B : x <= y
  <1>1. PICK x \in B : \A y \in B : <<y, x>> \notin OpToRel(<, Nat)
    BY NatLessThanWellFounded, WFMin
  <1>2. \A y \in B : ~ (y < x)
    BY <1>1 DEF OpToRel
  <1> QED
    BY <1>2

-----------------------------------------------------------------------------
(* Division and multiples *)

\* Division rounds down,
LEMMA RoundsDown ==
    ASSUME NEW i \in Nat, NEW z \in Nat \ {0}
    PROVE  i \div z \in Nat /\ (i \div z) * z <= i /\ i < (i \div z + 1) * z
  <1>1. i \div z \in Nat
    OBVIOUS
  <1>2. (i \div z) * z <= i
    OBVIOUS
  <1>3. i < (i \div z) * z + z
    OBVIOUS
  <1>4. \A q \in Nat : (q + 1) * z = q * z + z
    OBVIOUS
  <1> QED
    BY <1>1, <1>2, <1>3, <1>4

\* and loses nothing when there is no remainder.
LEMMA Exact ==
    ASSUME NEW i \in Nat, NEW z \in Nat \ {0}, i % z = 0
    PROVE  i = (i \div z) * z
  OBVIOUS

\* Multiples of a number are ordered like their factors.
LEMMA Multiples ==
    ASSUME NEW j \in Nat, NEW q \in Nat, NEW z \in Nat \ {0}
    PROVE  /\ j * z \in Nat /\ (j + 1) * z = j * z + z
           /\ j <= q <=> j * z <= q * z
           /\ (j * z) % z = 0
  <1>1. j * z \in Nat /\ (j + 1) * z = j * z + z
    OBVIOUS
  <1>2. j <= q => j * z <= q * z
    OBVIOUS
  <1>3. j > q => j * z > q * z
    OBVIOUS
  <1>4. (j * z) % z = 0
    OBVIOUS
  <1> QED
    BY <1>1, <1>2, <1>3, <1>4

\* A product is compared as a number, without being multiplied out.
LEMMA LessAfter == \A a, b, c \in Nat : a <= b /\ b < c => a < c
  OBVIOUS

-----------------------------------------------------------------------------
(* The sum of a function over a finite set *)

Total(f, S) == MapThenSumSet(LAMBDA x : f[x], S)

\* The element a sum starts with.
First(s) == CHOOSE x \in s : TRUE

\* g gives the totals of f over the subsets of S.
IsTotal(f, g, S) ==
    g = [s \in SUBSET S |-> IF s = {} THEN 0 ELSE f[First(s)] + g[s \ {First(s)}]]

\* What the library's sum is by definition.
LEMMA TotalDef == \A f, S : Total(f, S) = (CHOOSE g : IsTotal(f, g, S))[S]
  BY DEF Total, MapThenSumSet, MapThenFoldSet, IsTotal, First

LEMMA FirstIn == \A s : s # {} => First(s) \in s
  BY DEF First

\* Totals over two sets agree on what the sets share.
LEMMA TotalsAgree ==
    ASSUME NEW f, NEW S, IsFiniteSet(S), NEW T, NEW g, NEW h, IsTotal(f, g, S), IsTotal(f, h, T)
    PROVE  \A U \in SUBSET (S \cap T) : g[U] = h[U]
  <1> DEFINE B == {U \in SUBSET (S \cap T) : g[U] # h[U]}
  <1>1. SUFFICES ASSUME B # {} PROVE FALSE
    OBVIOUS
  <1>2. PICK U \in B : \A V \in B : ~(V \subseteq U /\ V # U)
    <2>1. B \subseteq SUBSET S
      OBVIOUS
    <2> HIDE DEF B
    <2> QED
      BY <1>1, <2>1, LeastSet
  <1>3. U # {}
    BY <1>2 DEF IsTotal
  <1>4. First(U) \in U
    BY <1>3, FirstIn
  <1>5. g[U \ {First(U)}] = h[U \ {First(U)}]
    BY <1>2, <1>4
  <1>6. /\ g[U] = f[First(U)] + g[U \ {First(U)}]
        /\ h[U] = f[First(U)] + h[U \ {First(U)}]
    BY <1>2, <1>3 DEF IsTotal
  <1> QED
    BY <1>2, <1>5, <1>6

\* There are totals over every finite set.
LEMMA TotalExists ==
    ASSUME NEW f, NEW S, IsFiniteSet(S)
    PROVE  \E g : IsTotal(f, g, S)
  <1> DEFINE B == {T \in SUBSET S : ~\E g : IsTotal(f, g, T)}
  <1>1. SUFFICES ASSUME B # {} PROVE FALSE
    OBVIOUS
  <1>2. PICK T \in B : \A V \in B : ~(V \subseteq T /\ V # T)
    <2>1. B \subseteq SUBSET S
      OBVIOUS
    <2> HIDE DEF B
    <2> QED
      BY <1>1, <2>1, LeastSet
  <1> DEFINE h(U) == CHOOSE g : IsTotal(f, g, U)
  <1>3. \A U \in SUBSET T : U # T => IsTotal(f, h(U), U)
    BY <1>2
  <1> HIDE DEF h
  <1> DEFINE g == [s \in SUBSET T |->
                     IF s = {} THEN 0
                     ELSE f[First(s)] + h(s \ {First(s)})[s \ {First(s)}]]
  <1>4. ASSUME NEW U \in SUBSET T, U # T PROVE g[U] = h(U)[U]
    <2>1. CASE U = {}
      BY <1>3, <1>4, <2>1 DEF IsTotal
    <2>2. CASE U # {}
      <3> DEFINE V == U \ {First(U)}
      <3>1. V \in SUBSET T /\ V # T /\ V \subseteq U
        BY <1>4
      <3>2. IsTotal(f, h(U), U) /\ IsTotal(f, h(V), V)
        BY <1>3, <1>4, <3>1
      <3>3. IsFiniteSet(U)
        BY <1>2, FS_Subset
      <3>4. h(U)[V] = h(V)[V]
        BY <3>1, <3>2, <3>3, TotalsAgree
      <3>5. h(U)[U] = f[First(U)] + h(U)[V]
        BY <2>2, <3>2 DEF IsTotal
      <3> QED
        BY <2>2, <3>4, <3>5
    <2> QED
      BY <2>1, <2>2
  <1>5. ASSUME NEW s \in SUBSET T, s # {}
        PROVE  g[s \ {First(s)}] = h(s \ {First(s)})[s \ {First(s)}]
    BY <1>4, <1>5, FirstIn
  <1>6. IsTotal(f, g, T)
    BY <1>5 DEF IsTotal
  <1> QED
    BY <1>2, <1>6

\* The sum is the recursion one expects of it.
LEMMA TotalRecursion ==
    ASSUME NEW f, NEW S, IsFiniteSet(S)
    PROVE  Total(f, S) = IF S = {} THEN 0 ELSE f[First(S)] + Total(f, S \ {First(S)})
  <1> DEFINE g == CHOOSE g : IsTotal(f, g, S)
             R == S \ {First(S)}
             h == CHOOSE h : IsTotal(f, h, R)
  <1>1. IsTotal(f, g, S)
    BY TotalExists
  <1>2. IsTotal(f, h, R)
    BY TotalExists, FS_Subset
  <1>3. Total(f, S) = g[S] /\ Total(f, R) = h[R]
    BY TotalDef
  <1> HIDE DEF g, h
  <1>4. g[R] = h[R]
    <2>1. \A U \in SUBSET (S \cap R) : g[U] = h[U]
      BY <1>1, <1>2, TotalsAgree
    <2> QED
      BY <2>1
  <1> QED
    BY <1>1, <1>3, <1>4 DEF IsTotal

\* A sum of integers is an integer.
LEMMA TotalType ==
    ASSUME NEW S, IsFiniteSet(S), NEW f, \A x \in S : f[x] \in Int
    PROVE  \A T \in SUBSET S : Total(f, T) \in Int
  <1> DEFINE B == {T \in SUBSET S : Total(f, T) \notin Int}
  <1>1. SUFFICES ASSUME B # {} PROVE FALSE
    OBVIOUS
  <1>2. PICK T \in B : \A V \in B : ~(V \subseteq T /\ V # T)
    <2>1. B \subseteq SUBSET S
      OBVIOUS
    <2> HIDE DEF B
    <2> QED
      BY <1>1, <2>1, LeastSet
  <1>3. Total(f, T) = IF T = {} THEN 0 ELSE f[First(T)] + Total(f, T \ {First(T)})
    BY <1>2, FS_Subset, TotalRecursion
  <1>4. CASE T # {}
    <2>1. First(T) \in T
      BY <1>4, FirstIn
    <2>2. Total(f, T \ {First(T)}) \in Int
      BY <1>2, <2>1
    <2> QED
      BY <1>2, <1>3, <1>4, <2>1, <2>2
  <1> QED
    BY <1>2, <1>3, <1>4

\* A sum of zeros is zero.
LEMMA TotalZero ==
    ASSUME NEW S, IsFiniteSet(S), NEW f, \A x \in S : f[x] = 0
    PROVE  Total(f, S) = 0
  <1> DEFINE B == {T \in SUBSET S : Total(f, T) # 0}
  <1>1. SUFFICES ASSUME B # {} PROVE FALSE
    OBVIOUS
  <1>2. PICK T \in B : \A V \in B : ~(V \subseteq T /\ V # T)
    <2>1. B \subseteq SUBSET S
      OBVIOUS
    <2> HIDE DEF B
    <2> QED
      BY <1>1, <2>1, LeastSet
  <1>3. Total(f, T) = IF T = {} THEN 0 ELSE f[First(T)] + Total(f, T \ {First(T)})
    BY <1>2, FS_Subset, TotalRecursion
  <1>4. CASE T # {}
    <2>1. First(T) \in T
      BY <1>4, FirstIn
    <2>2. Total(f, T \ {First(T)}) = 0
      BY <1>2, <2>1
    <2> QED
      BY <1>2, <1>3, <1>4, <2>1, <2>2
  <1> QED
    BY <1>2, <1>3, <1>4

\* Functions that agree on a set have the same sum over it.
LEMMA TotalSame ==
    ASSUME NEW S, IsFiniteSet(S), NEW f, NEW g, \A x \in S : f[x] = g[x]
    PROVE  Total(f, S) = Total(g, S)
  <1> DEFINE B == {T \in SUBSET S : Total(f, T) # Total(g, T)}
  <1>1. SUFFICES ASSUME B # {} PROVE FALSE
    OBVIOUS
  <1>2. PICK T \in B : \A V \in B : ~(V \subseteq T /\ V # T)
    <2>1. B \subseteq SUBSET S
      OBVIOUS
    <2> HIDE DEF B
    <2> QED
      BY <1>1, <2>1, LeastSet
  <1>3. /\ Total(f, T) = IF T = {} THEN 0 ELSE f[First(T)] + Total(f, T \ {First(T)})
        /\ Total(g, T) = IF T = {} THEN 0 ELSE g[First(T)] + Total(g, T \ {First(T)})
    BY <1>2, FS_Subset, TotalRecursion
  <1>4. CASE T # {}
    <2>1. First(T) \in T
      BY <1>4, FirstIn
    <2>2. Total(f, T \ {First(T)}) = Total(g, T \ {First(T)})
      BY <1>2, <2>1
    <2>3. f[First(T)] = g[First(T)]
      BY <1>2, <2>1
    <2> QED
      BY <1>2, <1>3, <1>4, <2>2, <2>3
  <1> QED
    BY <1>2, <1>3, <1>4

\* Any element may be taken out first.
LEMMA TotalTakeOut ==
    ASSUME NEW S, IsFiniteSet(S), NEW f, \A x \in S : f[x] \in Int
    PROVE  \A x \in S : Total(f, S) = f[x] + Total(f, S \ {x})
  <1> DEFINE B == {T \in SUBSET S : \E x \in T : Total(f, T) # f[x] + Total(f, T \ {x})}
  <1>1. SUFFICES ASSUME B # {} PROVE FALSE
    OBVIOUS
  <1>2. PICK T \in B : \A V \in B : ~(V \subseteq T /\ V # T)
    <2>1. B \subseteq SUBSET S
      OBVIOUS
    <2> HIDE DEF B
    <2> QED
      BY <1>1, <2>1, LeastSet
  <1>3. PICK x \in T : Total(f, T) # f[x] + Total(f, T \ {x})
    BY <1>2
  <1> DEFINE y == First(T)
  <1>4. y \in T /\ Total(f, T) = f[y] + Total(f, T \ {y})
    BY <1>2, <1>3, FirstIn, FS_Subset, TotalRecursion
  <1> HIDE DEF y
  <1>5. x # y
    BY <1>3, <1>4
  <1>6. Total(f, T \ {y}) = f[x] + Total(f, (T \ {y}) \ {x})
    BY <1>2, <1>4, <1>5
  <1>7. Total(f, T \ {x}) = f[y] + Total(f, (T \ {x}) \ {y})
    BY <1>2, <1>4, <1>5
  <1> DEFINE R == (T \ {x}) \ {y}
  <1>8. (T \ {y}) \ {x} = R
    OBVIOUS
  <1>9. f[x] \in Int /\ f[y] \in Int /\ Total(f, R) \in Int
    <2>1. R \in SUBSET S
      BY <1>2
    <2> QED
      BY <1>2, <1>4, <2>1, TotalType
  <1>10. Total(f, T \ {y}) = f[x] + Total(f, R) /\ Total(f, T \ {x}) = f[y] + Total(f, R)
    BY <1>6, <1>7, <1>8
  <1> HIDE DEF R
  <1> QED
    BY <1>3, <1>4, <1>9, <1>10

\* Changing one entry changes the sum by as much.
LEMMA TotalUpdate ==
    ASSUME NEW S, IsFiniteSet(S), NEW f \in [S -> Int], NEW g \in [S -> Int], NEW x \in S,
           \A y \in S \ {x} : g[y] = f[y]
    PROVE  Total(g, S) = Total(f, S) - f[x] + g[x]
  <1> DEFINE R == S \ {x}
  <1>1. Total(g, R) = Total(f, R)
    BY TotalSame, FS_Subset
  <1>2. Total(g, S) = g[x] + Total(g, R) /\ Total(f, S) = f[x] + Total(f, R)
    BY TotalTakeOut
  <1>3. Total(f, R) \in Int
    BY TotalType
  <1> QED
    BY <1>1, <1>2, <1>3

-----------------------------------------------------------------------------
(* The sum of a sequence, which FoldLeft takes from its highest index down *)

LEMMA MaxIn ==
    ASSUME NEW S, IsFiniteSet(S), \A x \in S : x \in Nat, S # {}
    PROVE  Max(S) \in S
  <1> DEFINE HasMax(T) == \E x \in T : \A y \in T : x >= y
             B == {T \in SUBSET S : T # {} /\ ~HasMax(T)}
  <1>1. SUFFICES HasMax(S)
    BY DEF Max
  <1>2. SUFFICES ASSUME B # {} PROVE FALSE
    OBVIOUS
  <1>3. PICK T \in B : \A U \in B : ~(U \subseteq T /\ U # T)
    <2>1. B \subseteq SUBSET S
      OBVIOUS
    <2> HIDE DEF B, HasMax
    <2> QED
      BY <1>2, <2>1, LeastSet
  <1>4. PICK x \in T : TRUE
    BY <1>3
  <1>5. T # {x}
    BY <1>3
  <1>6. PICK m \in T \ {x} : \A y \in T \ {x} : m >= y
    <2>1. T \ {x} \notin B
      BY <1>3, <1>4
    <2> QED
      BY <1>3, <1>4, <1>5, <2>1
  <1>7. CASE m >= x
    BY <1>3, <1>6, <1>7
  <1>8. CASE ~(m >= x)
    <2>1. \A y \in T : y \in Nat
      BY <1>3
    <2>2. \A y \in T : x >= y
      BY <1>4, <1>6, <1>8, <2>1
    <2> QED
      BY <1>3, <1>4, <2>2
  <1> QED
    BY <1>7, <1>8

LEMMA IntervalFinite == \A n \in Nat : IsFiniteSet(1 .. n)
  BY FS_Interval

\* g gives the sums of f over the subsets of S, from the highest element down.
IsFold(f, g, S) ==
    g = [s \in SUBSET S |-> IF s = {} THEN 0 ELSE g[s \ {Max(s)}] + f[Max(s)]]

LEMMA FoldExists ==
    ASSUME NEW S, IsFiniteSet(S), \A x \in S : x \in Nat, NEW f, \A x \in S : f[x] \in Int
    PROVE  \E g : IsFold(f, g, S)
  <1> DEFINE g == [s \in SUBSET S |-> Total(f, s)]
  <1>1. ASSUME NEW s \in SUBSET S
        PROVE  Total(f, s) = IF s = {} THEN 0 ELSE g[s \ {Max(s)}] + f[Max(s)]
    <2>1. IsFiniteSet(s)
      BY FS_Subset
    <2>2. CASE s = {}
      BY <2>1, <2>2, TotalZero
    <2>3. CASE s # {}
      <3>1. Max(s) \in s
        BY <2>1, <2>3, MaxIn
      <3>2. Total(f, s) = f[Max(s)] + Total(f, s \ {Max(s)})
        BY <2>1, <3>1, TotalTakeOut
      <3>3. f[Max(s)] \in Int /\ Total(f, s \ {Max(s)}) \in Int
        BY <3>1, TotalType
      <3>4. g[s \ {Max(s)}] = Total(f, s \ {Max(s)})
        OBVIOUS
      <3> HIDE DEF g
      <3> QED
        BY <2>3, <3>2, <3>3, <3>4
    <2> QED
      BY <2>2, <2>3
  <1>2. IsFold(f, g, S)
    BY <1>1 DEF IsFold
  <1> QED
    BY <1>2

\* Taken from the highest element down, the sum is the same.
LEMMA FoldIsTotal ==
    ASSUME NEW S, IsFiniteSet(S), \A x \in S : x \in Nat, NEW f, \A x \in S : f[x] \in Int,
           NEW g, IsFold(f, g, S)
    PROVE  g[S] = Total(f, S)
  <1> DEFINE B == {T \in SUBSET S : g[T] # Total(f, T)}
  <1>1. SUFFICES ASSUME B # {} PROVE FALSE
    OBVIOUS
  <1>2. PICK T \in B : \A U \in B : ~(U \subseteq T /\ U # T)
    <2>1. B \subseteq SUBSET S
      OBVIOUS
    <2> HIDE DEF B
    <2> QED
      BY <1>1, <2>1, LeastSet
  <1>3. IsFiniteSet(T) /\ T \subseteq S
    BY <1>2, FS_Subset
  <1>4. g[T] = IF T = {} THEN 0 ELSE g[T \ {Max(T)}] + f[Max(T)]
    BY <1>3 DEF IsFold
  <1>5. CASE T = {}
    BY <1>2, <1>3, <1>4, <1>5, TotalZero
  <1>6. CASE T # {}
    <2>1. Max(T) \in T
      BY <1>3, <1>6, MaxIn
    <2>2. g[T \ {Max(T)}] = Total(f, T \ {Max(T)})
      BY <1>2, <2>1
    <2>3. Total(f, T) = f[Max(T)] + Total(f, T \ {Max(T)})
      BY <1>3, <2>1, TotalTakeOut
    <2>4. f[Max(T)] \in Int /\ Total(f, T \ {Max(T)}) \in Int
      BY <1>3, <2>1, TotalType
    <2> QED
      BY <1>2, <1>4, <1>6, <2>2, <2>3, <2>4
  <1> QED
    BY <1>5, <1>6
=============================================================================
