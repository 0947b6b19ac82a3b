----------------------------- MODULE FiniteSums -----------------------------
(* Sums over finite sets: what SumFunctionOnSet, the fold of the community *)
(* modules, computes whatever order its CHOOSE takes the elements in. The  *)
(* induction over finite sets is by minimal counterexample.                *)
EXTENDS FiniteSetsExt, FiniteSetTheorems, TLAPS

First(s) == CHOOSE x \in s : TRUE

(* g holds the sums of v over the subsets of S.                            *)
IsSums(g, v, S) ==
    g = [s \in SUBSET S |-> IF s = {} THEN 0 ELSE v[First(s)] + g[s \ {First(s)}]]

LEMMA FirstIn == ASSUME NEW s, s # {} PROVE First(s) \in s
  BY DEF First

(* A non-empty collection of subsets of a finite set has a smallest one.   *)
LEMMA MinimalSubset ==
    ASSUME NEW S, IsFiniteSet(S), NEW C \in SUBSET (SUBSET S), C # {}
    PROVE  \E m \in C : \A u \in C : u \subseteq m => u = m
<1>1. IsWellFoundedOn(StrictSubsetOrdering(S), SUBSET S)
  BY FS_StrictSubsetOrderingWellFounded, FS_FiniteSubsetsOfFinite
<1>2. PICK m \in C : \A u \in C : <<u, m>> \notin StrictSubsetOrdering(S)
  BY <1>1, WFMin
<1>3. ASSUME NEW u \in C, u \subseteq m, u # m PROVE FALSE
  <2>1. <<u, m>> \in (SUBSET S) \X (SUBSET S)
    OBVIOUS
  <2> QED
    BY <1>2, <1>3, <2>1 DEF StrictSubsetOrdering
<1> QED
  BY <1>3

LEMMA SumsNone == ASSUME NEW S, NEW v, NEW g, IsSums(g, v, S) PROVE g[{}] = 0
  BY DEF IsSums

LEMMA SumsStep ==
    ASSUME NEW S, NEW v, NEW g, IsSums(g, v, S), NEW s \in SUBSET S, s # {}
    PROVE  g[s] = v[First(s)] + g[s \ {First(s)}]
  BY DEF IsSums

LEMMA SumsAreIntegers ==
    ASSUME NEW S, IsFiniteSet(S), NEW v, \A x \in S : v[x] \in Int, NEW g, IsSums(g, v, S)
    PROVE  \A s \in SUBSET S : g[s] \in Int
<1> DEFINE C == {s \in SUBSET S : g[s] \notin Int}
<1> SUFFICES ASSUME C # {} PROVE FALSE
  OBVIOUS
<1>0. C \in SUBSET (SUBSET S)
  OBVIOUS
<1>1. PICK m \in C : \A u \in C : u \subseteq m => u = m
  <2> HIDE DEF C
  <2> QED
    BY <1>0, MinimalSubset
<1>2. m # {}
  BY SumsNone
<1>3. First(m) \in m
  BY <1>2, FirstIn
<1>4. g[m \ {First(m)}] \in Int
  BY <1>1, <1>3
<1>5. g[m] = v[First(m)] + g[m \ {First(m)}]
  BY <1>2, SumsStep
<1>6. v[First(m)] \in Int
  BY <1>3
<1> QED
  BY <1>4, <1>5, <1>6

(* The sums depend on the values over the set only, and are unique.        *)
LEMMA SumsUnique ==
    ASSUME NEW S, IsFiniteSet(S), NEW v, NEW w, \A x \in S : v[x] = w[x],
           NEW g, IsSums(g, v, S), NEW h, IsSums(h, w, S)
    PROVE  \A s \in SUBSET S : g[s] = h[s]
<1> DEFINE C == {s \in SUBSET S : g[s] # h[s]}
<1> SUFFICES ASSUME C # {} PROVE FALSE
  OBVIOUS
<1>0. C \in SUBSET (SUBSET S)
  OBVIOUS
<1>1. PICK m \in C : \A u \in C : u \subseteq m => u = m
  <2> HIDE DEF C
  <2> QED
    BY <1>0, MinimalSubset
<1>2. m # {}
  BY SumsNone
<1>3. First(m) \in m
  BY <1>2, FirstIn
<1>4. g[m \ {First(m)}] = h[m \ {First(m)}]
  BY <1>1, <1>3
<1>5. g[m] = v[First(m)] + g[m \ {First(m)}]
  BY <1>2, SumsStep
<1>6. h[m] = w[First(m)] + h[m \ {First(m)}]
  BY <1>2, SumsStep
<1>7. v[First(m)] = w[First(m)]
  BY <1>3
<1>8. g[m] = h[m]
  BY <1>4, <1>5, <1>6, <1>7
<1> QED
  BY <1>8

LEMMA SumsRestrict ==
    ASSUME NEW S, NEW v, NEW g, IsSums(g, v, S), NEW U \in SUBSET S
    PROVE  IsSums([s \in SUBSET U |-> g[s]], v, U)
<1> DEFINE h == [s \in SUBSET U |-> g[s]]
<1>1. h[{}] = 0
  BY SumsNone
<1>2. ASSUME NEW s \in SUBSET U, s # {} PROVE h[s] = v[First(s)] + h[s \ {First(s)}]
  <2>1. g[s] = v[First(s)] + g[s \ {First(s)}]
    BY <1>2, SumsStep
  <2> QED
    BY <2>1
<1>3. h = [s \in SUBSET U |-> h[s]]
  OBVIOUS
<1> HIDE DEF h
<1> QED
  BY <1>1, <1>2, <1>3 DEF IsSums

LEMMA SumsExist ==
    ASSUME NEW S, IsFiniteSet(S), NEW v
    PROVE  \E g : IsSums(g, v, S)
<1> DEFINE C == {U \in SUBSET S : ~ \E g : IsSums(g, v, U)}
<1> SUFFICES ASSUME C # {} PROVE FALSE
  OBVIOUS
<1>0. C \in SUBSET (SUBSET S)
  OBVIOUS
<1>1. PICK m \in C : \A u \in C : u \subseteq m => u = m
  <2> HIDE DEF C
  <2> QED
    BY <1>0, MinimalSubset
<1> DEFINE sums(U) == CHOOSE g : IsSums(g, v, U)
<1>2. ASSUME NEW U \in SUBSET m, U # m PROVE IsSums(sums(U), v, U)
  BY <1>1, <1>2
<1> DEFINE k(s) == IF s = {} THEN 0 ELSE v[First(s)] + sums(s \ {First(s)})[s \ {First(s)}]
<1> DEFINE h == [s \in SUBSET m |-> k(s)]
<1>3. ASSUME NEW s \in SUBSET m, s # m PROVE h[s] = sums(s)[s]
  <2>1. CASE s = {}
    BY <1>2, <1>3, <2>1, SumsNone
  <2>2. CASE s # {}
    <3> DEFINE r == s \ {First(s)}
    <3>1. r \in SUBSET s /\ r \in SUBSET m /\ r # m /\ s \in SUBSET S /\ r \in SUBSET r /\ s \in SUBSET s
      BY <1>3
    <3>2. IsSums(sums(s), v, s) /\ IsSums(sums(r), v, r)
      BY <1>2, <1>3, <3>1
    <3>3. IsSums([u \in SUBSET r |-> sums(s)[u]], v, r)
      BY <3>1, <3>2, SumsRestrict
    <3>4. IsFiniteSet(r)
      BY <3>1, FS_Subset
    <3> HIDE DEF r, sums
    <3>5. sums(s)[r] = sums(r)[r]
      BY <3>1, <3>2, <3>3, <3>4, SumsUnique
    <3>6. sums(s)[s] = v[First(s)] + sums(s)[r]
      BY <2>2, <3>1, <3>2, SumsStep DEF r
    <3>7. h[s] = v[First(s)] + sums(r)[r]
      BY <2>2 DEF r
    <3> QED
      BY <3>5, <3>6, <3>7
  <2> QED
    BY <2>1, <2>2
<1>4. ASSUME NEW s \in SUBSET m, s # {}
      PROVE  h[s] = v[First(s)] + h[s \ {First(s)}]
  <2>1. First(s) \in s
    BY <1>4, FirstIn
  <2>2. s \ {First(s)} \in SUBSET m /\ s \ {First(s)} # m
    BY <2>1
  <2>3. h[s \ {First(s)}] = sums(s \ {First(s)})[s \ {First(s)}]
    BY <1>3, <2>2
  <2> QED
    BY <1>4, <2>3
<1>5. h[{}] = 0
  OBVIOUS
<1> HIDE DEF k
<1>6. IsSums(h, v, m)
  <2> HIDE DEF h
  <2>1. h = [s \in SUBSET m |-> h[s]]
    BY DEF h
  <2>2. \A s \in SUBSET m : h[s] = IF s = {} THEN 0 ELSE v[First(s)] + h[s \ {First(s)}]
    BY <1>4, <1>5
  <2> QED
    BY <2>1, <2>2 DEF IsSums
<1> QED
  BY <1>6

(* An element may be taken out first, whichever it is.                     *)
LEMMA SumsAny ==
    ASSUME NEW S, IsFiniteSet(S), NEW v, \A x \in S : v[x] \in Int, NEW g, IsSums(g, v, S),
           NEW t \in SUBSET S, NEW z \in t
    PROVE  g[t] = v[z] + g[t \ {z}]
<1> DEFINE C == {s \in SUBSET S : \E x \in s : g[s] # v[x] + g[s \ {x}]}
<1> SUFFICES ASSUME C # {} PROVE FALSE
  OBVIOUS
<1>0. C \in SUBSET (SUBSET S)
  OBVIOUS
<1>1. PICK m \in C : \A u \in C : u \subseteq m => u = m
  <2> HIDE DEF C
  <2> QED
    BY <1>0, MinimalSubset
<1>2. PICK x \in m : g[m] # v[x] + g[m \ {x}]
  OBVIOUS
<1>3. PICK y \in m : y = First(m)
  BY FirstIn
<1>4. g[m] = v[y] + g[m \ {y}]
  BY <1>3, SumsStep
<1>5. x # y
  BY <1>2, <1>4
<1>6. g[m \ {y}] = v[x] + g[(m \ {y}) \ {x}]
  <2>1. m \ {y} \in SUBSET S /\ m \ {y} \notin C
    BY <1>1, <1>3
  <2> QED
    BY <1>5, <2>1
<1>7. g[m \ {x}] = v[y] + g[(m \ {x}) \ {y}]
  <2>1. m \ {x} \in SUBSET S /\ m \ {x} \notin C
    BY <1>1, <1>2
  <2> QED
    BY <1>5, <2>1
<1>8. (m \ {y}) \ {x} = (m \ {x}) \ {y}
  OBVIOUS
<1>9. PICK a \in Int, b \in Int, c \in Int :
         a = v[x] /\ b = v[y] /\ c = g[(m \ {x}) \ {y}]
  BY SumsAreIntegers
<1>10. g[m] = b + (a + c) /\ g[m \ {x}] = b + c
  BY <1>4, <1>6, <1>7, <1>8, <1>9
<1> QED
  BY <1>2, <1>9, <1>10

-----------------------------------------------------------------------------
(* The fold is the sum.                                                    *)
LEMMA FoldIsSum ==
    ASSUME NEW S, IsFiniteSet(S), NEW v, NEW g, IsSums(g, v, S)
    PROVE  SumFunctionOnSet(v, S) = g[S]
<1> DEFINE it == CHOOSE h : h = [s \in SUBSET S |->
              IF s = {} THEN 0 ELSE v[CHOOSE x \in s : TRUE] + h[s \ {CHOOSE x \in s : TRUE}]]
<1>1. SumFunctionOnSet(v, S) = it[S]
  BY DEF SumFunctionOnSet, FoldFunctionOnSet, MapThenFoldSet
<1>2. IsSums(it, v, S)
  BY DEF IsSums, First
<1> HIDE DEF it
<1> QED
  BY <1>1, <1>2, SumsUnique, S \in SUBSET S

LEMMA SumOfNone == ASSUME NEW v PROVE SumFunctionOnSet(v, {}) = 0
<1>1. PICK g : IsSums(g, v, {})
  BY SumsExist, FS_EmptySet
<1> QED
  BY <1>1, FoldIsSum, SumsNone, FS_EmptySet

LEMMA SumType ==
    ASSUME NEW S, IsFiniteSet(S), NEW v, \A x \in S : v[x] \in Int
    PROVE  SumFunctionOnSet(v, S) \in Int
<1>1. PICK g : IsSums(g, v, S)
  BY SumsExist
<1> QED
  BY <1>1, FoldIsSum, SumsAreIntegers, S \in SUBSET S

LEMMA SumSame ==
    ASSUME NEW S, IsFiniteSet(S), NEW v, NEW w, \A x \in S : v[x] = w[x]
    PROVE  SumFunctionOnSet(v, S) = SumFunctionOnSet(w, S)
<1>1. PICK g : IsSums(g, v, S)
  BY SumsExist
<1>2. PICK h : IsSums(h, w, S)
  BY SumsExist
<1>3. g[S] = h[S]
  BY <1>1, <1>2, SumsUnique, S \in SUBSET S
<1> QED
  BY <1>1, <1>2, <1>3, FoldIsSum

LEMMA SumAdd ==
    ASSUME NEW S, IsFiniteSet(S), NEW y, y \notin S,
           NEW v, \A x \in S \cup {y} : v[x] \in Int
    PROVE  SumFunctionOnSet(v, S \cup {y}) = v[y] + SumFunctionOnSet(v, S)
<1>1. IsFiniteSet(S \cup {y}) /\ (S \cup {y}) \ {y} = S /\ S \in SUBSET (S \cup {y})
  BY FS_AddElement
<1>2. PICK T : T = S \cup {y}
  OBVIOUS
<1>3. PICK g : IsSums(g, v, T)
  BY <1>1, <1>2, SumsExist
<1>4. g[T] = v[y] + g[T \ {y}]
  <2>1. IsFiniteSet(T) /\ T \in SUBSET T /\ y \in T
    BY <1>1, <1>2
  <2>2. \A x \in T : v[x] \in Int
    BY <1>2
  <2> QED
    BY <1>3, <2>1, <2>2, SumsAny
<1>5. IsSums([s \in SUBSET S |-> g[s]], v, S)
  <2>1. S \in SUBSET T
    BY <1>2
  <2> QED
    BY <1>3, <2>1, SumsRestrict
<1>6. SumFunctionOnSet(v, S) = g[S]
  BY <1>5, FoldIsSum, S \in SUBSET S
<1>7. SumFunctionOnSet(v, T) = g[T]
  BY <1>1, <1>2, <1>3, FoldIsSum
<1> QED
  BY <1>1, <1>2, <1>4, <1>6, <1>7

(* Smaller values have a smaller sum.                                      *)
LEMMA SumMonotone ==
    ASSUME NEW S, IsFiniteSet(S), NEW v, NEW w,
           \A x \in S : v[x] \in Int /\ w[x] \in Int /\ v[x] <= w[x]
    PROVE  SumFunctionOnSet(v, S) <= SumFunctionOnSet(w, S)
<1>1. PICK g : IsSums(g, v, S)
  BY SumsExist
<1>2. PICK h : IsSums(h, w, S)
  BY SumsExist
<1> DEFINE C == {s \in SUBSET S : ~(g[s] <= h[s])}
<1>3. ASSUME C # {} PROVE FALSE
  <2>1. C \in SUBSET (SUBSET S)
    OBVIOUS
  <2>2. PICK m \in C : \A u \in C : u \subseteq m => u = m
    <3> HIDE DEF C
    <3> QED
      BY <1>3, <2>1, MinimalSubset
  <2> m \in SUBSET S
    OBVIOUS
  <2>3. m # {}
    BY <1>1, <1>2, SumsNone
  <2>4. First(m) \in m
    BY <2>3, FirstIn
  <2>5. g[m \ {First(m)}] <= h[m \ {First(m)}]
    BY <2>2, <2>4
  <2>6. g[m] = v[First(m)] + g[m \ {First(m)}]
    BY <1>1, <2>3, SumsStep
  <2>7. h[m] = w[First(m)] + h[m \ {First(m)}]
    BY <1>2, <2>3, SumsStep
  <2>8. g[m \ {First(m)}] \in Int /\ h[m \ {First(m)}] \in Int
    BY <1>1, <1>2, SumsAreIntegers
  <2>9. PICK a \in Int, b \in Int, c \in Int, d \in Int :
           /\ a = v[First(m)] /\ b = w[First(m)] /\ a <= b
           /\ c = g[m \ {First(m)}] /\ d = h[m \ {First(m)}] /\ c <= d
    BY <2>4, <2>5, <2>8
  <2>10. g[m] <= h[m]
    BY <2>6, <2>7, <2>9
  <2> QED
    BY <2>10
<1>4. g[S] <= h[S]
  BY <1>3
<1> QED
  BY <1>1, <1>2, <1>4, FoldIsSum, S \in SUBSET S

(* Zeros add up to zero.                                                   *)
LEMMA SumOfZeros ==
    ASSUME NEW S, IsFiniteSet(S), NEW v, \A x \in S : v[x] = 0
    PROVE  SumFunctionOnSet(v, S) = 0
<1>1. PICK g : IsSums(g, v, S)
  BY SumsExist
<1> DEFINE C == {s \in SUBSET S : g[s] # 0}
<1>2. ASSUME C # {} PROVE FALSE
  <2>1. C \in SUBSET (SUBSET S)
    OBVIOUS
  <2>2. PICK m \in C : \A u \in C : u \subseteq m => u = m
    <3> HIDE DEF C
    <3> QED
      BY <1>2, <2>1, MinimalSubset
  <2> m \in SUBSET S
    OBVIOUS
  <2>3. m # {}
    BY <1>1, SumsNone
  <2>4. First(m) \in m
    BY <2>3, FirstIn
  <2>5. g[m \ {First(m)}] = 0
    BY <2>2, <2>4
  <2>6. g[m] = v[First(m)] + g[m \ {First(m)}]
    BY <1>1, <2>3, SumsStep
  <2> QED
    BY <2>2, <2>4, <2>5, <2>6
<1>3. g[S] = 0
  BY <1>2
<1> QED
  BY <1>1, <1>3, FoldIsSum

(* One more at one place is one more in the sum.                           *)
LEMMA SumOneMore ==
    ASSUME NEW S, IsFiniteSet(S), NEW y \in S, NEW v, NEW w,
           \A x \in S : v[x] \in Int,
           w[y] = v[y] + 1, \A x \in S \ {y} : w[x] = v[x]
    PROVE  SumFunctionOnSet(w, S) = SumFunctionOnSet(v, S) + 1
<1>1. PICK T : T = S \ {y}
  OBVIOUS
<1>2. IsFiniteSet(T) /\ y \notin T /\ T \cup {y} = S
  BY <1>1, FS_RemoveElement
<1>3. \A x \in T \cup {y} : v[x] \in Int /\ w[x] \in Int
  BY <1>1
<1>4. SumFunctionOnSet(v, T \cup {y}) = v[y] + SumFunctionOnSet(v, T)
  BY <1>2, <1>3, SumAdd
<1>5. SumFunctionOnSet(w, T \cup {y}) = w[y] + SumFunctionOnSet(w, T)
  BY <1>2, <1>3, SumAdd
<1>6. SumFunctionOnSet(w, T) = SumFunctionOnSet(v, T)
  BY <1>1, <1>2, SumSame
<1>7. PICK a \in Int, b \in Int : a = v[y] /\ b = SumFunctionOnSet(v, T)
  BY <1>2, <1>3, SumType
<1>8. SumFunctionOnSet(w, S) = (a + 1) + b /\ SumFunctionOnSet(v, S) = a + b
  BY <1>2, <1>4, <1>5, <1>6, <1>7
<1> QED
  BY <1>7, <1>8
=============================================================================
