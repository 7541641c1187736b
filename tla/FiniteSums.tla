----------------------------- MODULE FiniteSums -----------------------------
(***************************************************************************)
(* Sums over finite sets: what SumFunctionOnSet of the community modules   *)
(* computes.  Its recursion is taken apart by minimal counterexamples      *)
(* among the subsets of a finite set.                                      *)
(***************************************************************************)
EXTENDS Integers, FiniteSets, Functions, FiniteSetTheorems, WellFoundedInduction, TLAPS

\* A nonempty family of subsets of a finite set has a minimal member.
LEMMA MinimalSubset ==
  ASSUME NEW S, IsFiniteSet(S), NEW B \in SUBSET (SUBSET S), B # {}
  PROVE  \E T \in B : \A U \in B : U \subseteq T => U = T
<1>1. B \subseteq FiniteSubsetsOf(S)
  BY FS_Subset DEF FiniteSubsetsOf
<1>2. IsWellFoundedOn(StrictSubsetOrdering(S), FiniteSubsetsOf(S))
  BY FS_StrictSubsetOrderingWellFounded
<1>3. PICK T \in B : \A U \in B : ~ (<<U, T>> \in StrictSubsetOrdering(S))
  <2> HIDE DEF FiniteSubsetsOf, StrictSubsetOrdering, IsWellFoundedOn
  <2> QED BY <1>1, <1>2, WFMin
<1>4. \A U \in B : U \subseteq T => U = T
  BY <1>3 DEF StrictSubsetOrdering
<1> QED BY <1>4

Some(s) == CHOOSE x \in s : TRUE

Sum(f, S) == SumFunctionOnSet(f, S)

\* The function whose value at S is the sum over S: MapThenFoldSet's iter.
SumsOver(f, S, it) ==
  it = [s \in SUBSET S |-> IF s = {} THEN 0 ELSE f[Some(s)] + it[s \ {Some(s)}]]

LEMMA SumIsFold ==
  ASSUME NEW f, NEW S
  PROVE  Sum(f, S) = (CHOOSE it : SumsOver(f, S, it))[S]
BY DEF Sum, SumFunctionOnSet, FoldFunctionOnSet, MapThenFoldSet, SumsOver, Some

LEMMA SomeOfNonempty == ASSUME NEW s, s # {} PROVE Some(s) \in s
BY DEF Some

LEMMA SumsOverAt ==
  ASSUME NEW f, NEW S, NEW it, SumsOver(f, S, it)
  PROVE  /\ it[{}] = 0
         /\ \A s \in SUBSET S : s # {} => it[s] = f[Some(s)] + it[s \ {Some(s)}]
<1> DEFINE val(s) == IF s = {} THEN 0 ELSE f[Some(s)] + it[s \ {Some(s)}]
<1>1. it = [s \in SUBSET S |-> val(s)]
  BY DEF SumsOver
<1>2. \A s \in SUBSET S : it[s] = val(s)
  <2> HIDE DEF val
  <2> QED BY <1>1
<1> QED BY <1>2

LEMMA SumsOverAll ==
  ASSUME NEW f, NEW S, NEW it, SumsOver(f, S, it)
  PROVE  /\ S = {} => it[S] = 0
         /\ S # {} => it[S] = f[Some(S)] + it[S \ {Some(S)}]
<1>1. S \in SUBSET S
  OBVIOUS
<1>2. S # {} => it[S] = f[Some(S)] + it[S \ {Some(S)}]
  BY <1>1, SumsOverAt
<1>3. S = {} => it[S] = 0
  BY SumsOverAt
<1> QED BY <1>2, <1>3

\* Two of them agree where both are defined.
LEMMA SumsOverAgree ==
  ASSUME NEW f, NEW S, IsFiniteSet(S), NEW a, SumsOver(f, S, a),
         NEW T, S \subseteq T, NEW b, SumsOver(f, T, b)
  PROVE  a[S] = b[S]
<1> DEFINE B == {s \in SUBSET S : a[s] # b[s]}
<1>1. SUFFICES ASSUME B # {} PROVE FALSE
  OBVIOUS
<1>2. PICK s \in B : \A u \in B : u \subseteq s => u = s
  <2>1. B \in SUBSET (SUBSET S)
    OBVIOUS
  <2> HIDE DEF B
  <2> QED BY <1>1, <2>1, MinimalSubset
<1>3. s \in SUBSET S /\ s \in SUBSET T
  OBVIOUS
<1>4. s # {}
  BY SumsOverAt
<1>5. s \ {Some(s)} \in SUBSET S /\ s \ {Some(s)} # s
  BY <1>4, SomeOfNonempty
<1>6. a[s \ {Some(s)}] = b[s \ {Some(s)}]
  BY <1>2, <1>5
<1> QED BY <1>3, <1>4, <1>6, SumsOverAt

\* There is one for every finite set.
LEMMA SumsOverExists ==
  ASSUME NEW f, NEW S, IsFiniteSet(S)
  PROVE  \E it : SumsOver(f, S, it)
<1> DEFINE B == {T \in SUBSET S : \A it : ~SumsOver(f, T, it)}
<1>1. SUFFICES ASSUME B # {} PROVE FALSE
  OBVIOUS
<1>2. PICK T \in B : \A U \in B : U \subseteq T => U = T
  <2>1. B \in SUBSET (SUBSET S)
    OBVIOUS
  <2> HIDE DEF B
  <2> QED BY <1>1, <2>1, MinimalSubset
<1> DEFINE G(U) == CHOOSE it : SumsOver(f, U, it)
           V(U) == IF U = {} THEN 0 ELSE G(U)[U]
           sum  == [s \in SUBSET T |->
                      IF s = {} THEN 0 ELSE f[Some(s)] + V(s \ {Some(s)})]
<1>3. \A U \in SUBSET T : U # T => SumsOver(f, U, G(U))
  <2> TAKE U \in SUBSET T
  <2> HAVE U # T
  <2>1. U \notin B
    BY <1>2
  <2>2. \E it : SumsOver(f, U, it)
    BY <2>1
  <2> QED BY <2>2
<1>4. \A U \in SUBSET T : IsFiniteSet(U)
  BY FS_Subset
<1>5. ASSUME NEW s \in SUBSET T, s # {}
      PROVE  sum[s \ {Some(s)}] = V(s \ {Some(s)})
  <2> DEFINE U == s \ {Some(s)}
             W == U \ {Some(U)}
  <2>1. U \in SUBSET T /\ U # T /\ W \in SUBSET U
    BY <1>5, SomeOfNonempty
  <2>2. CASE U = {}
    BY <2>1, <2>2
  <2>3. CASE U # {}
    <3>1. W # U /\ W # T /\ W \in SUBSET T
      BY <2>1, <2>3, SomeOfNonempty
    <3>2. SumsOver(f, U, G(U)) /\ SumsOver(f, W, G(W))
      BY <1>3, <2>1, <3>1
    <3> HIDE DEF G
    <3>3. G(U)[U] = f[Some(U)] + G(U)[W]
      BY <2>3, <3>2, SumsOverAll
    <3>4. G(W)[W] = G(U)[W]
      BY <1>4, <2>1, <3>1, <3>2, SumsOverAgree
    <3>5. V(W) = G(W)[W]
      <4>1. G({})[{}] = 0 \/ W # {}
        BY <3>2, SumsOverAt
      <4> QED BY <4>1
    <3>6. sum[U] = f[Some(U)] + V(W)
      <4> HIDE DEF V
      <4> QED BY <2>1, <2>3
    <3> QED BY <2>3, <3>3, <3>4, <3>5, <3>6
  <2> QED BY <2>2, <2>3
<1>6. SumsOver(f, T, sum)
  <2> HIDE DEF V, G
  <2> DEFINE now(s) == IF s = {} THEN 0 ELSE f[Some(s)] + V(s \ {Some(s)})
             own(s) == IF s = {} THEN 0 ELSE f[Some(s)] + sum[s \ {Some(s)}]
  <2>1. \A s \in SUBSET T : now(s) = own(s)
    <3> HIDE DEF sum
    <3> QED BY <1>5
  <2>2. sum = [s \in SUBSET T |-> now(s)]
    OBVIOUS
  <2>3. sum = [s \in SUBSET T |-> own(s)]
    <3> HIDE DEF now, own, sum
    <3> QED BY <2>1, <2>2
  <2> QED BY <2>3 DEF SumsOver
<1> QED BY <1>6

\* What a sum is, by its chosen element.
LEMMA SumUnfolds ==
  ASSUME NEW f, NEW S, IsFiniteSet(S)
  PROVE  /\ S = {} => Sum(f, S) = 0
         /\ S # {} => Sum(f, S)
                        = f[Some(S)] + Sum(f, S \ {Some(S)})
<1> DEFINE T == S \ {Some(S)}
<1>1. PICK a : SumsOver(f, S, a) /\ Sum(f, S) = a[S]
  <2>1. \E it : SumsOver(f, S, it)
    BY SumsOverExists
  <2> QED BY <2>1, SumIsFold
<1>2. IsFiniteSet(T) /\ T \subseteq S
  BY FS_Subset
<1>3. PICK b : SumsOver(f, T, b) /\ Sum(f, T) = b[T]
  <2>1. \E it : SumsOver(f, T, it)
    BY <1>2, SumsOverExists
  <2> QED BY <2>1, SumIsFold
<1>4. b[T] = a[T]
  BY <1>1, <1>2, <1>3, SumsOverAgree
<1>5. /\ S = {} => a[S] = 0
      /\ S # {} => a[S] = f[Some(S)] + a[S \ {Some(S)}]
  BY <1>1, SumsOverAll
<1> QED BY <1>1, <1>3, <1>4, <1>5

LEMMA SumOfNone == ASSUME NEW f PROVE Sum(f, {}) = 0
BY SumUnfolds, FS_EmptySet

LEMMA SumTyped ==
  ASSUME NEW S, IsFiniteSet(S), NEW f, \A x \in S : f[x] \in Int
  PROVE  Sum(f, S) \in Int
<1> DEFINE B == {T \in SUBSET S : Sum(f, T) \notin Int}
<1>1. SUFFICES ASSUME B # {} PROVE FALSE
  OBVIOUS
<1>2. PICK T \in B : \A U \in B : U \subseteq T => U = T
  <2>1. B \in SUBSET (SUBSET S)
    OBVIOUS
  <2> HIDE DEF B
  <2> QED BY <1>1, <2>1, MinimalSubset
<1>3. IsFiniteSet(T)
  BY FS_Subset
<1>4. T # {}
  BY SumOfNone
<1>5. Some(T) \in T /\ T \ {Some(T)} \notin B
  BY <1>2, <1>4, SomeOfNonempty
<1>6. Sum(f, T \ {Some(T)}) \in Int /\ f[Some(T)] \in Int
  BY <1>5
<1>7. Sum(f, T) = f[Some(T)] + Sum(f, T \ {Some(T)})
  BY <1>3, <1>4, SumUnfolds
<1> QED BY <1>6, <1>7

\* The order of summation does not matter.
LEMMA SumWithout ==
  ASSUME NEW S, IsFiniteSet(S), NEW f, \A x \in S : f[x] \in Int, NEW y \in S
  PROVE  Sum(f, S) = f[y] + Sum(f, S \ {y})
<1> DEFINE B == {T \in SUBSET S :
                  \E x \in T : Sum(f, T) # f[x] + Sum(f, T \ {x})}
<1>1. SUFFICES ASSUME B # {} PROVE FALSE
  OBVIOUS
<1>2. PICK T \in B : \A U \in B : U \subseteq T => U = T
  <2>1. B \in SUBSET (SUBSET S)
    OBVIOUS
  <2> HIDE DEF B
  <2> QED BY <1>1, <2>1, MinimalSubset
<1>3. PICK x \in T : Sum(f, T) # f[x] + Sum(f, T \ {x})
  OBVIOUS
<1>4. IsFiniteSet(T)
  BY FS_Subset
<1> DEFINE z == Some(T)
<1>5. z \in T /\ Sum(f, T) = f[z] + Sum(f, T \ {z})
  BY <1>3, <1>4, SumUnfolds, SomeOfNonempty
<1> HIDE DEF z
<1>6. x # z
  BY <1>3, <1>5
<1>7. T \ {z} \notin B /\ T \ {x} \notin B
  BY <1>2, <1>5
<1>8. /\ Sum(f, T \ {z}) = f[x] + Sum(f, (T \ {z}) \ {x})
      /\ Sum(f, T \ {x}) = f[z] + Sum(f, (T \ {x}) \ {z})
  BY <1>5, <1>6, <1>7
<1>9. (T \ {z}) \ {x} = (T \ {x}) \ {z}
  OBVIOUS
<1>10. Sum(f, (T \ {x}) \ {z}) \in Int /\ f[x] \in Int /\ f[z] \in Int
  <2>1. (T \ {x}) \ {z} \subseteq S /\ IsFiniteSet((T \ {x}) \ {z})
    BY <1>4, FS_Subset
  <2>2. \A w \in (T \ {x}) \ {z} : f[w] \in Int
    BY <2>1
  <2>3. Sum(f, (T \ {x}) \ {z}) \in Int
    BY <2>1, <2>2, SumTyped
  <2> QED BY <1>5, <2>3
<1>11. f[z] + (f[x] + Sum(f, (T \ {x}) \ {z}))
         = f[x] + (f[z] + Sum(f, (T \ {x}) \ {z}))
  BY <1>10
<1> QED BY <1>3, <1>5, <1>8, <1>9, <1>11

\* Functions with the same values have the same sum.
LEMMA SumCongruent ==
  ASSUME NEW S, IsFiniteSet(S), NEW f, NEW g, \A x \in S : f[x] = g[x]
  PROVE  Sum(f, S) = Sum(g, S)
<1> DEFINE B == {T \in SUBSET S : Sum(f, T) # Sum(g, T)}
<1>1. SUFFICES ASSUME B # {} PROVE FALSE
  OBVIOUS
<1>2. PICK T \in B : \A U \in B : U \subseteq T => U = T
  <2>1. B \in SUBSET (SUBSET S)
    OBVIOUS
  <2> HIDE DEF B
  <2> QED BY <1>1, <2>1, MinimalSubset
<1>3. IsFiniteSet(T)
  BY FS_Subset
<1>4. T # {}
  BY SumOfNone
<1>5. Some(T) \in T /\ T \ {Some(T)} \notin B
  BY <1>2, <1>4, SomeOfNonempty
<1>6. Sum(f, T \ {Some(T)}) = Sum(g, T \ {Some(T)}) /\ f[Some(T)] = g[Some(T)]
  BY <1>5
<1>7. /\ Sum(f, T) = f[Some(T)] + Sum(f, T \ {Some(T)})
      /\ Sum(g, T) = g[Some(T)] + Sum(g, T \ {Some(T)})
  BY <1>3, <1>4, SumUnfolds
<1> QED BY <1>6, <1>7

LEMMA SumBounded ==
  ASSUME NEW S, IsFiniteSet(S), NEW f, NEW m \in Nat, \A x \in S : f[x] \in 0..m
  PROVE  Sum(f, S) \in 0..(Cardinality(S) * m)
<1> DEFINE B == {T \in SUBSET S : Sum(f, T) \notin 0..(Cardinality(T) * m)}
<1>1. SUFFICES ASSUME B # {} PROVE FALSE
  OBVIOUS
<1>2. PICK T \in B : \A U \in B : U \subseteq T => U = T
  <2>1. B \in SUBSET (SUBSET S)
    OBVIOUS
  <2> HIDE DEF B
  <2> QED BY <1>1, <2>1, MinimalSubset
<1>3. IsFiniteSet(T)
  BY FS_Subset
<1>4. T # {}
  BY SumOfNone, FS_EmptySet
<1> DEFINE z == Some(T)
           U == T \ {z}
<1>5. z \in T /\ U \notin B /\ U \subseteq S
  BY <1>2, <1>4, SomeOfNonempty
<1>6. Sum(f, T) = f[z] + Sum(f, U)
  BY <1>3, <1>4, SumUnfolds
<1> HIDE DEF z
<1>7. f[z] \in 0..m /\ Sum(f, U) \in 0..(Cardinality(U) * m)
  BY <1>5
<1>8. /\ Cardinality(T) \in Nat /\ Cardinality(U) \in Nat
      /\ Cardinality(T) = Cardinality(U) + 1
  <2>1. IsFiniteSet(U) /\ Cardinality(U) = Cardinality(T) - 1
    BY <1>3, <1>5, FS_RemoveElement
  <2>2. Cardinality(T) \in Nat /\ Cardinality(U) \in Nat
    BY <1>3, <2>1, FS_CardinalityType
  <2> QED BY <2>1, <2>2
<1>9. PICK n \in Nat : n = Cardinality(U)
  BY <1>8
<1>10. Cardinality(T) * m = n * m + m /\ n * m \in Nat
  <2>1. (n + 1) * m = n * m + m /\ n * m \in Nat
    OBVIOUS
  <2> QED BY <1>8, <1>9, <2>1
<1>11. Sum(f, T) \in 0..(Cardinality(T) * m)
  BY <1>6, <1>7, <1>9, <1>10
<1> QED BY <1>11

LEMMA SumMonotone ==
  ASSUME NEW S, IsFiniteSet(S), NEW f, NEW g,
         \A x \in S : f[x] \in Int /\ g[x] \in Int /\ f[x] <= g[x]
  PROVE  Sum(f, S) <= Sum(g, S)
<1> DEFINE B == {T \in SUBSET S : ~(Sum(f, T) <= Sum(g, T))}
<1>1. SUFFICES ASSUME B # {} PROVE FALSE
  OBVIOUS
<1>2. PICK T \in B : \A U \in B : U \subseteq T => U = T
  <2>1. B \in SUBSET (SUBSET S)
    OBVIOUS
  <2> HIDE DEF B
  <2> QED BY <1>1, <2>1, MinimalSubset
<1>3. IsFiniteSet(T)
  BY FS_Subset
<1>4. T # {}
  BY SumOfNone
<1> DEFINE z == Some(T)
           U == T \ {z}
<1>5. z \in T /\ U \notin B /\ U \subseteq S
  BY <1>2, <1>4, SomeOfNonempty
<1>6. Sum(f, T) = f[z] + Sum(f, U) /\ Sum(g, T) = g[z] + Sum(g, U)
  BY <1>3, <1>4, SumUnfolds
<1>7. IsFiniteSet(U)
  BY <1>3, FS_Subset
<1>8. Sum(f, U) \in Int /\ Sum(g, U) \in Int
  BY <1>5, <1>7, SumTyped
<1>9. f[z] \in Int /\ g[z] \in Int /\ f[z] <= g[z] /\ Sum(f, U) <= Sum(g, U)
  BY <1>5
<1>10. ~(Sum(f, T) <= Sum(g, T))
  OBVIOUS
<1> HIDE DEF z, U
<1> QED BY <1>6, <1>8, <1>9, <1>10

\* Sums of functions that differ in one place.
LEMMA SumChangedAt ==
  ASSUME NEW S, IsFiniteSet(S), NEW f, NEW g, NEW y \in S,
         \A x \in S : f[x] \in Int /\ g[x] \in Int,
         \A x \in S \ {y} : f[x] = g[x]
  PROVE  Sum(f, S) = Sum(g, S) - g[y] + f[y]
<1>1. IsFiniteSet(S \ {y})
  BY FS_Subset
<1>2. Sum(f, S) = f[y] + Sum(f, S \ {y}) /\ Sum(g, S) = g[y] + Sum(g, S \ {y})
  BY SumWithout
<1>3. Sum(f, S \ {y}) = Sum(g, S \ {y})
  BY <1>1, SumCongruent
<1>4. Sum(f, S \ {y}) \in Int
  BY <1>1, SumTyped
<1> QED BY <1>2, <1>3, <1>4

\* Counting the members of a set key by key counts each of them once.
LEMMA CountedByKey ==
  ASSUME NEW D, IsFiniteSet(D), NEW K, IsFiniteSet(K), NEW g, \A c \in D : g[c] \in K
  PROVE  Sum([k \in K |-> Cardinality({c \in D : g[c] = k})], K) = Cardinality(D)
<1> DEFINE Class(E, k) == {c \in E : g[c] = k}
           F(E) == [k \in K |-> Cardinality(Class(E, k))]
           B == {E \in SUBSET D : Sum(F(E), K) # Cardinality(E)}
<1>1. SUFFICES ASSUME B # {} PROVE FALSE
  OBVIOUS
<1>2. PICK E \in B : \A U \in B : U \subseteq E => U = E
  <2>1. B \in SUBSET (SUBSET D)
    OBVIOUS
  <2> HIDE DEF B
  <2> QED BY <1>1, <2>1, MinimalSubset
<1>3. E \subseteq D /\ IsFiniteSet(E) /\ Sum(F(E), K) # Cardinality(E)
  BY FS_Subset
<1>4. \A A \in SUBSET E : \A k \in K : IsFiniteSet(Class(A, k)) /\ Cardinality(Class(A, k)) \in Nat
  <2> TAKE A \in SUBSET E
  <2> TAKE k \in K
  <2>1. Class(A, k) \subseteq E
    OBVIOUS
  <2> QED BY <1>3, <2>1, FS_Subset, FS_CardinalityType
<1>5. CASE E = {}
  <2>1. \A k \in K : F(E)[k] \in 0..0
    <3>1. \A k \in K : Class(E, k) = {}
      BY <1>5
    <3> QED BY <3>1, FS_EmptySet
  <2> HIDE DEF F
  <2>2. Sum(F(E), K) \in 0..(Cardinality(K) * 0)
    BY <2>1, SumBounded
  <2>3. Cardinality(K) \in Nat
    BY FS_CardinalityType
  <2>4. Cardinality(E) = 0
    BY <1>5, FS_EmptySet
  <2> QED BY <1>3, <2>2, <2>3, <2>4
<1>6. CASE E # {}
  <2>1. PICK c \in E : TRUE
    BY <1>6
  <2> DEFINE A == E \ {c}
  <2>2. A \subseteq E /\ A \in SUBSET D /\ A # E /\ A \notin B /\ g[c] \in K
    BY <1>2, <1>3, <2>1
  <2>3. Sum(F(A), K) = Cardinality(A)
    BY <2>2
  <2>4. IsFiniteSet(A) /\ Cardinality(A) = Cardinality(E) - 1 /\ Cardinality(E) \in Nat
    BY <1>3, <2>1, FS_RemoveElement, FS_CardinalityType
  <2>5. \A k \in K \ {g[c]} : Class(E, k) = Class(A, k)
    OBVIOUS
  <2>6. Cardinality(Class(E, g[c])) = Cardinality(Class(A, g[c])) + 1
    <3>1. Class(E, g[c]) = Class(A, g[c]) \cup {c} /\ c \notin Class(A, g[c])
      BY <2>1
    <3>2. IsFiniteSet(Class(A, g[c]))
      BY <1>4, <2>2
    <3> HIDE DEF Class
    <3> QED BY <3>1, <3>2, FS_AddElement
  <2>7. \A k \in K : F(E)[k] \in Int /\ F(A)[k] \in Int
    <3>1. \A k \in K : F(E)[k] = Cardinality(Class(E, k)) /\ F(A)[k] = Cardinality(Class(A, k))
      OBVIOUS
    <3> HIDE DEF F, Class, A
    <3> QED BY <1>4, <2>2, <3>1
  <2>8. \A k \in K \ {g[c]} : F(E)[k] = F(A)[k]
    BY <2>5
  <2>9. F(E)[g[c]] = F(A)[g[c]] + 1
    BY <2>2, <2>6
  <2> HIDE DEF F, A, B
  <2>10. Sum(F(E), K) = Sum(F(A), K) - F(A)[g[c]] + F(E)[g[c]]
    BY <2>2, <2>7, <2>8, SumChangedAt
  <2>11. F(A)[g[c]] \in Int
    BY <2>2, <2>7
  <2> QED BY <1>3, <2>3, <2>4, <2>9, <2>10, <2>11
<1> QED BY <1>5, <1>6

LEMMA SumNatural ==
  ASSUME NEW S, IsFiniteSet(S), NEW f, \A x \in S : f[x] \in Nat
  PROVE  Sum(f, S) \in Nat
<1> DEFINE B == {T \in SUBSET S : Sum(f, T) \notin Nat}
<1>1. SUFFICES ASSUME B # {} PROVE FALSE
  OBVIOUS
<1>2. PICK T \in B : \A U \in B : U \subseteq T => U = T
  <2>1. B \in SUBSET (SUBSET S)
    OBVIOUS
  <2> HIDE DEF B
  <2> QED BY <1>1, <2>1, MinimalSubset
<1>3. IsFiniteSet(T)
  BY FS_Subset
<1>4. T # {}
  BY SumOfNone
<1>5. Some(T) \in T /\ T \ {Some(T)} \notin B
  BY <1>2, <1>4, SomeOfNonempty
<1>6. Sum(f, T \ {Some(T)}) \in Nat /\ f[Some(T)] \in Nat
  BY <1>5
<1>7. Sum(f, T) = f[Some(T)] + Sum(f, T \ {Some(T)})
  BY <1>3, <1>4, SumUnfolds
<1> QED BY <1>6, <1>7

\* A sum over a set and one over a part of it, of naturals.
LEMMA SumWithin ==
  ASSUME NEW S, IsFiniteSet(S), NEW T \in SUBSET S, NEW f, \A x \in S : f[x] \in Nat
  PROVE  Sum(f, T) <= Sum(f, S)
<1> DEFINE B == {U \in SUBSET S : T \subseteq U /\ ~(Sum(f, T) <= Sum(f, U))}
<1>1. SUFFICES ASSUME B # {} PROVE FALSE
  OBVIOUS
<1>2. PICK U \in B : \A V \in B : V \subseteq U => V = U
  <2>1. B \in SUBSET (SUBSET S)
    OBVIOUS
  <2> HIDE DEF B
  <2> QED BY <1>1, <2>1, MinimalSubset
<1>3. IsFiniteSet(U) /\ IsFiniteSet(T) /\ T \subseteq U /\ U \subseteq S /\ ~(Sum(f, T) <= Sum(f, U))
  BY FS_Subset
<1>4. Sum(f, T) \in Nat
  BY <1>3, SumNatural
<1>5. U # T
  BY <1>3, <1>4
<1>6. PICK y \in U : y \notin T
  BY <1>3, <1>5
<1>7. U \ {y} \notin B /\ T \subseteq U \ {y}
  BY <1>2, <1>3, <1>6
<1>8. Sum(f, T) <= Sum(f, U \ {y})
  BY <1>3, <1>7
<1>9. Sum(f, U) = f[y] + Sum(f, U \ {y})
  <2>1. \A x \in U : f[x] \in Int
    BY <1>3
  <2> QED BY <1>3, <1>6, <2>1, SumWithout
<1>10. Sum(f, U \ {y}) \in Nat
  <2>1. IsFiniteSet(U \ {y}) /\ \A x \in U \ {y} : f[x] \in Nat
    BY <1>3, FS_Subset
  <2> QED BY <2>1, SumNatural
<1>11. f[y] \in Nat
  BY <1>3, <1>6
<1> QED BY <1>3, <1>4, <1>8, <1>9, <1>10, <1>11

\* Of a multiple plus a constant.
LEMMA SumLinear ==
  ASSUME NEW S, IsFiniteSet(S), NEW f, \A x \in S : f[x] \in Int, NEW a \in Int, NEW b \in Int,
         NEW g, \A x \in S : g[x] = a * f[x] + b
  PROVE  Sum(g, S) = a * Sum(f, S) + Cardinality(S) * b
<1> DEFINE B == {T \in SUBSET S : Sum(g, T) # a * Sum(f, T) + Cardinality(T) * b}
<1>1. SUFFICES ASSUME B # {} PROVE FALSE
  OBVIOUS
<1>2. PICK T \in B : \A U \in B : U \subseteq T => U = T
  <2>1. B \in SUBSET (SUBSET S)
    OBVIOUS
  <2> HIDE DEF B
  <2> QED BY <1>1, <2>1, MinimalSubset
<1>3. IsFiniteSet(T) /\ T \subseteq S /\ Sum(g, T) # a * Sum(f, T) + Cardinality(T) * b
  BY FS_Subset
<1>4. T # {}
  <2>1. Sum(f, {}) = 0 /\ Sum(g, {}) = 0 /\ Cardinality({}) = 0
    BY SumOfNone, FS_EmptySet
  <2>2. a * 0 + 0 * b = 0
    OBVIOUS
  <2>3. ASSUME T = {} PROVE FALSE
    BY <1>3, <2>1, <2>2, <2>3
  <2> QED BY <2>3
<1>5. PICK y \in T : TRUE
  BY <1>4
<1>6. T \ {y} \notin B
  BY <1>2, <1>5
<1>7. Sum(g, T \ {y}) = a * Sum(f, T \ {y}) + Cardinality(T \ {y}) * b
  BY <1>3, <1>6
<1>8. Sum(g, T) = g[y] + Sum(g, T \ {y})
  <2>1. \A x \in T : g[x] \in Int
    BY <1>3
  <2> QED BY <1>3, <2>1, SumWithout
<1>9. Sum(f, T) = f[y] + Sum(f, T \ {y})
  <2>1. \A x \in T : f[x] \in Int
    BY <1>3
  <2> QED BY <1>3, <2>1, SumWithout
<1>10. PICK s \in Int : s = Sum(f, T \ {y})
  <2>1. IsFiniteSet(T \ {y}) /\ \A x \in T \ {y} : f[x] \in Int
    BY <1>3, FS_Subset
  <2> QED BY <2>1, SumTyped
<1>11. PICK c \in Int : c = Cardinality(T \ {y}) /\ Cardinality(T) = c + 1
  <2>1. Cardinality(T) \in Nat /\ Cardinality(T \ {y}) = Cardinality(T) - 1
    BY <1>3, <1>5, FS_RemoveElement, FS_CardinalityType
  <2> QED BY <2>1
<1>12. PICK v \in Int : v = f[y]
  BY <1>3
<1>13. g[y] = a * v + b
  BY <1>3, <1>12
<1>14. a * (v + s) = a * v + a * s /\ (c + 1) * b = c * b + b
  OBVIOUS
<1>15. PICK av \in Int, as \in Int, cb \in Int : av = a * v /\ as = a * s /\ cb = c * b
  OBVIOUS
<1>16. Sum(g, T) = av + b + (as + cb)
  BY <1>7, <1>8, <1>10, <1>11, <1>13, <1>15
<1>17. a * Sum(f, T) + Cardinality(T) * b = av + as + (cb + b)
  BY <1>9, <1>10, <1>11, <1>12, <1>14, <1>15
<1> QED BY <1>3, <1>15, <1>16, <1>17

\* Adding up a set key by key adds up all of it.
LEMMA SumByKey ==
  ASSUME NEW D, IsFiniteSet(D), NEW K, IsFiniteSet(K), NEW g, \A c \in D : g[c] \in K,
         NEW f, \A c \in D : f[c] \in Int
  PROVE  Sum([k \in K |-> Sum(f, {c \in D : g[c] = k})], K) = Sum(f, D)
<1> DEFINE Class(E, k) == {c \in E : g[c] = k}
           F(E) == [k \in K |-> Sum(f, Class(E, k))]
           B == {E \in SUBSET D : Sum(F(E), K) # Sum(f, E)}
<1>1. SUFFICES ASSUME B # {} PROVE FALSE
  OBVIOUS
<1>2. PICK E \in B : \A U \in B : U \subseteq E => U = E
  <2>1. B \in SUBSET (SUBSET D)
    OBVIOUS
  <2> HIDE DEF B
  <2> QED BY <1>1, <2>1, MinimalSubset
<1>3. E \subseteq D /\ IsFiniteSet(E) /\ Sum(F(E), K) # Sum(f, E)
  BY FS_Subset
<1>4. \A A \in SUBSET E : \A k \in K : IsFiniteSet(Class(A, k)) /\ Sum(f, Class(A, k)) \in Int
  <2> TAKE A \in SUBSET E
  <2> TAKE k \in K
  <2>1. Class(A, k) \subseteq E
    OBVIOUS
  <2>2. IsFiniteSet(Class(A, k)) /\ \A c \in Class(A, k) : f[c] \in Int
    BY <1>3, <2>1, FS_Subset
  <2> HIDE DEF Class
  <2> QED BY <2>2, SumTyped
<1>5. CASE E = {}
  <2>1. \A k \in K : F(E)[k] \in 0..0
    <3>1. \A k \in K : Class(E, k) = {}
      BY <1>5
    <3> QED BY <3>1, SumOfNone
  <2> HIDE DEF F
  <2>2. Sum(F(E), K) \in 0..(Cardinality(K) * 0)
    BY <2>1, SumBounded
  <2>3. Cardinality(K) \in Nat
    BY FS_CardinalityType
  <2>4. Sum(f, E) = 0
    BY <1>5, SumOfNone
  <2> QED BY <1>3, <2>2, <2>3, <2>4
<1>6. CASE E # {}
  <2>1. PICK c \in E : TRUE
    BY <1>6
  <2> DEFINE A == E \ {c}
  <2>2. A \subseteq E /\ A \in SUBSET D /\ A # E /\ A \notin B /\ g[c] \in K /\ f[c] \in Int
    BY <1>2, <1>3, <2>1
  <2>3. Sum(F(A), K) = Sum(f, A)
    BY <2>2
  <2>4. IsFiniteSet(A) /\ Sum(f, E) = f[c] + Sum(f, A) /\ Sum(f, A) \in Int
    <3>1. IsFiniteSet(A) /\ (\A x \in E : f[x] \in Int) /\ (\A x \in A : f[x] \in Int)
      BY <1>3, FS_Subset
    <3>2. Sum(f, A) \in Int
      <4> HIDE DEF A
      <4> QED BY <3>1, SumTyped
    <3> QED BY <1>3, <2>1, <3>1, <3>2, SumWithout
  <2>5. \A k \in K \ {g[c]} : Class(E, k) = Class(A, k)
    OBVIOUS
  <2>6. Sum(f, Class(E, g[c])) = f[c] + Sum(f, Class(A, g[c]))
    <3>1. c \in Class(E, g[c]) /\ Class(E, g[c]) \ {c} = Class(A, g[c])
      BY <2>1
    <3>2. IsFiniteSet(Class(E, g[c])) /\ \A x \in Class(E, g[c]) : f[x] \in Int
      <4>1. IsFiniteSet(Class(E, g[c]))
        BY <1>4, <2>2
      <4> QED BY <1>3, <4>1
    <3>3. PICK whole : whole = Class(E, g[c])
      OBVIOUS
    <3> HIDE DEF Class
    <3>4. Sum(f, whole) = f[c] + Sum(f, whole \ {c})
      BY <3>1, <3>2, <3>3, SumWithout
    <3> QED BY <3>1, <3>3, <3>4
  <2>7. \A k \in K : F(E)[k] \in Int /\ F(A)[k] \in Int
    <3>1. \A k \in K : F(E)[k] = Sum(f, Class(E, k)) /\ F(A)[k] = Sum(f, Class(A, k))
      OBVIOUS
    <3> HIDE DEF F, Class, A
    <3> QED BY <1>4, <2>2, <3>1
  <2>8. \A k \in K \ {g[c]} : F(E)[k] = F(A)[k]
    BY <2>5
  <2>9. F(E)[g[c]] = f[c] + F(A)[g[c]]
    BY <2>2, <2>6
  <2> HIDE DEF F, A, B
  <2>10. Sum(F(E), K) = Sum(F(A), K) - F(A)[g[c]] + F(E)[g[c]]
    BY <2>2, <2>7, <2>8, SumChangedAt
  <2>11. F(A)[g[c]] \in Int
    BY <2>2, <2>7
  <2> QED BY <1>3, <2>2, <2>3, <2>4, <2>9, <2>10, <2>11
<1> QED BY <1>5, <1>6
=============================================================================
