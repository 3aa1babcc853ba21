------------------------------ MODULE SumLemmas ------------------------------
(* Sums over finite sets: what SumFunctionOnSet of the Functions module     *)
(* adds up to, without a word on the order in which it takes the elements.  *)
EXTENDS Integers, FiniteSets, Functions, FiniteSetTheorems, WellFoundedInduction, TLAPS

(* A collection of subsets of a finite set has one that is minimal. *)
LEMMA MinimalSubset ==
    ASSUME NEW S, IsFiniteSet(S), NEW D \in SUBSET (SUBSET S), D # {}
    PROVE  \E T \in D : \A U \in D : U \subseteq T => U = T
<1>1. IsWellFoundedOn(StrictSubsetOrdering(S), SUBSET S)
  BY FS_StrictSubsetOrderingWellFounded, FS_FiniteSubsetsOfFinite
<1>2. PICK T \in D : \A U \in D : <<U, T>> \notin StrictSubsetOrdering(S)
  BY <1>1, WFMin
<1> QED BY <1>2 DEF StrictSubsetOrdering

Chosen(s) == CHOOSE x \in s : TRUE

(* it is the function by which the sum of f over S is defined. *)
Adds(it, f, S) ==
    it = [s \in SUBSET S |-> IF s = {} THEN 0 ELSE f[Chosen(s)] + it[s \ {Chosen(s)}]]

LEMMA SumIsFolded ==
    ASSUME NEW f, NEW S
    PROVE  SumFunctionOnSet(f, S) = (CHOOSE it : Adds(it, f, S))[S]
BY DEF SumFunctionOnSet, FoldFunctionOnSet, MapThenFoldSet, Adds, Chosen

LEMMA ChosenIsMember == ASSUME NEW s, s # {} PROVE Chosen(s) \in s
BY DEF Chosen

LEMMA AddsAt ==
    ASSUME NEW it, NEW f, NEW S, Adds(it, f, S), NEW s \in SUBSET S
    PROVE  it[s] = IF s = {} THEN 0 ELSE f[Chosen(s)] + it[s \ {Chosen(s)}]
BY DEF Adds

LEMMA AddsUnique ==
    ASSUME NEW f, NEW S, IsFiniteSet(S), NEW g, Adds(g, f, S), NEW h, Adds(h, f, S)
    PROVE  g = h
<1> DEFINE D == {s \in SUBSET S : g[s] # h[s]}
<1>1. ASSUME D # {} PROVE FALSE
  <2>1. PICK T \in D : \A U \in D : U \subseteq T => U = T
    <3>1. D \in SUBSET (SUBSET S)
      OBVIOUS
    <3> HIDE DEF D
    <3> QED BY <1>1, <3>1, MinimalSubset
  <2>2. T # {}
    BY <2>1, AddsAt
  <2> DEFINE x == Chosen(T)
  <2>3. x \in T
    BY <2>2, ChosenIsMember
  <2>4. T \ {x} \notin D /\ T \ {x} \in SUBSET S
    BY <2>1, <2>3
  <2>5. g[T \ {x}] = h[T \ {x}]
    BY <2>4
  <2>6. g[T] = f[x] + g[T \ {x}] /\ h[T] = f[x] + h[T \ {x}]
    <3>1. T \in SUBSET S
      BY <2>1
    <3>2. g[T] = IF T = {} THEN 0 ELSE f[x] + g[T \ {x}]
      BY <3>1, AddsAt
    <3>3. h[T] = IF T = {} THEN 0 ELSE f[x] + h[T \ {x}]
      BY <3>1, AddsAt
    <3> QED BY <2>2, <3>2, <3>3
  <2> QED BY <2>5, <2>6
<1>2. \A s \in SUBSET S : g[s] = h[s]
  BY <1>1
<1>3. g = [s \in SUBSET S |-> g[s]] /\ h = [s \in SUBSET S |-> h[s]]
  BY DEF Adds
<1>4. [s \in SUBSET S |-> g[s]] = [s \in SUBSET S |-> h[s]]
  BY <1>2
<1> QED BY <1>3, <1>4

LEMMA AddsRestricted ==
    ASSUME NEW f, NEW S, NEW g, Adds(g, f, S), NEW U \in SUBSET S
    PROVE  Adds([s \in SUBSET U |-> g[s]], f, U)
<1> DEFINE r == [s \in SUBSET U |-> g[s]]
<1>1. ASSUME NEW s \in SUBSET U
      PROVE  r[s] = IF s = {} THEN 0 ELSE f[Chosen(s)] + r[s \ {Chosen(s)}]
  <2>1. s \in SUBSET S /\ s \ {Chosen(s)} \in SUBSET U
    OBVIOUS
  <2>2. r[s] = g[s] /\ r[s \ {Chosen(s)}] = g[s \ {Chosen(s)}]
    BY <2>1
  <2> QED BY <2>1, <2>2, AddsAt
<1>2. r = [s \in SUBSET U |-> IF s = {} THEN 0 ELSE f[Chosen(s)] + r[s \ {Chosen(s)}]]
  BY <1>1
<1> QED BY <1>2 DEF Adds

LEMMA AddsExists ==
    ASSUME NEW f, NEW S, IsFiniteSet(S)
    PROVE  \E it : Adds(it, f, S)
<1> DEFINE D == {U \in SUBSET S : ~ \E it : Adds(it, f, U)}
           G(U) == CHOOSE it : Adds(it, f, U)
<1>1. ASSUME D # {} PROVE FALSE
  <2>1. PICK T \in D : \A U \in D : U \subseteq T => U = T
    <3>1. D \in SUBSET (SUBSET S)
      OBVIOUS
    <3> HIDE DEF D
    <3> QED BY <1>1, <3>1, MinimalSubset
  <2>2. IsFiniteSet(T)
    BY <2>1, FS_Subset
  <2>3. ASSUME NEW U \in SUBSET T, U # T PROVE Adds(G(U), f, U)
    <3>1. U \notin D /\ U \in SUBSET S
      BY <2>1, <2>3
    <3> QED BY <3>1
  <2> HIDE DEF G
  <2> DEFINE g == [s \in SUBSET T |-> IF s = {} THEN 0
                                       ELSE f[Chosen(s)] + G(s \ {Chosen(s)})[s \ {Chosen(s)}]]
  <2>4. ASSUME NEW s \in SUBSET T, s # T PROVE g[s] = G(s)[s]
    <3>1. Adds(G(s), f, s)
      BY <2>3, <2>4
    <3>2. CASE s = {}
      BY <3>1, <3>2, AddsAt
    <3>3. CASE s # {}
      <4> DEFINE u == s \ {Chosen(s)}
      <4>1. u \in SUBSET s /\ u # T /\ u \in SUBSET T /\ IsFiniteSet(u)
        BY <2>2, <3>3, ChosenIsMember, FS_Subset
      <4>2. Adds(G(u), f, u) /\ Adds([t \in SUBSET u |-> G(s)[t]], f, u)
        BY <2>3, <3>1, <4>1, AddsRestricted
      <4>3. G(u) = [t \in SUBSET u |-> G(s)[t]]
        BY <4>1, <4>2, AddsUnique
      <4>4. G(u)[u] = G(s)[u]
        <5>1. [t \in SUBSET u |-> G(s)[t]][u] = G(s)[u]
          OBVIOUS
        <5> QED BY <4>3, <5>1
      <4>5. G(s)[s] = f[Chosen(s)] + G(s)[u]
        BY <3>1, <3>3, AddsAt
      <4>6. g[s] = f[Chosen(s)] + G(u)[u]
        BY <3>3
      <4> QED BY <4>4, <4>5, <4>6
    <3> QED BY <3>2, <3>3
  <2>5. ASSUME NEW s \in SUBSET T
        PROVE  g[s] = IF s = {} THEN 0 ELSE f[Chosen(s)] + g[s \ {Chosen(s)}]
    <3>1. CASE s = {}
      BY <3>1
    <3>2. CASE s # {}
      <4> DEFINE u == s \ {Chosen(s)}
      <4>1. u \in SUBSET T /\ u # T
        BY <3>2, ChosenIsMember
      <4>2. g[u] = G(u)[u]
        BY <2>4, <4>1
      <4>3. g[s] = f[Chosen(s)] + G(u)[u]
        BY <3>2
      <4> QED BY <3>2, <4>2, <4>3
    <3> QED BY <3>1, <3>2
  <2>6. Adds(g, f, T)
    <3>1. g = [s \in SUBSET T |-> IF s = {} THEN 0 ELSE f[Chosen(s)] + g[s \ {Chosen(s)}]]
      BY <2>5
    <3> QED BY <3>1 DEF Adds
  <2> QED BY <2>1, <2>6
<1> QED BY <1>1

(* The sum of the elements chosen last to first. *)
LEMMA SumStep ==
    ASSUME NEW f, NEW S, IsFiniteSet(S)
    PROVE  SumFunctionOnSet(f, S) =
               IF S = {} THEN 0
               ELSE f[Chosen(S)] + SumFunctionOnSet(f, S \ {Chosen(S)})
<1> DEFINE it(T) == CHOOSE g : Adds(g, f, T)
           U == S \ {Chosen(S)}
<1>1. IsFiniteSet(U) /\ U \in SUBSET S
  BY FS_Subset
<1>2. Adds(it(S), f, S) /\ Adds(it(U), f, U)
  BY <1>1, AddsExists
<1>3. SumFunctionOnSet(f, S) = it(S)[S] /\ SumFunctionOnSet(f, U) = it(U)[U]
  BY SumIsFolded
<1> HIDE DEF it
<1>4. it(U) = [s \in SUBSET U |-> it(S)[s]]
  BY <1>1, <1>2, AddsRestricted, AddsUnique
<1>5. it(U)[U] = it(S)[U]
  <2>1. [s \in SUBSET U |-> it(S)[s]][U] = it(S)[U]
    OBVIOUS
  <2> QED BY <1>4, <2>1
<1>6. it(S)[S] = IF S = {} THEN 0 ELSE f[Chosen(S)] + it(S)[U]
  BY <1>2, AddsAt
<1> QED BY <1>3, <1>5, <1>6

LEMMA SumOfNothing == ASSUME NEW f PROVE SumFunctionOnSet(f, {}) = 0
BY SumStep, FS_EmptySet

LEMMA SumIsInt ==
    ASSUME NEW S, IsFiniteSet(S), NEW f, \A x \in S : f[x] \in Int
    PROVE  SumFunctionOnSet(f, S) \in Int
<1> DEFINE D == {T \in SUBSET S : SumFunctionOnSet(f, T) \notin Int}
<1>1. ASSUME D # {} PROVE FALSE
  <2>1. PICK T \in D : \A U \in D : U \subseteq T => U = T
    <3>1. D \in SUBSET (SUBSET S)
      OBVIOUS
    <3> HIDE DEF D
    <3> QED BY <1>1, <3>1, MinimalSubset
  <2>2. IsFiniteSet(T)
    BY <2>1, FS_Subset
  <2>3. T # {}
    <3>1. SumFunctionOnSet(f, {}) \in Int
      BY SumOfNothing
    <3>2. SumFunctionOnSet(f, T) \notin Int
      BY <2>1
    <3> QED BY <3>1, <3>2
  <2>4. Chosen(T) \in T
    BY <2>3, ChosenIsMember
  <2>5. SumFunctionOnSet(f, T \ {Chosen(T)}) \in Int
    BY <2>1, <2>4
  <2>6. SumFunctionOnSet(f, T) = f[Chosen(T)] + SumFunctionOnSet(f, T \ {Chosen(T)})
    BY <2>2, <2>3, SumStep
  <2> QED BY <2>1, <2>4, <2>5, <2>6
<1> QED BY <1>1

(* Any element may be taken first. *)
LEMMA SumRemove ==
    ASSUME NEW S, IsFiniteSet(S), NEW f, \A y \in S : f[y] \in Int, NEW x \in S
    PROVE  SumFunctionOnSet(f, S) = f[x] + SumFunctionOnSet(f, S \ {x})
<1> DEFINE Sum(T) == SumFunctionOnSet(f, T)
           D == {T \in SUBSET S : \E y \in T : Sum(T) # f[y] + Sum(T \ {y})}
<1>1. ASSUME D # {} PROVE FALSE
  <2>1. PICK T \in D : \A U \in D : U \subseteq T => U = T
    <3>1. D \in SUBSET (SUBSET S)
      OBVIOUS
    <3> HIDE DEF D
    <3> QED BY <1>1, <3>1, MinimalSubset
  <2>2. PICK y \in T : Sum(T) # f[y] + Sum(T \ {y})
    BY <2>1
  <2>3. \A U \in SUBSET S : IsFiniteSet(U) /\ Sum(U) \in Int
    BY FS_Subset, SumIsInt
  <2> DEFINE z == Chosen(T)
  <2>4. z \in T /\ Sum(T) = f[z] + Sum(T \ {z}) /\ T \in SUBSET S
    BY <2>1, <2>2, <2>3, ChosenIsMember, SumStep
  <2>5. z # y
    BY <2>2, <2>4
  <2>6. T \ {z} \notin D /\ T \ {y} \notin D
    BY <2>1, <2>2, <2>4
  <2>7. Sum(T \ {z}) = f[y] + Sum((T \ {z}) \ {y}) /\ Sum(T \ {y}) = f[z] + Sum((T \ {y}) \ {z})
    <3>1. y \in T \ {z} /\ z \in T \ {y} /\ T \ {z} \in SUBSET S /\ T \ {y} \in SUBSET S
      BY <2>2, <2>4, <2>5
    <3> HIDE DEF Sum
    <3> QED BY <2>6, <3>1
  <2>8. (T \ {z}) \ {y} = (T \ {y}) \ {z}
    OBVIOUS
  <2>9. /\ f[y] \in Int /\ f[z] \in Int /\ Sum((T \ {z}) \ {y}) \in Int
        /\ Sum(T \ {y}) \in Int /\ Sum(T \ {z}) \in Int
    BY <2>2, <2>3, <2>4
  <2> HIDE DEF Sum
  <2>10. Sum(T) = f[z] + (f[y] + Sum((T \ {z}) \ {y}))
    BY <2>4, <2>7
  <2>11. f[y] + Sum(T \ {y}) = f[y] + (f[z] + Sum((T \ {z}) \ {y}))
    BY <2>7, <2>8
  <2>12. f[z] + (f[y] + Sum((T \ {z}) \ {y})) = f[y] + (f[z] + Sum((T \ {z}) \ {y}))
    BY <2>9
  <2> QED BY <2>2, <2>10, <2>11, <2>12
<1>2. S \notin D /\ S \in SUBSET S
  BY <1>1
<1> QED BY <1>2

(* A sum is of the values at the elements it is over. *)
LEMMA SumSame ==
    ASSUME NEW S, IsFiniteSet(S), NEW f, NEW g, \A x \in S : f[x] = g[x]
    PROVE  SumFunctionOnSet(f, S) = SumFunctionOnSet(g, S)
<1> DEFINE D == {T \in SUBSET S : SumFunctionOnSet(f, T) # SumFunctionOnSet(g, T)}
<1>1. ASSUME D # {} PROVE FALSE
  <2>1. PICK T \in D : \A U \in D : U \subseteq T => U = T
    <3>1. D \in SUBSET (SUBSET S)
      OBVIOUS
    <3> HIDE DEF D
    <3> QED BY <1>1, <3>1, MinimalSubset
  <2>2. IsFiniteSet(T)
    BY <2>1, FS_Subset
  <2>3. T # {}
    BY <2>1, SumOfNothing
  <2>4. Chosen(T) \in T /\ f[Chosen(T)] = g[Chosen(T)]
    BY <2>1, <2>3, ChosenIsMember
  <2>5. SumFunctionOnSet(f, T \ {Chosen(T)}) = SumFunctionOnSet(g, T \ {Chosen(T)})
    BY <2>1, <2>4
  <2>6. /\ SumFunctionOnSet(f, T) = f[Chosen(T)] + SumFunctionOnSet(f, T \ {Chosen(T)})
        /\ SumFunctionOnSet(g, T) = g[Chosen(T)] + SumFunctionOnSet(g, T \ {Chosen(T)})
    BY <2>2, <2>3, SumStep
  <2> QED BY <2>1, <2>4, <2>5, <2>6
<1> QED BY <1>1

(* A change of one term changes the sum by as much. *)
LEMMA SumChange ==
    ASSUME NEW S, IsFiniteSet(S), NEW f, NEW g,
           \A y \in S : f[y] \in Int /\ g[y] \in Int,
           NEW x \in S, \A y \in S \ {x} : f[y] = g[y]
    PROVE  SumFunctionOnSet(g, S) = SumFunctionOnSet(f, S) + (g[x] - f[x])
<1>1. IsFiniteSet(S \ {x})
  BY FS_Subset
<1>2. SumFunctionOnSet(f, S \ {x}) = SumFunctionOnSet(g, S \ {x})
  BY <1>1, SumSame
<1>3. SumFunctionOnSet(f, S \ {x}) \in Int
  BY <1>1, SumIsInt
<1>4. /\ SumFunctionOnSet(f, S) = f[x] + SumFunctionOnSet(f, S \ {x})
      /\ SumFunctionOnSet(g, S) = g[x] + SumFunctionOnSet(g, S \ {x})
  BY SumRemove
<1> QED BY <1>2, <1>3, <1>4

LEMMA SumOfZeros ==
    ASSUME NEW S, IsFiniteSet(S), NEW f, \A x \in S : f[x] = 0
    PROVE  SumFunctionOnSet(f, S) = 0
<1> DEFINE D == {T \in SUBSET S : SumFunctionOnSet(f, T) # 0}
<1>1. ASSUME D # {} PROVE FALSE
  <2>1. PICK T \in D : \A U \in D : U \subseteq T => U = T
    <3>1. D \in SUBSET (SUBSET S)
      OBVIOUS
    <3> HIDE DEF D
    <3> QED BY <1>1, <3>1, MinimalSubset
  <2>2. IsFiniteSet(T)
    BY <2>1, FS_Subset
  <2>3. T # {}
    BY <2>1, SumOfNothing
  <2>4. Chosen(T) \in T /\ f[Chosen(T)] = 0
    BY <2>1, <2>3, ChosenIsMember
  <2>5. SumFunctionOnSet(f, T \ {Chosen(T)}) = 0
    BY <2>1, <2>4
  <2>6. SumFunctionOnSet(f, T) = f[Chosen(T)] + SumFunctionOnSet(f, T \ {Chosen(T)})
    BY <2>2, <2>3, SumStep
  <2> QED BY <2>1, <2>4, <2>5, <2>6
<1> QED BY <1>1

(* The elements of S that the function of puts in G. *)
Within(S, of, G) == {x \in S : of[x] \in G}

(* A finite set split by the function of is as large as its parts together.  *)
LEMMA SumOfParts ==
    ASSUME NEW S, IsFiniteSet(S), NEW of, NEW G, IsFiniteSet(G),
           NEW f, \A g \in G : f[g] = Cardinality(Within(S, of, {g}))
    PROVE  SumFunctionOnSet(f, G) = Cardinality(Within(S, of, G))
<1> DEFINE In(T) == {x \in S : of[x] \in T}
           D == {T \in SUBSET G : SumFunctionOnSet(f, T) # Cardinality(In(T))}
<1>1. ASSUME D # {} PROVE FALSE
  <2>1. PICK T \in D : \A U \in D : U \subseteq T => U = T
    <3>1. D \in SUBSET (SUBSET G)
      OBVIOUS
    <3> HIDE DEF D
    <3> QED BY <1>1, <3>1, MinimalSubset
  <2>2. IsFiniteSet(T) /\ T \in SUBSET G
    BY <2>1, FS_Subset
  <2>3. T # {}
    <3>1. In({}) = {} /\ SumFunctionOnSet(f, {}) = 0 /\ Cardinality({}) = 0
      BY SumOfNothing, FS_EmptySet
    <3>2. SumFunctionOnSet(f, T) # Cardinality(In(T))
      BY <2>1
    <3> HIDE DEF In
    <3> QED BY <3>1, <3>2
  <2> DEFINE c == Chosen(T)
             A == {x \in S : of[x] = c}
             B == In(T \ {c})
  <2>4. c \in T /\ f[c] = Cardinality(A)
    <3>1. c \in T /\ c \in G
      BY <2>2, <2>3, ChosenIsMember
    <3>2. Within(S, of, {c}) = A
      BY DEF Within
    <3> QED BY <3>1, <3>2
  <2>5. SumFunctionOnSet(f, T \ {c}) = Cardinality(B)
    BY <2>1, <2>4
  <2>6. SumFunctionOnSet(f, T) = f[c] + SumFunctionOnSet(f, T \ {c})
    BY <2>2, <2>3, SumStep
  <2>7. IsFiniteSet(A) /\ IsFiniteSet(B) /\ A \cap B = {} /\ A \cup B = In(T)
    <3>1. IsFiniteSet(A) /\ IsFiniteSet(B)
      BY FS_Subset
    <3>2. A \cap B = {} /\ A \cup B = In(T)
      BY <2>4
    <3> QED BY <3>1, <3>2
  <2> HIDE DEF A, B, c
  <2>8. Cardinality(In(T)) = Cardinality(A) + Cardinality(B) - Cardinality({})
    <3> HIDE DEF In
    <3> QED BY <2>7, FS_Union
  <2>9. Cardinality({}) = 0 /\ Cardinality(A) \in Nat /\ Cardinality(B) \in Nat
    BY <2>7, FS_EmptySet, FS_CardinalityType
  <2>10. SumFunctionOnSet(f, T) # Cardinality(In(T))
    BY <2>1
  <2> HIDE DEF In
  <2> QED BY <2>4, <2>5, <2>6, <2>8, <2>9, <2>10
<1>2. G \notin D /\ G \in SUBSET G
  BY <1>1
<1> QED BY <1>2 DEF Within

(* A finite set has finitely many parts. *)
LEMMA PartsAreFinite ==
    ASSUME NEW S, IsFiniteSet(S), NEW of
    PROVE  IsFiniteSet({of[x] : x \in S})
<1> DEFINE T == {of[x] : x \in S}
           h == [x \in S |-> of[x]]
<1>1. h \in Surjection(S, T)
  BY DEF Surjection
<1> HIDE DEF h, T
<1>2. IsFiniteSet(T)
  BY <1>1, FS_Surjection
<1> QED BY <1>2 DEF T
=============================================================================
