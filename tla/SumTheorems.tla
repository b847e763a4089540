----------------------------- MODULE SumTheorems -----------------------------
(***************************************************************************)
(* Facts about finite sets of numbers and their sums, for the proofs about *)
(* what is counted and added up.  The sum of the community modules is a    *)
(* recursive function, which is unfolded here once; what is proved of it   *)
(* goes by a least set of which it would not hold.                         *)
(***************************************************************************)
EXTENDS Integers, FiniteSets, Functions, FiniteSetTheorems, WellFoundedInduction, TLAPS

\* A set of natural numbers has a least one.
LEMMA LeastOf ==
  ASSUME NEW T, T \subseteq Nat, T # {}
  PROVE  \E n \in T : \A m \in T : n <= m
<1>1. IsWellFoundedOn(OpToRel(<, Nat), Nat)
  BY NatLessThanWellFounded
<1>2. PICK n \in T : \A m \in T : <<m, n>> \notin OpToRel(<, Nat)
  BY <1>1, WFMin
<1>3. \A m \in T : ~(m < n)
  BY <1>2 DEF OpToRel
<1> QED BY <1>3

\* The elements of a set by a number each of them has.
LEMMA FirstAndLast ==
  ASSUME NEW A, A # {}, NEW n \in Nat, NEW f \in [A -> 0 .. n]
  PROVE  /\ \E s \in A : \A t \in A : f[s] <= f[t]
         /\ \E s \in A : \A t \in A : f[t] <= f[s]
<1>1. \E s \in A : \A t \in A : f[s] <= f[t]
  <2>1. {f[t] : t \in A} \subseteq Nat /\ {f[t] : t \in A} # {}
    OBVIOUS
  <2>2. PICK m \in {f[t] : t \in A} : \A k \in {f[t] : t \in A} : m <= k
    BY <2>1, LeastOf
  <2> QED BY <2>2
<1>2. \E s \in A : \A t \in A : f[t] <= f[s]
  <2>1. {n - f[t] : t \in A} \subseteq Nat /\ {n - f[t] : t \in A} # {}
    OBVIOUS
  <2>2. PICK m \in {n - f[t] : t \in A} : \A k \in {n - f[t] : t \in A} : m <= k
    BY <2>1, LeastOf
  <2>3. PICK s \in A : m = n - f[s]
    BY <2>2
  <2>4. \A t \in A : n - f[s] <= n - f[t]
    BY <2>2, <2>3
  <2> QED BY <2>4
<1> QED BY <1>1, <1>2

\* A set without one of its elements is finite, and smaller.
LEMMA Fewer ==
  ASSUME NEW A, IsFiniteSet(A), NEW B \in SUBSET A, NEW x \in B
  PROVE  /\ IsFiniteSet(B) /\ Cardinality(B) \in Nat
         /\ B \ {x} \in SUBSET A /\ Cardinality(B \ {x}) \in Nat
         /\ Cardinality(B \ {x}) = Cardinality(B) - 1
<1>1. IsFiniteSet(B)
  BY FS_Subset
<1>2. IsFiniteSet(B \ {x}) /\ Cardinality(B \ {x}) = Cardinality(B) - 1
  BY <1>1, FS_RemoveElement
<1> QED BY <1>1, <1>2, FS_CardinalityType

\* What a finite set counts has a bound.
LEMMA HasBound ==
  ASSUME NEW A, IsFiniteSet(A), NEW f \in [A -> Nat]
  PROVE  \E n \in Nat : \A t \in A : f[t] <= n
<1> DEFINE Within(B) == \E n \in Nat : \A t \in B : f[t] <= n
           Sizes     == {m \in Nat : \E B \in SUBSET A : Cardinality(B) = m /\ ~Within(B)}
<1>1. SUFFICES ASSUME ~Within(A) PROVE FALSE
  OBVIOUS
<1>2. Sizes \subseteq Nat /\ Sizes # {}
  <2>1. Cardinality(A) \in Nat
    BY FS_CardinalityType
  <2> QED BY <1>1, <2>1
<1>3. PICK m \in Sizes : \A k \in Sizes : m <= k
  <2> HIDE DEF Sizes
  <2> QED BY <1>2, LeastOf
<1>4. PICK B \in SUBSET A : Cardinality(B) = m /\ ~Within(B)
  BY <1>3
<1>5. B # {}
  <2>1. 0 \in Nat /\ \A t \in {} : f[t] <= 0
    OBVIOUS
  <2>2. Within({})
    BY <2>1
  <2> QED BY <1>4, <2>2
<1>6. PICK x \in B : TRUE
  BY <1>5
<1>7. Cardinality(B \ {x}) = m - 1 /\ m - 1 \in Nat
  <2>1. Cardinality(B \ {x}) \in Nat /\ Cardinality(B \ {x}) = Cardinality(B) - 1
    BY <1>4, <1>6, Fewer, Zenon
  <2> QED BY <1>4, <2>1
<1>8. Within(B \ {x})
  BY <1>3, <1>4, <1>7
<1>9. PICK n \in Nat : \A t \in B \ {x} : f[t] <= n
  BY <1>8
<1>10. n + f[x] \in Nat /\ \A t \in B : f[t] <= n + f[x]
  BY <1>4, <1>6, <1>9
<1> QED BY <1>4, <1>10

\* What the sum of a finite set of indices is, given those of smaller ones.
SumStep(f, g, s) ==
  IF s = {} THEN 0 ELSE f[CHOOSE x \in s : TRUE] + g[s \ {CHOOSE x \in s : TRUE}]

\* There is such a function,
LEMMA SumsUp ==
  ASSUME NEW A, IsFiniteSet(A), NEW f \in [A -> Nat]
  PROVE  \E g \in [SUBSET A -> Nat] : \A s \in SUBSET A : g[s] = SumStep(f, g, s)
<1> DEFINE Upto(n)   == {s \in SUBSET A : Cardinality(s) <= n}
           Sums(g, n) == g \in [Upto(n) -> Nat] /\ \A s \in Upto(n) : g[s] = SumStep(f, g, s)
           Short     == {n \in Nat : ~\E g : Sums(g, n)}
<1>1. \A s \in SUBSET A : IsFiniteSet(s) /\ Cardinality(s) \in Nat /\ (Cardinality(s) = 0 <=> s = {})
  BY FS_Subset, FS_CardinalityType, FS_EmptySet
<1>2. \A s \in SUBSET A : s # {} =>
        /\ (CHOOSE x \in s : TRUE) \in s
        /\ s \ {CHOOSE x \in s : TRUE} \in SUBSET A
        /\ Cardinality(s \ {CHOOSE x \in s : TRUE}) = Cardinality(s) - 1
  BY Fewer
<1>3. \E g : Sums(g, 0)
  <2>1. Sums([s \in Upto(0) |-> 0], 0)
    BY <1>1 DEF SumStep
  <2> QED BY <2>1
<1>4. ASSUME NEW n \in Nat, NEW g, Sums(g, n)
      PROVE  \E h : Sums(h, n + 1)
  <2> DEFINE h == [s \in Upto(n + 1) |-> IF s \in Upto(n) THEN g[s] ELSE SumStep(f, g, s)]
  <2>1. \A s \in Upto(n + 1) : s # {} => s \ {CHOOSE x \in s : TRUE} \in Upto(n)
    BY <1>1, <1>2
  <2>2. \A s \in Upto(n) : s \in Upto(n + 1) /\ h[s] = g[s]
    BY <1>1
  <2>3. \A s \in Upto(n + 1) : h[s] = SumStep(f, g, s)
    BY <1>4, <2>2
  <2>4. \A s \in Upto(n + 1) : SumStep(f, h, s) = SumStep(f, g, s)
    <3> HIDE DEF h, Upto
    <3> QED BY <2>1, <2>2 DEF SumStep
  <2>5. \A s \in Upto(n + 1) : SumStep(f, g, s) \in Nat
    BY <1>2, <1>4, <2>1 DEF SumStep
  <2>6. h \in [Upto(n + 1) -> Nat]
    BY <2>3, <2>5
  <2> HIDE DEF h
  <2>7. Sums(h, n + 1)
    BY <2>3, <2>4, <2>6
  <2> QED BY <2>7
<1>5. Short = {}
  <2> HIDE DEF Sums
  <2>1. SUFFICES ASSUME Short # {} PROVE FALSE
    OBVIOUS
  <2>2. Short \subseteq Nat
    OBVIOUS
  <2>3. PICK m \in Short : \A k \in Short : m <= k
    <3> HIDE DEF Short
    <3> QED BY <2>1, <2>2, LeastOf
  <2>4. m # 0 /\ m \in Nat
    BY <1>3, <2>3
  <2>5. m - 1 \in Nat /\ m - 1 \notin Short
    BY <2>3, <2>4
  <2>6. PICK g : Sums(g, m - 1)
    BY <2>5
  <2>7. \E h : Sums(h, (m - 1) + 1)
    BY <1>4, <2>5, <2>6
  <2>8. (m - 1) + 1 = m
    BY <2>4
  <2> QED BY <2>3, <2>7, <2>8
<1>6. Upto(Cardinality(A)) = SUBSET A
  BY FS_Subset, FS_CardinalityType
<1>7. PICK g : Sums(g, Cardinality(A))
  BY <1>5, FS_CardinalityType
<1> QED BY <1>6, <1>7

\* and the sum is the value of one.
SumOf(A, f) == CHOOSE g : g = [s \in SUBSET A |-> SumStep(f, g, s)]

LEMMA SumSolved ==
  ASSUME NEW A, IsFiniteSet(A), NEW f \in [A -> Nat], NEW t \in SUBSET A
  PROVE  /\ SumFunction(f) = SumOf(A, f)[A]
         /\ SumOf(A, f)[t] \in Nat
         /\ SumOf(A, f)[t] = SumStep(f, SumOf(A, f), t)
<1> DEFINE Solves(g) == g = [s \in SUBSET A |-> SumStep(f, g, s)]
           g == SumOf(A, f)
<1>1. \E h : Solves(h)
  <2>1. PICK h \in [SUBSET A -> Nat] : \A s \in SUBSET A : h[s] = SumStep(f, h, s)
    BY SumsUp, Zenon
  <2>2. Solves(h)
    BY <2>1
  <2> HIDE DEF Solves
  <2> QED BY <2>2
<1>2. SumFunction(f) = g[A]
  BY DEF SumFunction, SumFunctionOnSet, FoldFunctionOnSet, MapThenFoldSet, SumStep, SumOf
<1>3. Solves(g)
  <2>1. g = CHOOSE h : Solves(h)
    BY DEF SumOf
  <2> HIDE DEF Solves, g
  <2> QED BY <1>1, <2>1
<1> HIDE DEF g
<1>4. \A s \in SUBSET A : g[s] = SumStep(f, g, s)
  BY <1>3, Zenon
<1>5. \A s \in SUBSET A : g[s] \in Nat
  <2> DEFINE Bad == {n \in Nat : \E s \in SUBSET A : Cardinality(s) = n /\ g[s] \notin Nat}
  <2>1. SUFFICES ASSUME NEW u \in SUBSET A, g[u] \notin Nat PROVE FALSE
    OBVIOUS
  <2>2. Bad \subseteq Nat /\ Bad # {}
    BY <2>1, FS_Subset, FS_CardinalityType
  <2>3. PICK m \in Bad : \A k \in Bad : m <= k
    <3> HIDE DEF Bad
    <3> QED BY <2>2, LeastOf
  <2>4. PICK s \in SUBSET A : Cardinality(s) = m /\ g[s] \notin Nat
    BY <2>3
  <2>5. s # {}
    BY <1>4, <2>4 DEF SumStep
  <2> DEFINE x == CHOOSE y \in s : TRUE
  <2>6. x \in s /\ x \in A
    BY <2>5
  <2>7. s \ {x} \in SUBSET A /\ Cardinality(s \ {x}) = m - 1 /\ m - 1 \in Nat
    <3>1. /\ s \ {x} \in SUBSET A /\ Cardinality(s \ {x}) \in Nat
          /\ Cardinality(s \ {x}) = Cardinality(s) - 1
      BY <2>4, <2>6, Fewer, Zenon
    <3> QED BY <2>4, <3>1
  <2>8. g[s \ {x}] \in Nat
    BY <2>3, <2>7
  <2>9. g[s] = f[x] + g[s \ {x}]
    BY <1>4, <2>4, <2>5 DEF SumStep
  <2> QED BY <2>4, <2>6, <2>8, <2>9
<1> QED BY <1>2, <1>4, <1>5 DEF g

\* The sum of finitely many natural numbers is one.
LEMMA SumIsNat ==
  ASSUME NEW A, IsFiniteSet(A), NEW f \in [A -> Nat]
  PROVE  SumFunction(f) \in Nat
<1>1. SumFunction(f) = SumOf(A, f)[A] /\ SumOf(A, f)[A] \in Nat
  BY SumSolved
<1> QED BY <1>1

LEMMA DisjointUnion ==
  ASSUME NEW U, NEW V, IsFiniteSet(U), IsFiniteSet(V), U \cap V = {}
  PROVE  /\ IsFiniteSet(U \cup V) /\ Cardinality(U) \in Nat /\ Cardinality(V) \in Nat
         /\ Cardinality(U \cup V) = Cardinality(U) + Cardinality(V)
<1>1. Cardinality(U \cup V) = Cardinality(U) + Cardinality(V) - Cardinality(U \cap V)
  BY FS_Union
<1>2. Cardinality(U \cap V) = 0 /\ IsFiniteSet(U \cup V)
  BY FS_EmptySet, FS_Union
<1>3. Cardinality(U) \in Nat /\ Cardinality(V) \in Nat
  BY FS_CardinalityType
<1> QED BY <1>1, <1>2, <1>3

\* The sizes of parts that have nothing in common add up to that of the whole.
LEMMA CountByParts ==
  ASSUME NEW A, IsFiniteSet(A), NEW X, IsFiniteSet(X), NEW P \in [A -> SUBSET X],
         \A a, b \in A : a # b => P[a] \cap P[b] = {}
  PROVE  SumFunction([a \in A |-> Cardinality(P[a])]) = Cardinality(UNION {P[a] : a \in A})
<1> DEFINE f      == [a \in A |-> Cardinality(P[a])]
           All(s) == UNION {P[a] : a \in s}
<1>1. f \in [A -> Nat]
  BY FS_Subset, FS_CardinalityType
<1>2. \A s \in SUBSET A : All(s) \in SUBSET X /\ IsFiniteSet(All(s)) /\ Cardinality(All(s)) \in Nat
  <2> SUFFICES ASSUME NEW s \in SUBSET A
               PROVE  All(s) \in SUBSET X /\ IsFiniteSet(All(s)) /\ Cardinality(All(s)) \in Nat
    OBVIOUS
  <2>1. All(s) \in SUBSET X
    OBVIOUS
  <2> HIDE DEF All
  <2> QED BY <2>1, FS_Subset, FS_CardinalityType
<1> DEFINE g == SumOf(A, f)
<1>3. /\ SumFunction(f) = g[A]
      /\ \A s \in SUBSET A : g[s] \in Nat /\ g[s] = SumStep(f, g, s)
  <2> HIDE DEF f
  <2> QED BY <1>1, SumSolved
<1> HIDE DEF g
<1>4. SUFFICES ASSUME g[A] # Cardinality(All(A)) PROVE FALSE
  BY <1>3
<1> DEFINE Bad == {n \in Nat : \E s \in SUBSET A : Cardinality(s) = n /\ g[s] # Cardinality(All(s))}
<1>5. Bad \subseteq Nat /\ Bad # {}
  BY <1>4, FS_CardinalityType
<1>6. PICK m \in Bad : \A k \in Bad : m <= k
  <2> HIDE DEF Bad
  <2> QED BY <1>5, LeastOf
<1>7. PICK s \in SUBSET A : Cardinality(s) = m /\ g[s] # Cardinality(All(s))
  BY <1>6
<1>8. g[s] = SumStep(f, g, s)
  BY <1>3, Zenon
<1>9. s # {}
  <2>1. All({}) = {}
    OBVIOUS
  <2> QED BY <1>7, <1>8, <2>1, FS_EmptySet DEF SumStep
<1> DEFINE x == CHOOSE y \in s : TRUE
<1>10. x \in s /\ x \in A
  BY <1>9
<1>11. s \ {x} \in SUBSET A /\ Cardinality(s \ {x}) = m - 1 /\ m - 1 \in Nat
  <2>1. /\ s \ {x} \in SUBSET A /\ Cardinality(s \ {x}) \in Nat
        /\ Cardinality(s \ {x}) = Cardinality(s) - 1
    BY <1>7, <1>10, Fewer, Zenon
  <2> QED BY <1>7, <2>1
<1>12. g[s \ {x}] = Cardinality(All(s \ {x}))
  <2> HIDE DEF All
  <2> QED BY <1>6, <1>11
<1>13. g[s] = Cardinality(P[x]) + g[s \ {x}]
  BY <1>8, <1>9, <1>10 DEF SumStep
<1>14. All(s) = P[x] \cup All(s \ {x}) /\ P[x] \cap All(s \ {x}) = {}
  <2> HIDE DEF x
  <2> QED BY <1>10
<1>15. Cardinality(All(s)) = Cardinality(P[x]) + Cardinality(All(s \ {x}))
  <2>1. P[x] \in SUBSET X
    BY <1>10
  <2>2. IsFiniteSet(P[x]) /\ IsFiniteSet(All(s \ {x}))
    <3> HIDE DEF All, x
    <3> QED BY <1>2, <1>11, <2>1, FS_Subset
  <2> HIDE DEF All, x
  <2>3. Cardinality(P[x] \cup All(s \ {x})) = Cardinality(P[x]) + Cardinality(All(s \ {x}))
    BY <1>14, <2>2, DisjointUnion
  <2> QED BY <1>14, <2>3, Zenon
<1> HIDE DEF All, x
<1> QED BY <1>7, <1>12, <1>13, <1>15
\* A finite set counted by what each element has of something.
LEMMA CountByKey ==
  ASSUME NEW X, IsFiniteSet(X), NEW K, NEW key \in [X -> K]
  PROVE  /\ IsFiniteSet({key[e] : e \in X})
         /\ SumFunction([a \in {key[e] : e \in X} |-> Cardinality({e \in X : key[e] = a})])
            = Cardinality(X)
<1> DEFINE A == {key[e] : e \in X}
           P == [a \in A |-> {e \in X : key[e] = a}]
<1>1. key \in Surjection(X, A)
  BY DEF Surjection
<1>2. IsFiniteSet(A)
  <2> HIDE DEF A
  <2> QED BY <1>1, FS_Surjection
<1>3. P \in [A -> SUBSET X] /\ \A a, b \in A : a # b => P[a] \cap P[b] = {}
  OBVIOUS
<1>4. UNION {P[a] : a \in A} = X
  <2>1. \A e \in X : key[e] \in A /\ e \in P[key[e]]
    OBVIOUS
  <2>2. X \subseteq UNION {P[a] : a \in A}
    <3> HIDE DEF A, P
    <3> QED BY <2>1
  <2> HIDE DEF A
  <2> QED BY <1>3, <2>2
<1>5. [a \in A |-> Cardinality(P[a])] = [a \in A |-> Cardinality({e \in X : key[e] = a})]
  OBVIOUS
<1>6. SumFunction([a \in A |-> Cardinality(P[a])]) = Cardinality(UNION {P[a] : a \in A})
  <2> HIDE DEF A, P
  <2> QED BY <1>2, <1>3, CountByParts
<1> QED BY <1>2, <1>4, <1>5, <1>6

-----------------------------------------------------------------------------
\* How many numbers of a set are up to one.
PlaceIn(P, i) == Cardinality({j \in P : j <= i})

\* Each number of a finite set has a rank of its own, and there is no gap.
LEMMA PlaceNumbers ==
  ASSUME NEW n \in Nat, NEW P \in SUBSET (1 .. n)
  PROVE  /\ IsFiniteSet(P) /\ Cardinality(P) \in 0 .. n
         /\ \A i \in P : PlaceIn(P, i) \in 1 .. Cardinality(P)
         /\ \A i, j \in P : PlaceIn(P, i) <= PlaceIn(P, j) <=> i <= j
         /\ \A k \in 1 .. Cardinality(P) : \E i \in P : PlaceIn(P, i) = k
<1> DEFINE Upto(i) == {j \in P : j <= i}
<1>1. IsFiniteSet(P) /\ Cardinality(P) \in 0 .. n
  <2>1. IsFiniteSet(1 .. n) /\ Cardinality(1 .. n) = n
    BY FS_Interval
  <2>2. IsFiniteSet(P) /\ Cardinality(P) <= n
    BY <2>1, FS_Subset
  <2>3. Cardinality(P) \in Nat
    BY <2>2, FS_CardinalityType
  <2> QED BY <2>2, <2>3
<1>2. \A i : IsFiniteSet(Upto(i)) /\ Cardinality(Upto(i)) \in 0 .. Cardinality(P)
  <2> SUFFICES ASSUME NEW i PROVE IsFiniteSet(Upto(i)) /\ Cardinality(Upto(i)) \in 0 .. Cardinality(P)
    OBVIOUS
  <2>1. Upto(i) \in SUBSET P
    OBVIOUS
  <2> HIDE DEF Upto
  <2> QED BY <1>1, <2>1, FS_Subset, FS_CardinalityType
<1>3. \A i \in P : PlaceIn(P, i) \in 1 .. Cardinality(P)
  <2> SUFFICES ASSUME NEW i \in P PROVE PlaceIn(P, i) \in 1 .. Cardinality(P)
    OBVIOUS
  <2>1. i \in Upto(i)
    OBVIOUS
  <2>2. Cardinality(Upto(i)) # 0
    <3> HIDE DEF Upto
    <3> QED BY <1>2, <2>1, FS_EmptySet
  <2>3. PlaceIn(P, i) = Cardinality(Upto(i))
    BY DEF PlaceIn
  <2> HIDE DEF Upto
  <2> QED BY <1>1, <1>2, <2>2, <2>3
<1>4. ASSUME NEW i \in P, NEW j \in P, i < j PROVE PlaceIn(P, i) < PlaceIn(P, j)
  <2>0. j \in Upto(j) /\ j \notin Upto(i)
    BY <1>4
  <2>1. Upto(i) \in SUBSET Upto(j) /\ Upto(i) # Upto(j)
    <3>1. \A k \in P : k <= i => k <= j
      BY <1>4
    <3>2. Upto(i) \subseteq Upto(j)
      BY <3>1
    <3> HIDE DEF Upto
    <3> QED BY <2>0, <3>2
  <2>2. PlaceIn(P, i) = Cardinality(Upto(i)) /\ PlaceIn(P, j) = Cardinality(Upto(j))
    BY DEF PlaceIn
  <2> HIDE DEF Upto
  <2>3. Cardinality(Upto(i)) <= Cardinality(Upto(j)) /\ Cardinality(Upto(i)) # Cardinality(Upto(j))
    BY <1>2, <2>1, FS_Subset
  <2> QED BY <1>1, <1>2, <2>2, <2>3
<1>5. \A i, j \in P : PlaceIn(P, i) <= PlaceIn(P, j) <=> i <= j
  <2> SUFFICES ASSUME NEW i \in P, NEW j \in P PROVE PlaceIn(P, i) <= PlaceIn(P, j) <=> i <= j
    OBVIOUS
  <2>1. PlaceIn(P, i) \in Nat /\ PlaceIn(P, j) \in Nat
    BY <1>1, <1>3
  <2>2. i < j => PlaceIn(P, i) < PlaceIn(P, j)
    BY <1>4
  <2>3. j < i => PlaceIn(P, j) < PlaceIn(P, i)
    BY <1>4
  <2> QED BY <2>1, <2>2, <2>3
<1>6. \A k \in 1 .. Cardinality(P) : \E i \in P : PlaceIn(P, i) = k
  <2> DEFINE rank == [i \in P |-> PlaceIn(P, i)]
  <2>1. rank \in [P -> 1 .. Cardinality(P)]
    BY <1>3
  <2>2. \A i, j \in P : rank[i] = rank[j] => i = j
    <3> SUFFICES ASSUME NEW i \in P, NEW j \in P, PlaceIn(P, i) = PlaceIn(P, j) PROVE i = j
      OBVIOUS
    <3>1. PlaceIn(P, i) \in Nat
      BY <1>1, <1>3
    <3>2. i <= j /\ j <= i
      BY <1>5, <3>1
    <3> QED BY <3>2
  <2>3. rank \in Injection(P, 1 .. Cardinality(P))
    <3> HIDE DEF rank
    <3> QED BY <2>1, <2>2 DEF Injection, IsInjective
  <2>4. IsFiniteSet(1 .. Cardinality(P)) /\ Cardinality(1 .. Cardinality(P)) = Cardinality(P)
    BY <1>1, FS_Interval
  <2>5. rank \in Surjection(P, 1 .. Cardinality(P))
    <3> HIDE DEF rank
    <3> QED BY <2>3, <2>4, FS_Injection
  <2>6. \A k \in 1 .. Cardinality(P) : \E i \in P : rank[i] = k
    <3> HIDE DEF rank
    <3> QED BY <2>5 DEF Surjection
  <2> QED BY <2>6
<1> QED BY <1>1, <1>3, <1>5, <1>6

\* The ranks of two sets, one after the other.
LEMMA PlacesOfParts ==
  ASSUME NEW n \in Nat, NEW P \in SUBSET (1 .. n), NEW Q \in SUBSET (1 .. n),
         \A i \in P, j \in Q : i < j
  PROVE  /\ Cardinality(P \cup Q) = Cardinality(P) + Cardinality(Q)
         /\ \A i \in P : PlaceIn(P \cup Q, i) = PlaceIn(P, i)
         /\ \A j \in Q : PlaceIn(P \cup Q, j) = Cardinality(P) + PlaceIn(Q, j)
<1>1. IsFiniteSet(P) /\ IsFiniteSet(Q) /\ P \cap Q = {}
  BY PlaceNumbers
<1>2. ASSUME NEW i \in P PROVE PlaceIn(P \cup Q, i) = PlaceIn(P, i)
  <2>1. \A j \in Q : ~(j <= i)
    OBVIOUS
  <2>2. {j \in P \cup Q : j <= i} = {j \in P : j <= i}
    BY <2>1
  <2> QED BY <2>2 DEF PlaceIn
<1>3. ASSUME NEW j \in Q PROVE PlaceIn(P \cup Q, j) = Cardinality(P) + PlaceIn(Q, j)
  <2> DEFINE V == {k \in Q : k <= j}
  <2>0. \A i \in P : i <= j
    OBVIOUS
  <2>1. {k \in P \cup Q : k <= j} = P \cup V /\ V \in SUBSET Q /\ P \cap V = {}
    BY <1>1, <2>0
  <2>2. PlaceIn(P \cup Q, j) = Cardinality(P \cup V) /\ PlaceIn(Q, j) = Cardinality(V)
    BY <2>1 DEF PlaceIn
  <2> HIDE DEF V
  <2>3. IsFiniteSet(V)
    BY <1>1, <2>1, FS_Subset
  <2> QED BY <1>1, <2>1, <2>2, <2>3, DisjointUnion
<1> QED BY <1>1, <1>2, <1>3, DisjointUnion
=============================================================================
