---------------------------- MODULE OrderLemmas ----------------------------
(* Facts about the order of the naturals and about finite sets of them,     *)
(* which the proofs of the components share.                                *)
EXTENDS Integers, FiniteSets, FiniteSetTheorems, WellFoundedInduction, TLAPS

\* The order of the naturals is well founded, as a relation the provers can use.
LEMMA NatWellFounded ==
    \E R : /\ IsWellFoundedOn(R, Nat)
           /\ \A x, y \in Nat : x < y => <<x, y>> \in R
<1>1. \A x, y \in Nat : x < y => <<x, y>> \in OpToRel(<, Nat)
  BY Zenon DEF OpToRel
<1>2. QED
  BY <1>1, NatLessThanWellFounded, Zenon

\* A non-empty set of naturals has a least element.
LEMMA LeastNat ==
    ASSUME NEW D, D \subseteq Nat, D # {}
    PROVE  \E x \in D : \A y \in D : ~(y < x)
<1>1. PICK R : /\ IsWellFoundedOn(R, Nat)
               /\ \A x, y \in Nat : x < y => <<x, y>> \in R
  BY NatWellFounded, Zenon
<1>2. PICK x \in D : \A y \in D : ~(<<y, x>> \in R)
  BY <1>1, WFMin, ZenonT(60)
<1>3. QED
  BY <1>1, <1>2, Zenon

\* A non-empty set of positions has a greatest one.
LEMMA GreatestPosition ==
    ASSUME NEW n \in Nat, NEW T, T \subseteq 1 .. n, T # {}
    PROVE  \E i \in T : \A j \in T : j <= i
<1> DEFINE D == {d \in Nat : n - d \in T}
<1>1. PICK t \in T : TRUE
  OBVIOUS
<1>2. n - t \in D /\ D \subseteq Nat
  <2>1. t \in 1 .. n
    BY <1>1
  <2>2. n - t \in Nat /\ n - (n - t) = t
    BY <2>1
  <2>3. QED
    BY <1>1, <2>2
<1>3. PICK x \in D : \A y \in D : ~(y < x)
  <2> HIDE DEF D
  <2>1. D # {}
    BY <1>2
  <2>2. QED
    BY <1>2, <2>1, LeastNat, Zenon
<1>4. ASSUME NEW j \in T
      PROVE  j <= n - x
  <2>1. j \in 1 .. n
    BY <1>4
  <2>2. n - j \in Nat /\ n - (n - j) = j
    BY <2>1
  <2>3. n - j \in D
    BY <1>4, <2>2
  <2>4. ~(n - j < x)
    BY <1>3, <2>3
  <2>5. QED
    BY <2>1, <2>4, <1>3
<1>5. n - x \in T
  BY <1>3
<1>6. QED
  BY <1>4, <1>5

\* One more element makes a finite set at most one larger.
LEMMA AddOne ==
    ASSUME NEW S, NEW x, IsFiniteSet(S)
    PROVE  /\ IsFiniteSet(S \cup {x})
           /\ Cardinality(S) \in Nat /\ Cardinality(S \cup {x}) \in Nat
           /\ Cardinality(S \cup {x}) <= Cardinality(S) + 1
           /\ x \notin S => Cardinality(S \cup {x}) = Cardinality(S) + 1
<1>1. /\ IsFiniteSet(S \cup {x})
      /\ Cardinality(S \cup {x}) =
           IF x \in S THEN Cardinality(S) ELSE Cardinality(S) + 1
  BY FS_AddElement, Zenon
<1>2. Cardinality(S) \in Nat
  BY FS_CardinalityType, Zenon
<1>3. QED
  BY <1>1, <1>2

\* A finite set of naturals has an upper bound.
LEMMA FiniteBounded ==
    ASSUME NEW S, S \subseteq Nat, IsFiniteSet(S)
    PROVE  \E n \in Nat : \A x \in S : x <= n
<1> DEFINE Bounded(T) == \E n \in Nat : \A x \in T : x <= n
           D == {c \in Nat : \E T \in SUBSET S : Cardinality(T) = c /\ ~Bounded(T)}
<1>1. SUFFICES ASSUME ~Bounded(S)
               PROVE  FALSE
  OBVIOUS
<1>2. D \subseteq Nat /\ D # {}
  <2>1. Cardinality(S) \in Nat
    BY FS_CardinalityType
  <2>2. Cardinality(S) \in D
    BY <1>1, <2>1
  <2>3. QED
    BY <2>2
<1>3. PICK c \in D : \A d \in D : ~(d < c)
  <2> HIDE DEF D
  <2>1. QED
    BY <1>2, LeastNat, Zenon
<1>4. PICK T \in SUBSET S : Cardinality(T) = c /\ ~Bounded(T)
  BY <1>3
<1>5. IsFiniteSet(T) /\ c \in Nat
  BY <1>3, <1>4, FS_Subset
<1>6. T # {}
  BY <1>4
<1>7. PICK x \in T : TRUE
  BY <1>6
<1>8. /\ IsFiniteSet(T \ {x}) /\ Cardinality(T \ {x}) = c - 1
      /\ c - 1 \in Nat
  <2>1. IsFiniteSet(T \ {x}) /\ Cardinality(T \ {x}) = c - 1
    BY <1>4, <1>5, <1>7, FS_RemoveElement
  <2>2. QED
    BY <2>1, FS_CardinalityType
<1>9. Bounded(T \ {x})
  <2>1. c - 1 \notin D
    <3> HIDE DEF D
    <3>1. c - 1 < c
      BY <1>5
    <3>2. QED
      BY <1>3, <3>1, Zenon
  <2>2. T \ {x} \in SUBSET S
    BY <1>4
  <2> HIDE DEF Bounded
  <2>3. QED
    BY <1>8, <2>1, <2>2
<1>10. PICK n \in Nat : \A y \in T \ {x} : y <= n
  BY <1>9
<1>11. Bounded(T)
  <2>1. x \in Nat /\ n + x \in Nat
    BY <1>7, <1>10
  <2>2. ASSUME NEW y \in T
        PROVE  y <= n + x
    <3>1. y \in Nat
      BY <2>2
    <3>2. y = x \/ y <= n
      BY <1>10, <2>2
    <3>3. QED
      BY <2>1, <3>1, <3>2, <1>10
  <2>3. QED
    BY <2>1, <2>2
<1>12. QED
  BY <1>4, <1>11

\* Ranks: for every k below its cardinality a finite set of naturals has an element with
\* exactly k smaller ones.
LEMMA RankExists ==
    ASSUME NEW S, S \subseteq Nat, IsFiniteSet(S), NEW k \in Nat, k < Cardinality(S)
    PROVE  \E a \in S : Cardinality({b \in S : b < a}) = k
<1> DEFINE Below(n) == {b \in S : b < n}
           D == {n \in Nat : Cardinality(Below(n)) > k}
<1>1. \A n \in Nat : IsFiniteSet(Below(n)) /\ Cardinality(Below(n)) \in Nat
  <2>1. ASSUME NEW n \in Nat
        PROVE  IsFiniteSet(Below(n)) /\ Cardinality(Below(n)) \in Nat
    <3>1. Below(n) \in SUBSET S
      OBVIOUS
    <3>2. IsFiniteSet(Below(n))
      BY <3>1, FS_Subset
    <3>3. QED
      BY <3>2, FS_CardinalityType
  <2>2. QED
    BY <2>1
<1>2. D \subseteq Nat /\ D # {}
  <2>1. PICK n \in Nat : \A x \in S : x <= n
    BY FiniteBounded
  <2>2. n + 1 \in Nat /\ Below(n + 1) = S
    <3>1. \A x \in S : x \in Nat /\ x < n + 1
      BY <2>1
    <3>2. Below(n + 1) = S
      BY <3>1, Zenon
    <3>3. QED
      BY <3>2
  <2>3. n + 1 \in D
    BY <2>2, FS_CardinalityType
  <2>4. QED
    BY <2>3
<1>3. PICK n \in D : \A m \in D : ~(m < n)
  <2> HIDE DEF D
  <2>1. QED
    BY <1>2, LeastNat, Zenon
<1>4. n \in Nat /\ Cardinality(Below(n)) > k
  BY <1>3
<1>5. n # 0
  <2>1. ASSUME n = 0 PROVE FALSE
    <3>1. Below(n) = {}
      <4>1. \A x \in S : ~(x < 0)
        OBVIOUS
      <4>2. QED
        BY <2>1, <4>1
    <3>2. Cardinality(Below(n)) = 0
      BY <3>1, FS_EmptySet
    <3>3. QED
      BY <1>4, <3>2
  <2>2. QED
    BY <2>1
<1>6. PICK m \in Nat : n = m + 1 /\ m \notin D
  <2>1. n - 1 \in Nat /\ n = (n - 1) + 1 /\ n - 1 < n
    BY <1>4, <1>5
  <2> HIDE DEF D
  <2>2. n - 1 \notin D
    BY <1>3, <2>1, Zenon
  <2>3. QED
    BY <2>1, <2>2
<1>7. /\ IsFiniteSet(Below(m)) /\ Cardinality(Below(m)) \in Nat
      /\ Cardinality(Below(m)) <= k
  BY <1>1, <1>6
<1>8. \A x \in S : x < n <=> x < m \/ x = m
  BY <1>6
<1>9. m \in S
  <2>1. ASSUME m \notin S PROVE FALSE
    <3>1. Below(n) = Below(m)
      BY <1>8, <2>1, Zenon
    <3>2. QED
      BY <1>4, <1>7, <3>1
  <2>2. QED
    BY <2>1
<1>10. Below(n) = Below(m) \cup {m}
  BY <1>8, <1>9, Zenon
<1> HIDE DEF Below
<1>11. /\ Cardinality(Below(n)) \in Nat
       /\ Cardinality(Below(n)) <= Cardinality(Below(m)) + 1
  BY <1>7, <1>10, AddOne, Zenon
<1>12. Cardinality(Below(m)) = k
  BY <1>4, <1>7, <1>11
<1>13. QED
  BY <1>9, <1>12 DEF Below

\* A set that maps one to one into a finite set is finite and no larger.
LEMMA NoLarger ==
    ASSUME NEW S, NEW T, IsFiniteSet(T), NEW f \in [S -> T],
           \A a, b \in S : f[a] = f[b] => a = b
    PROVE  /\ IsFiniteSet(S) /\ Cardinality(S) \in Nat /\ Cardinality(T) \in Nat
           /\ Cardinality(S) <= Cardinality(T)
<1>1. f \in Injection(S, T)
  BY DEF Injection, IsInjective
<1>2. IsFiniteSet(S) /\ Cardinality(S) <= Cardinality(T)
  BY <1>1, FS_Injection, Zenon
<1>3. QED
  BY <1>2, FS_CardinalityType
=============================================================================
