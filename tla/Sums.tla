-------------------------------- MODULE Sums --------------------------------
(***************************************************************************)
(* Sums over finite sets, as the folds of the models compute them.  The    *)
(* library's induction theorems take an operator, which no prover at hand  *)
(* can instantiate; a set of numbers does instead (AllNumbers).            *)
(***************************************************************************)
EXTENDS Integers, FiniteSetTheorems, WellFoundedInduction, TLAPS

\* A set of numbers that holds 0 and, with each number, the next holds them all.
LEMMA AllNumbers ==
    ASSUME NEW T, 0 \in T, \A k \in Nat : k \in T => k + 1 \in T
    PROVE  \A k \in Nat : k \in T
<1> DEFINE R == OpToRel(<, Nat)
           Missing == Nat \ T
<1>1. IsWellFoundedOn(R, Nat)
  BY NatLessThanWellFounded
<1>2. \A x, y \in Nat : <<y, x>> \in R <=> y < x
  BY DEF OpToRel
<1> HIDE DEF R
<1>3. ASSUME Missing # {}
      PROVE  FALSE
  <2>1. Missing \subseteq Nat
    OBVIOUS
  <2>2. PICK x \in Missing : \A y \in Missing : ~(<<y, x>> \in R)
    <3> HIDE DEF Missing
    <3>1. QED
      BY <1>1, <1>3, <2>1, WFMin
  <2>3. x \in Nat /\ x - 1 \in Nat /\ x - 1 < x
    BY <2>2
  <2>4. x - 1 \in T
    BY <1>2, <2>2, <2>3
  <2>5. (x - 1) + 1 \in T /\ (x - 1) + 1 = x
    BY <2>3, <2>4
  <2>6. QED
    BY <2>2, <2>5
<1>4. QED
  BY <1>3


\* The element a sum over a set adds next, the function that adds them all up,
\* and the sum of f over D.
Picked(s) == CHOOSE x \in s : TRUE
Adds(g, f, D) ==
    g = [s \in SUBSET D |-> IF s = {} THEN 0 ELSE f[Picked(s)] + g[s \ {Picked(s)}]]
SumOver(f, D) == (CHOOSE g : Adds(g, f, D))[D]

\* What is picked from a set is in it.
LEMMA PickedIsIn == ASSUME NEW s, s # {} PROVE Picked(s) \in s
BY DEF Picked

\* A finite set without its picked element has one element less.
LEMMA OneLess ==
    ASSUME NEW k \in Nat, NEW s, NEW x \in s, IsFiniteSet(s), Cardinality(s) = k + 1
    PROVE  IsFiniteSet(s \ {x}) /\ Cardinality(s \ {x}) = k
BY FS_RemoveElement

\* A set with k + 1 elements is not empty.
LEMMA NotEmpty ==
    ASSUME NEW k \in Nat, NEW s, Cardinality(s) = k + 1
    PROVE  s # {}
BY FS_EmptySet

\* The sum of a finite set is the same in whichever larger set it is taken.
LEMMA AddsUnique ==
    ASSUME NEW f, NEW g, NEW h, NEW D, NEW E, Adds(g, f, D), Adds(h, f, E),
           NEW S \in SUBSET (D \cap E), IsFiniteSet(S)
    PROVE  g[S] = h[S]
<1> DEFINE T == {k \in Nat : \A s \in SUBSET (D \cap E) :
                               IsFiniteSet(s) /\ Cardinality(s) = k => g[s] = h[s]}
<1>1. ASSUME NEW s \in SUBSET (D \cap E)
      PROVE  /\ g[s] = IF s = {} THEN 0 ELSE f[Picked(s)] + g[s \ {Picked(s)}]
             /\ h[s] = IF s = {} THEN 0 ELSE f[Picked(s)] + h[s \ {Picked(s)}]
  BY DEF Adds
<1>2. 0 \in T
  BY <1>1, FS_EmptySet
<1>3. ASSUME NEW k \in Nat, k \in T
      PROVE  k + 1 \in T
  <2> SUFFICES ASSUME NEW s \in SUBSET (D \cap E), IsFiniteSet(s), Cardinality(s) = k + 1
               PROVE  g[s] = h[s]
    OBVIOUS
  <2>1. s # {} /\ Picked(s) \in s
    BY NotEmpty, PickedIsIn
  <2>2. /\ IsFiniteSet(s \ {Picked(s)}) /\ Cardinality(s \ {Picked(s)}) = k
        /\ s \ {Picked(s)} \in SUBSET (D \cap E)
    BY <2>1, OneLess
  <2>3. g[s \ {Picked(s)}] = h[s \ {Picked(s)}]
    BY <1>3, <2>2
  <2>4. QED
    BY <1>1, <2>1, <2>3
<1> HIDE DEF T
<1>4. Cardinality(S) \in T
  BY <1>2, <1>3, AllNumbers, FS_CardinalityType
<1>5. QED
  BY <1>4 DEF T

\* Every finite set has a sum.
LEMMA AddsExists ==
    ASSUME NEW f, NEW S, IsFiniteSet(S)
    PROVE  \E g : Adds(g, f, S)
<1> DEFINE T == {k \in Nat : \A D : IsFiniteSet(D) /\ Cardinality(D) <= k
                                      => \E g : Adds(g, f, D)}
<1>1. 0 \in T
  <2> SUFFICES ASSUME NEW D, IsFiniteSet(D), Cardinality(D) <= 0
               PROVE  \E g : Adds(g, f, D)
    OBVIOUS
  <2>1. D = {}
    <3>1. Cardinality(D) \in Nat
      BY FS_CardinalityType
    <3>2. Cardinality(D) = 0
      BY <3>1
    <3>3. QED
      BY <3>2, FS_EmptySet
  <2>2. SUBSET D = {{}}
    BY <2>1
  <2>3. Adds([s \in SUBSET D |-> 0], f, D)
    BY <2>2 DEF Adds
  <2>4. QED
    BY <2>3
<1>2. ASSUME NEW k \in Nat, k \in T
      PROVE  k + 1 \in T
  <2> SUFFICES ASSUME NEW D, IsFiniteSet(D), Cardinality(D) <= k + 1
               PROVE  \E g : Adds(g, f, D)
    OBVIOUS
  <2>1. CASE D = {}
    <3>1. SUBSET D = {{}}
      BY <2>1
    <3>2. Adds([s \in SUBSET D |-> 0], f, D)
      BY <3>1 DEF Adds
    <3>3. QED
      BY <3>2
  <2>2. CASE D # {}
    <3> DEFINE h == [s \in SUBSET D |->
                       IF s = D THEN f[Picked(D)] + SumOver(f, D \ {Picked(D)})
                                ELSE SumOver(f, s)]
    <3>1. ASSUME NEW s \in SUBSET D, s # D
          PROVE  /\ IsFiniteSet(s)
                 /\ Adds(CHOOSE a : Adds(a, f, s), f, s)
      <4>1. IsFiniteSet(s) /\ Cardinality(s) <= Cardinality(D) /\ Cardinality(s) # Cardinality(D)
        BY <3>1, FS_Subset
      <4>2. Cardinality(s) \in Nat /\ Cardinality(D) \in Nat
        BY <4>1, FS_CardinalityType
      <4>3. Cardinality(s) <= k
        BY <4>1, <4>2
      <4>4. \E g : Adds(g, f, s)
        BY <1>2, <4>1, <4>3
      <4>5. QED
        BY <4>1, <4>4
    <3>2. ASSUME NEW s \in SUBSET D
          PROVE  h[s] = IF s = {} THEN 0 ELSE f[Picked(s)] + h[s \ {Picked(s)}]
      <4>1. CASE s = D
        <5>1. Picked(s) \in s /\ s \ {Picked(s)} \in SUBSET D /\ s \ {Picked(s)} # D
          BY <2>2, <4>1, PickedIsIn
        <5>2. h[s \ {Picked(s)}] = SumOver(f, s \ {Picked(s)})
          BY <5>1
        <5>3. QED
          BY <2>2, <4>1, <5>2
      <4>2. CASE s # D
        <5> DEFINE g == CHOOSE a : Adds(a, f, s)
                   t == s \ {Picked(s)}
                   e == CHOOSE a : Adds(a, f, t)
        <5>1. h[s] = g[s]
          BY <4>2 DEF SumOver
        <5>2. Adds(g, f, s)
          BY <3>1, <4>2
        <5>3. g[s] = IF s = {} THEN 0 ELSE f[Picked(s)] + g[t]
          <6> HIDE DEF g
          <6>1. s \in SUBSET s
            OBVIOUS
          <6>2. QED
            BY <5>2, <6>1 DEF Adds
        <5>4. CASE s = {}
          BY <5>1, <5>3, <5>4
        <5>5. CASE s # {}
          <6>1. t \in SUBSET D /\ t # D /\ t \subseteq s
            BY <4>2, <5>5, PickedIsIn
          <6>2. h[t] = e[t]
            BY <6>1 DEF SumOver
          <6>3. Adds(e, f, t) /\ IsFiniteSet(t)
            BY <3>1, <6>1
          <6>4. t \in SUBSET (s \cap t)
            BY <6>1
          <6> HIDE DEF g, e, t
          <6>5. g[t] = e[t]
            BY <5>2, <6>3, <6>4, AddsUnique
          <6>6. h[s] = f[Picked(s)] + h[t]
            BY <5>1, <5>3, <5>5, <6>2, <6>5
          <6>7. QED
            BY <5>5, <6>6 DEF t
        <5>6. QED
          BY <5>4, <5>5
      <4>3. QED
        BY <4>1, <4>2
    <3>3. Adds(h, f, D)
      <4> DEFINE rhs == [s \in SUBSET D |->
                           IF s = {} THEN 0 ELSE f[Picked(s)] + h[s \ {Picked(s)}]]
      <4>1. /\ DOMAIN h = SUBSET D /\ DOMAIN rhs = SUBSET D
            /\ h = [s \in DOMAIN h |-> h[s]] /\ rhs = [s \in DOMAIN rhs |-> rhs[s]]
        OBVIOUS
      <4>2. \A s \in SUBSET D : h[s] = rhs[s]
        BY <3>2
      <4>3. h = rhs
        <5> HIDE DEF h, rhs
        <5>1. QED
          BY <4>1, <4>2
      <4> HIDE DEF h
      <4>4. QED
        BY <4>3 DEF Adds
    <3> HIDE DEF h
    <3>4. QED
      BY <3>3
  <2>3. QED
    BY <2>1, <2>2
<1> HIDE DEF T
<1>3. Cardinality(S) \in T /\ Cardinality(S) \in Nat
  BY <1>1, <1>2, AllNumbers, FS_CardinalityType
<1>4. QED
  BY <1>3 DEF T

\* A sum is what is picked first and the sum of the rest.
LEMMA SumStep ==
    ASSUME NEW f, NEW S, IsFiniteSet(S)
    PROVE  SumOver(f, S) = IF S = {} THEN 0
                           ELSE f[Picked(S)] + SumOver(f, S \ {Picked(S)})
<1> DEFINE R == S \ {Picked(S)}
           g == CHOOSE a : Adds(a, f, S)
           e == CHOOSE a : Adds(a, f, R)
<1>1. Adds(g, f, S)
  BY AddsExists
<1>2. IsFiniteSet(R)
  BY FS_RemoveElement
<1>3. Adds(e, f, R)
  <2> HIDE DEF R
  <2>1. QED
    BY <1>2, AddsExists
<1>4. SumOver(f, S) = g[S] /\ SumOver(f, R) = e[R]
  BY DEF SumOver
<1>5. R \in SUBSET (S \cap R)
  OBVIOUS
<1> HIDE DEF g, e
<1>6. g[S] = IF S = {} THEN 0 ELSE f[Picked(S)] + g[R]
  <2>1. S \in SUBSET S
    OBVIOUS
  <2>2. QED
    BY <1>1, <2>1 DEF Adds
<1> HIDE DEF R
<1>7. g[R] = e[R]
  BY <1>1, <1>2, <1>3, <1>5, AddsUnique
<1>8. QED
  BY <1>4, <1>6, <1>7 DEF R

\* The sum of whole numbers is a whole number.
LEMMA SumType ==
    ASSUME NEW f, NEW S, IsFiniteSet(S), \A x \in S : f[x] \in Int
    PROVE  /\ SumOver(f, S) \in Int
           /\ (\A x \in S : f[x] >= 0) => SumOver(f, S) >= 0
<1> DEFINE T == {k \in Nat : \A s \in SUBSET S : IsFiniteSet(s) /\ Cardinality(s) = k
                   => /\ SumOver(f, s) \in Int
                      /\ (\A x \in S : f[x] >= 0) => SumOver(f, s) >= 0}
<1>1. 0 \in T
  <2> SUFFICES ASSUME NEW s \in SUBSET S, IsFiniteSet(s), Cardinality(s) = 0
               PROVE  SumOver(f, s) = 0
    OBVIOUS
  <2>1. s = {}
    BY FS_EmptySet
  <2>2. QED
    BY <2>1, SumStep
<1>2. ASSUME NEW k \in Nat, k \in T
      PROVE  k + 1 \in T
  <2> SUFFICES ASSUME NEW s \in SUBSET S, IsFiniteSet(s), Cardinality(s) = k + 1
               PROVE  /\ SumOver(f, s) \in Int
                      /\ (\A x \in S : f[x] >= 0) => SumOver(f, s) >= 0
    OBVIOUS
  <2>1. s # {} /\ Picked(s) \in s
    BY NotEmpty, PickedIsIn
  <2>2. /\ IsFiniteSet(s \ {Picked(s)}) /\ Cardinality(s \ {Picked(s)}) = k
        /\ s \ {Picked(s)} \in SUBSET S
    BY <2>1, OneLess
  <2>3. /\ SumOver(f, s \ {Picked(s)}) \in Int
        /\ (\A x \in S : f[x] >= 0) => SumOver(f, s \ {Picked(s)}) >= 0
    BY <1>2, <2>2
  <2>4. SumOver(f, s) = f[Picked(s)] + SumOver(f, s \ {Picked(s)})
    BY <2>1, SumStep
  <2>5. f[Picked(s)] \in Int /\ Picked(s) \in S
    BY <2>1
  <2>6. QED
    BY <2>3, <2>4, <2>5
<1> HIDE DEF T
<1>3. Cardinality(S) \in T
  BY <1>1, <1>2, AllNumbers, FS_CardinalityType
<1>4. QED
  BY <1>3 DEF T

\* The order of a sum does not matter: any element may go first.
LEMMA SumRemove ==
    ASSUME NEW f, NEW S, IsFiniteSet(S), \A x \in S : f[x] \in Int, NEW a \in S
    PROVE  SumOver(f, S) = f[a] + SumOver(f, S \ {a})
<1> DEFINE T == {k \in Nat : \A s \in SUBSET S : IsFiniteSet(s) /\ Cardinality(s) = k
                   => \A x \in s : SumOver(f, s) = f[x] + SumOver(f, s \ {x})}
<1>1. 0 \in T
  BY FS_EmptySet
<1>2. ASSUME NEW k \in Nat, k \in T
      PROVE  k + 1 \in T
  <2> SUFFICES ASSUME NEW s \in SUBSET S, IsFiniteSet(s), Cardinality(s) = k + 1,
                      NEW x \in s
               PROVE  SumOver(f, s) = f[x] + SumOver(f, s \ {x})
    OBVIOUS
  <2> DEFINE c == Picked(s)
  <2>1. c \in s
    BY PickedIsIn
  <2>2. SumOver(f, s) = f[c] + SumOver(f, s \ {c})
    BY SumStep
  <2> HIDE DEF c
  <2>3. CASE x = c
    BY <2>2, <2>3
  <2>4. CASE x # c
    <3>1. /\ IsFiniteSet(s \ {c}) /\ Cardinality(s \ {c}) = k /\ s \ {c} \in SUBSET S
          /\ x \in s \ {c}
      BY <2>1, <2>4, OneLess
    <3>2. /\ IsFiniteSet(s \ {x}) /\ Cardinality(s \ {x}) = k /\ s \ {x} \in SUBSET S
          /\ c \in s \ {x}
      BY <2>1, <2>4, OneLess
    <3>3. SumOver(f, s \ {c}) = f[x] + SumOver(f, (s \ {c}) \ {x})
      BY <1>2, <3>1
    <3>4. SumOver(f, s \ {x}) = f[c] + SumOver(f, (s \ {x}) \ {c})
      BY <1>2, <3>2
    <3> DEFINE rest == SumOver(f, (s \ {c}) \ {x})
    <3>5. (s \ {c}) \ {x} = (s \ {x}) \ {c}
      OBVIOUS
    <3>6. f[x] \in Int /\ f[c] \in Int /\ rest \in Int
      <4>1. IsFiniteSet((s \ {c}) \ {x}) /\ \A y \in (s \ {c}) \ {x} : f[y] \in Int
        BY <3>1, FS_RemoveElement
      <4>2. QED
        BY <2>1, <4>1, SumType
    <3>7. SumOver(f, s \ {x}) = f[c] + rest /\ SumOver(f, s \ {c}) = f[x] + rest
      BY <3>3, <3>4, <3>5
    <3> HIDE DEF rest
    <3>8. f[c] + (f[x] + rest) = f[x] + (f[c] + rest)
      BY <3>6
    <3>9. QED
      BY <2>2, <3>7, <3>8
  <2>5. QED
    BY <2>3, <2>4
<1> HIDE DEF T
<1>3. Cardinality(S) \in T
  BY <1>1, <1>2, AllNumbers, FS_CardinalityType
<1>4. QED
  BY <1>3 DEF T

\* A sum depends on nothing but its terms.
LEMMA SumSame ==
    ASSUME NEW f, NEW h, NEW S, IsFiniteSet(S), \A x \in S : f[x] = h[x]
    PROVE  SumOver(f, S) = SumOver(h, S)
<1> DEFINE T == {k \in Nat : \A s \in SUBSET S : IsFiniteSet(s) /\ Cardinality(s) = k
                               => SumOver(f, s) = SumOver(h, s)}
<1>1. 0 \in T
  <2> SUFFICES ASSUME NEW s \in SUBSET S, IsFiniteSet(s), Cardinality(s) = 0
               PROVE  SumOver(f, s) = SumOver(h, s)
    OBVIOUS
  <2>1. s = {}
    BY FS_EmptySet
  <2>2. QED
    BY <2>1, SumStep
<1>2. ASSUME NEW k \in Nat, k \in T
      PROVE  k + 1 \in T
  <2> SUFFICES ASSUME NEW s \in SUBSET S, IsFiniteSet(s), Cardinality(s) = k + 1
               PROVE  SumOver(f, s) = SumOver(h, s)
    OBVIOUS
  <2>1. s # {} /\ Picked(s) \in s
    BY NotEmpty, PickedIsIn
  <2>2. /\ IsFiniteSet(s \ {Picked(s)}) /\ Cardinality(s \ {Picked(s)}) = k
        /\ s \ {Picked(s)} \in SUBSET S
    BY <2>1, OneLess
  <2>3. SumOver(f, s \ {Picked(s)}) = SumOver(h, s \ {Picked(s)})
    BY <1>2, <2>2
  <2>4. QED
    BY <2>1, <2>3, SumStep
<1> HIDE DEF T
<1>3. Cardinality(S) \in T
  BY <1>1, <1>2, AllNumbers, FS_CardinalityType
<1>4. QED
  BY <1>3 DEF T

\* The sums over two parts add up.
LEMMA SumParts ==
    ASSUME NEW f, NEW D, NEW E, IsFiniteSet(D), IsFiniteSet(E), D \cap E = {},
           \A x \in D \cup E : f[x] \in Int
    PROVE  SumOver(f, D \cup E) = SumOver(f, D) + SumOver(f, E)
<1> DEFINE T == {k \in Nat : \A s \in SUBSET E : IsFiniteSet(s) /\ Cardinality(s) = k
                   => SumOver(f, D \cup s) = SumOver(f, D) + SumOver(f, s)}
<1>1. SumOver(f, D) \in Int
  BY SumType
<1>2. 0 \in T
  <2> SUFFICES ASSUME NEW s \in SUBSET E, IsFiniteSet(s), Cardinality(s) = 0
               PROVE  SumOver(f, D \cup s) = SumOver(f, D) + SumOver(f, s)
    OBVIOUS
  <2>1. s = {} /\ D \cup s = D
    BY FS_EmptySet
  <2>2. SumOver(f, s) = 0
    BY <2>1, SumStep
  <2>3. QED
    BY <1>1, <2>1, <2>2
<1>3. ASSUME NEW k \in Nat, k \in T
      PROVE  k + 1 \in T
  <2> SUFFICES ASSUME NEW s \in SUBSET E, IsFiniteSet(s), Cardinality(s) = k + 1
               PROVE  SumOver(f, D \cup s) = SumOver(f, D) + SumOver(f, s)
    OBVIOUS
  <2> DEFINE x == Picked(s)
  <2>1. x \in s
    BY NotEmpty, PickedIsIn
  <2> HIDE DEF x
  <2>2. /\ IsFiniteSet(s \ {x}) /\ Cardinality(s \ {x}) = k /\ s \ {x} \in SUBSET E
    BY <2>1, OneLess
  <2>3. SumOver(f, D \cup (s \ {x})) = SumOver(f, D) + SumOver(f, s \ {x})
    BY <1>3, <2>2
  <2>4. SumOver(f, s) = f[x] + SumOver(f, s \ {x})
    BY <2>1, SumRemove
  <2>5. SumOver(f, D \cup s) = f[x] + SumOver(f, (D \cup s) \ {x})
    <3>1. /\ x \in D \cup s /\ \A y \in D \cup s : f[y] \in Int
      BY <2>1
    <3>2. IsFiniteSet(D \cup s)
      BY FS_Union
    <3>3. QED
      BY <3>1, <3>2, SumRemove
  <2>6. (D \cup s) \ {x} = D \cup (s \ {x})
    BY <2>1
  <2>7. f[x] \in Int /\ SumOver(f, s \ {x}) \in Int
    <3>1. \A y \in s \ {x} : f[y] \in Int
      OBVIOUS
    <3>2. QED
      BY <2>1, <2>2, <3>1, SumType
  <2>8. /\ SumOver(f, D \cup s) = f[x] + (SumOver(f, D) + SumOver(f, s \ {x}))
        /\ SumOver(f, D) + SumOver(f, s) = SumOver(f, D) + (f[x] + SumOver(f, s \ {x}))
    BY <2>3, <2>4, <2>5, <2>6
  <2>9. QED
    BY <1>1, <2>7, <2>8
<1> HIDE DEF T
<1>4. Cardinality(E) \in T
  BY <1>2, <1>3, AllNumbers, FS_CardinalityType
<1>5. QED
  BY <1>4 DEF T

\* A function that satisfies the equation of a sum is the sum.
LEMMA SumIsUnique ==
    ASSUME NEW f, NEW S, IsFiniteSet(S), NEW g, Adds(g, f, S)
    PROVE  g[S] = SumOver(f, S)
<1> DEFINE h == CHOOSE h : Adds(h, f, S)
<1>1. Adds(h, f, S)
  BY AddsExists
<1>2. SumOver(f, S) = h[S] /\ S \in SUBSET (S \cap S)
  BY DEF SumOver
<1> HIDE DEF h
<1>3. QED
  BY <1>1, <1>2, AddsUnique
=============================================================================
