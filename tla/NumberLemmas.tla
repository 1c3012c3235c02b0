---------------------------- MODULE NumberLemmas ----------------------------
(***************************************************************************)
(* The least-number principle, in a form the proofs can cite: an induction *)
(* over lines or rounds is done by taking the least counterexample.  And   *)
(* that functions defined by recursion over numbers exist.                 *)
(***************************************************************************)
EXTENDS Integers, FiniteSets, TLAPS, WellFoundedInduction, FiniteSetTheorems

\* The least element of a set of numbers.
LEMMA LeastNumber ==
    ASSUME NEW T, T \subseteq Nat, T # {}
    PROVE  \E x \in T : \A y \in T : x <= y
<1> DEFINE R == {ss \in Nat \X Nat : ss[1] < ss[2]}
<1>1. R = OpToRel(<, Nat)
  BY DEF OpToRel
<1>2. IsWellFoundedOn(R, Nat)
  BY <1>1, NatLessThanWellFounded
<1>3. \E x \in T : \A y \in T : ~ (<<y, x>> \in R)
  <2> HIDE DEF R
  <2> QED BY <1>2, WFMin
<1>4. PICK x \in T : \A y \in T : ~ (<<y, x>> \in R)
  BY <1>3
<1>5. ASSUME NEW y \in T PROVE x <= y
  <2>1. x \in Nat /\ y \in Nat /\ ~ (<<y, x>> \in R)
    BY <1>4
  <2>2. ~ (y < x)
    BY <2>1
  <2>3. QED
    BY <2>1, <2>2
<1>6. QED
  BY <1>5

\* The greatest element of a bounded set of numbers.
LEMMA GreatestNumber ==
    ASSUME NEW n \in Nat, NEW T, T \subseteq 0..n, T # {}
    PROVE  \E x \in T : \A y \in T : y <= x
<1> DEFINE D == {d \in Nat : n - d \in T}
<1>1. D # {}
  <2>1. PICK x \in T : TRUE
    OBVIOUS
  <2>2. n - (n - x) = x /\ n - x \in Nat
    BY <2>1
  <2>3. n - x \in D
    BY <2>2
  <2>4. QED
    BY <2>3
<1>2. PICK d \in D : \A y \in D : d <= y
  <2> HIDE DEF D
  <2>1. D \subseteq Nat
    BY DEF D
  <2> QED BY <1>1, <2>1, LeastNumber
<1>3. \A y \in T : n - y \in D /\ y \in Nat
  <2> TAKE y \in T
  <2>1. n - (n - y) = y /\ n - y \in Nat /\ y \in Nat
    OBVIOUS
  <2>2. QED BY <2>1
<1>4. n - d \in T /\ d \in Nat
  OBVIOUS
<1>5. ASSUME NEW y \in T PROVE y <= n - d
  <2>1. d <= n - y /\ y \in Nat
    BY <1>2, <1>3
  <2>2. QED
    BY <1>4, <2>1
<1>6. QED
  BY <1>4, <1>5

\* Induction, for a property given as the set of numbers that have it.
LEMMA NumberInduction ==
    ASSUME NEW T, 0 \in T, \A n \in Nat : n \in T => n + 1 \in T
    PROVE  \A n \in Nat : n \in T
<1> SUFFICES ASSUME Nat \ T # {} PROVE FALSE
  OBVIOUS
<1>1. PICK x \in Nat \ T : \A y \in Nat \ T : x <= y
  <2> DEFINE S == Nat \ T
  <2>1. S \subseteq Nat /\ S # {}
    OBVIOUS
  <2> HIDE DEF S
  <2>2. \E x \in S : \A y \in S : x <= y
    BY <2>1, LeastNumber
  <2> QED BY <2>2 DEF S
<1>2. x # 0
  OBVIOUS
<1>3. x - 1 \in Nat /\ x - 1 \in T
  BY <1>1, <1>2
<1>4. (x - 1) + 1 \in T
  BY <1>3
<1> QED BY <1>4

(* A function defined by a first value and a step from each value to the next: *)
(* what the recursive definitions of the models are, each with its own step.   *)
LEMMA RecursionOverNumbers ==
    ASSUME NEW D, NEW A \in D, NEW G \in [D -> D]
    PROVE  \E f \in [Nat -> D] : f[0] = A /\ \A n \in Nat : f[n + 1] = G[f[n]]
<1> DEFINE Upto(n) == {g \in [0..n -> D] :
                          g[0] = A /\ \A i \in 0..(n - 1) : g[i + 1] = G[g[i]]}
           T == {n \in Nat : Upto(n) # {}}
           U == {n \in Nat : \A m \in Nat : \A g, h : 
                    n <= m /\ g \in Upto(n) /\ h \in Upto(m) => g[n] = h[n]}
<1>1. \A n \in Nat : n \in T
  <2>1. 0 \in T
    <3>1. [i \in 0..0 |-> A] \in Upto(0)
      OBVIOUS
    <3> QED BY <3>1
  <2>2. ASSUME NEW n \in Nat, n \in T PROVE n + 1 \in T
    <3>1. PICK g : g \in Upto(n)
      BY <2>2
    <3> DEFINE h == [i \in 0..(n + 1) |-> IF i = n + 1 THEN G[g[n]] ELSE g[i]]
    <3>2. h \in [0..(n + 1) -> D]
      BY <3>1
    <3>3. h[0] = A
      BY <3>1
    <3>4. ASSUME NEW i \in 0..((n + 1) - 1) PROVE h[i + 1] = G[h[i]]
      <4>1. CASE i = n
        BY <4>1
      <4>2. CASE i # n
        <5>1. i \in 0..(n - 1) /\ i + 1 \in 0..(n + 1) /\ i + 1 # n + 1 /\ i # n + 1
          BY <4>2
        <5>2. g[i + 1] = G[g[i]]
          BY <3>1, <5>1
        <5> QED BY <5>1, <5>2
      <4> QED BY <4>1, <4>2
    <3>5. h \in Upto(n + 1)
      <4> HIDE DEF h
      <4> QED BY <3>2, <3>3, <3>4
    <3> QED BY <3>5
  <2> HIDE DEF T
  <2> QED BY <2>1, <2>2, NumberInduction
<1>2. \A n \in Nat : n \in U
  <2>1. 0 \in U
    OBVIOUS
  <2>2. ASSUME NEW n \in Nat, n \in U PROVE n + 1 \in U
    <3> SUFFICES ASSUME NEW m \in Nat, NEW g, NEW h, n + 1 <= m,
                        g \in Upto(n + 1), h \in Upto(m)
                 PROVE  g[n + 1] = h[n + 1]
      OBVIOUS
    <3>1. n \in 0..((n + 1) - 1) /\ n \in 0..(m - 1) /\ n <= m
      OBVIOUS
    <3>2. g[n + 1] = G[g[n]] /\ h[n + 1] = G[h[n]]
      BY <3>1
    <3> DEFINE k == [i \in 0..n |-> g[i]]
    <3>3. k \in Upto(n)
      <4>1. k \in [0..n -> D] /\ k[0] = A
        OBVIOUS
      <4>2. ASSUME NEW i \in 0..(n - 1) PROVE k[i + 1] = G[k[i]]
        <5>1. i \in 0..((n + 1) - 1) /\ i + 1 \in 0..n /\ i \in 0..n
          OBVIOUS
        <5>2. g[i + 1] = G[g[i]]
          BY <5>1
        <5> QED BY <5>1, <5>2
      <4> HIDE DEF k
      <4> QED BY <4>1, <4>2
    <3>4. k[n] = h[n] /\ k[n] = g[n]
      <4>1. k[n] = g[n]
        OBVIOUS
      <4> HIDE DEF k, Upto
      <4>2. \A j \in Nat : \A a, b : n <= j /\ a \in Upto(n) /\ b \in Upto(j) => a[n] = b[n]
        BY <2>2
      <4>3. k[n] = h[n]
        <5> HIDE DEF U
        <5> QED BY <3>1, <3>3, <4>2
      <4> QED BY <4>1, <4>3
    <3> QED BY <3>2, <3>4
  <2> HIDE DEF U
  <2> QED BY <2>1, <2>2, NumberInduction
<1> DEFINE pick(n) == CHOOSE g : g \in Upto(n)
           f == [n \in Nat |-> pick(n)[n]]
<1>3. \A n \in Nat : pick(n) \in Upto(n)
  BY <1>1
<1> HIDE DEF pick
<1>4. f \in [Nat -> D]
  <2> SUFFICES ASSUME NEW n \in Nat PROVE pick(n)[n] \in D
    OBVIOUS
  <2> QED BY <1>3
<1>5. f[0] = A
  BY <1>3
<1>6. ASSUME NEW n \in Nat PROVE f[n + 1] = G[f[n]]
  <2>1. pick(n) \in Upto(n) /\ pick(n + 1) \in Upto(n + 1) /\ n + 1 \in Nat /\ n <= n + 1
    BY <1>3
  <2>2. pick(n + 1)[n + 1] = G[pick(n + 1)[n]]
    <3>1. n \in 0..((n + 1) - 1)
      OBVIOUS
    <3> QED BY <2>1, <3>1
  <2>3. pick(n)[n] = pick(n + 1)[n]
    <3> HIDE DEF Upto
    <3> QED BY <1>2, <2>1
  <2> QED BY <2>2, <2>3
<1> QED BY <1>4, <1>5, <1>6

Iterates(f, A, G) == f[0] = A /\ \A n \in Nat : f[n + 1] = G[f[n]]

LEMMA IterationExists ==
    \A D, A, G : A \in D /\ G \in [D -> D] => \E f \in [Nat -> D] : Iterates(f, A, G)
<1>1. ASSUME NEW D, NEW A, NEW G, A \in D, G \in [D -> D]
      PROVE  \E f \in [Nat -> D] : Iterates(f, A, G)
  BY <1>1, RecursionOverNumbers DEF Iterates
<1> QED BY <1>1

(* The same up to a last number, with a step that depends on the number: a     *)
(* fold over a sequence.                                                       *)
StepByStep(f, A, N, G) == f[0] = A /\ \A n \in 1..N : f[n] = G[<<n, f[n - 1]>>]

LEMMA RecursionUpTo ==
    \A D, A, N, G :
        A \in D /\ N \in Nat /\ G \in [(1..N) \X D -> D] =>
            \E f \in [0..N -> D] : StepByStep(f, A, N, G)
<1>1. ASSUME NEW D, NEW A, NEW N, NEW G,
             A \in D, N \in Nat, G \in [(1..N) \X D -> D]
      PROVE  \E f \in [0..N -> D] : StepByStep(f, A, N, G)
  <2> DEFINE DD == Nat \X D
             step(x) == <<x[1] + 1, IF x[1] + 1 \in 1..N THEN G[<<x[1] + 1, x[2]>>] ELSE x[2]>>
             GG == [x \in DD |-> step(x)]
             AA == <<0, A>>
  <2>1. GG \in [DD -> DD]
    <3>1. ASSUME NEW x \in DD PROVE step(x) \in DD
      <4>1. x[1] + 1 \in Nat /\ x[2] \in D
        BY <1>1
      <4>2. CASE x[1] + 1 \in 1..N
        <5>1. <<x[1] + 1, x[2]>> \in (1..N) \X D
          BY <4>1, <4>2
        <5>2. G[<<x[1] + 1, x[2]>>] \in D
          BY <1>1, <5>1
        <5> QED BY <4>1, <4>2, <5>2
      <4> QED BY <4>1, <4>2
    <3> HIDE DEF step
    <3> QED BY <3>1
  <2>2. AA \in DD
    BY <1>1
  <2>3. PICK g \in [Nat -> DD] : g[0] = AA /\ \A n \in Nat : g[n + 1] = GG[g[n]]
    <3> HIDE DEF DD, AA, GG, step
    <3>1. \E f \in [Nat -> DD] : f[0] = AA /\ \A n \in Nat : f[n + 1] = GG[f[n]]
      BY <2>1, <2>2, RecursionOverNumbers
    <3> QED BY <3>1
  <2>4. \A n \in Nat : g[n] \in DD /\ g[n + 1] = step(g[n])
    <3> HIDE DEF step
    <3> QED BY <2>3
  <2> DEFINE T == {n \in Nat : g[n][1] = n}
  <2>5. \A n \in Nat : n \in T
    <3>1. 0 \in T
      BY <2>3
    <3>2. ASSUME NEW n \in Nat, n \in T PROVE n + 1 \in T
      <4>1. step(g[n])[1] = g[n][1] + 1
        BY <1>1
      <4>2. g[n + 1] = step(g[n])
        <5> HIDE DEF step
        <5> QED BY <2>4
      <4> HIDE DEF step
      <4>3. g[n + 1][1] = n + 1
        BY <3>2, <4>1, <4>2
      <4> QED BY <4>3
    <3> HIDE DEF T
    <3> QED BY <3>1, <3>2, NumberInduction
  <2> DEFINE f == [n \in 0..N |-> g[n][2]]
  <2>6. f \in [0..N -> D]
    <3>1. \A n \in 0..N : n \in Nat /\ g[n] \in DD
      BY <2>4
    <3> QED BY <3>1
  <2>7. f[0] = A
    BY <1>1, <2>3
  <2>8. ASSUME NEW n \in 1..N PROVE f[n] = G[<<n, f[n - 1]>>]
    <3>1. n - 1 \in Nat /\ (n - 1) + 1 = n /\ n \in 0..N /\ n - 1 \in 0..N
      BY <1>1
    <3>2. g[n - 1][1] = n - 1 /\ g[n] = step(g[n - 1])
      <4> HIDE DEF step
      <4> QED BY <2>4, <2>5, <3>1
    <3>3. g[n][2] = G[<<n, g[n - 1][2]>>]
      BY <3>1, <3>2
    <3> QED BY <3>1, <3>3
  <2> HIDE DEF f
  <2> QED BY <2>6, <2>7, <2>8 DEF StepByStep
<1> QED BY <1>1

\* A growing chain of subsets that stays where it first stops has stopped after as many
\* steps as there are elements.
LEMMA ChainSettles ==
    ASSUME NEW U, IsFiniteSet(U), NEW N \in Nat, Cardinality(U) <= N,
           NEW h \in [Nat -> SUBSET U],
           \A n \in Nat : h[n] \subseteq h[n + 1],
           \A n \in Nat : h[n + 1] = h[n] => h[(n + 1) + 1] = h[n + 1]
    PROVE  h[N + 1] = h[N]
<1> DEFINE T == {n \in Nat : h[n + 1] = h[n] \/ n + 1 <= Cardinality(h[n + 1])}
<1>1. ASSUME NEW n \in Nat
      PROVE  /\ IsFiniteSet(h[n]) /\ Cardinality(h[n]) \in Nat
             /\ Cardinality(h[n]) <= Cardinality(U)
    <2>1. h[n] \subseteq U
        OBVIOUS
    <2> QED BY <2>1, FS_Subset, FS_CardinalityType
<1>2. ASSUME NEW n \in Nat, h[n + 1] # h[n] PROVE Cardinality(h[n]) + 1 <= Cardinality(h[n + 1])
    <2>1. n + 1 \in Nat /\ h[n] \subseteq h[n + 1]
        OBVIOUS
    <2>2. Cardinality(h[n]) <= Cardinality(h[n + 1])
              /\ Cardinality(h[n]) # Cardinality(h[n + 1])
        BY <1>1, <1>2, <2>1, FS_Subset
    <2>3. Cardinality(h[n]) \in Nat /\ Cardinality(h[n + 1]) \in Nat
        BY <1>1, <2>1
    <2> QED BY <2>2, <2>3
<1>3. \A n \in Nat : n \in T
    <2>1. 0 \in T
        <3>1. 0 + 1 \in Nat /\ 0 + 1 = 1
            OBVIOUS
        <3>2. Cardinality(h[0]) \in Nat /\ Cardinality(h[0 + 1]) \in Nat
            BY <1>1, <3>1
        <3> QED BY <1>2, <3>1, <3>2
    <2>2. ASSUME NEW n \in Nat, n \in T PROVE n + 1 \in T
        <3>1. n + 1 \in Nat /\ (n + 1) + 1 \in Nat
            OBVIOUS
        <3>2. CASE h[n + 1] = h[n]
            BY <3>1, <3>2
        <3>3. CASE h[n + 1] # h[n] /\ h[(n + 1) + 1] # h[n + 1]
            <4>1. n + 1 <= Cardinality(h[n + 1])
                BY <2>2, <3>3
            <4>2. Cardinality(h[n + 1]) + 1 <= Cardinality(h[(n + 1) + 1])
                BY <1>2, <3>1, <3>3
            <4>3. Cardinality(h[n + 1]) \in Nat /\ Cardinality(h[(n + 1) + 1]) \in Nat
                BY <1>1, <3>1
            <4> QED BY <3>1, <4>1, <4>2, <4>3
        <3> QED BY <3>1, <3>2, <3>3
    <2> HIDE DEF T
    <2> QED BY <2>1, <2>2, NumberInduction
<1>4. N \in T /\ N + 1 \in Nat
    BY <1>3
<1>5. Cardinality(h[N + 1]) \in Nat /\ Cardinality(h[N + 1]) <= Cardinality(U)
    BY <1>1, <1>4
<1>6. Cardinality(U) \in Nat
    BY FS_CardinalityType
<1> QED BY <1>4, <1>5, <1>6

=============================================================================
