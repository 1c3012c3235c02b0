------------------------ MODULE BudgetMachine_proofs ------------------------
(***************************************************************************)
(* What the reports on the budget say of every run: that the rounds which  *)
(* place the continuations settle, what a call and the way to a block cost *)
(* at least and at most, and how often a loop turns, for every set of      *)
(* programs and any credit.                                                *)
(***************************************************************************)
EXTENDS BudgetMachine, NumberLemmas, FiniteSetTheorems

-----------------------------------------------------------------------------
(* Numbers.                                                                *)

\* A finite set of numbers has a least one, and a greatest.
LEMMA Extremes ==
    \A S \in SUBSET Int : IsFiniteSet(S) /\ S # {} =>
        /\ \E x \in S : \A y \in S : x <= y
        /\ \E x \in S : \A y \in S : x >= y
<1> DEFINE Has(S) == /\ \E x \in S : \A y \in S : x <= y
                     /\ \E x \in S : \A y \in S : x >= y
           T == {n \in Nat : \A S \in SUBSET Int :
                                IsFiniteSet(S) /\ Cardinality(S) = n /\ S # {} => Has(S)}
<1>1. 0 \in T
    <2>1. \A S : IsFiniteSet(S) => (Cardinality(S) = 0 <=> S = {})
        BY FS_EmptySet
    <2> QED BY <2>1
<1>2. ASSUME NEW n \in Nat, n \in T PROVE n + 1 \in T
    <2>1. ASSUME NEW S \in SUBSET Int, IsFiniteSet(S), Cardinality(S) = n + 1, S # {}
          PROVE  Has(S)
        <3>1. PICK z \in S : TRUE
            BY <2>1
        <3>2. IsFiniteSet(S \ {z}) /\ Cardinality(S \ {z}) = Cardinality(S) - 1
            BY <2>1, <3>1, FS_RemoveElement
        <3>3. CASE S \ {z} = {}
            <4>1. \A y \in S : y = z
                BY <3>3
            <4> QED BY <3>1, <4>1
        <3>4. CASE S \ {z} # {}
            <4>1. Cardinality(S \ {z}) = n
                BY <2>1, <3>2
            <4>2. Has(S \ {z})
                <5>1. S \ {z} \in SUBSET Int
                    OBVIOUS
                <5> HIDE DEF Has
                <5> QED BY <1>2, <3>2, <3>4, <4>1, <5>1
            <4>3. PICK u \in S \ {z} : \A y \in S \ {z} : u <= y
                BY <4>2
            <4>4. PICK v \in S \ {z} : \A y \in S \ {z} : v >= y
                BY <4>2
            <4>5. \E x \in S : \A y \in S : x <= y
                <5>1. CASE u <= z
                    BY <4>3, <5>1
                <5>2. CASE z <= u
                    BY <3>1, <4>3, <5>2
                <5> QED BY <3>1, <5>1, <5>2
            <4>6. \E x \in S : \A y \in S : x >= y
                <5>1. CASE v >= z
                    BY <4>4, <5>1
                <5>2. CASE z >= v
                    BY <3>1, <4>4, <5>2
                <5> QED BY <3>1, <5>1, <5>2
            <4> QED BY <4>5, <4>6
        <3> QED BY <3>3, <3>4
    <2> HIDE DEF Has
    <2> QED BY <2>1
<1>3. \A n \in Nat : n \in T
    <2> HIDE DEF T
    <2> QED BY <1>1, <1>2, NumberInduction
<1>4. ASSUME NEW S \in SUBSET Int, IsFiniteSet(S), S # {} PROVE Has(S)
    <2>1. Cardinality(S) \in Nat
        BY <1>4, FS_CardinalityType
    <2> HIDE DEF Has
    <2> QED BY <1>3, <1>4, <2>1
<1> QED BY <1>4

LEMMA MinFacts ==
    ASSUME NEW S \in SUBSET Int, IsFiniteSet(S), S # {}
    PROVE  Min(S) \in S /\ Min(S) \in Int /\ \A y \in S : Min(S) <= y
<1>1. \E x \in S : \A y \in S : x <= y
    BY Extremes
<1>2. Min(S) \in S /\ \A y \in S : Min(S) <= y
    BY <1>1 DEF Min
<1> QED BY <1>2

LEMMA MaxFacts ==
    ASSUME NEW S \in SUBSET Int, IsFiniteSet(S), S # {}
    PROVE  Max(S) \in S /\ Max(S) \in Int /\ \A y \in S : y <= Max(S)
<1>1. \E x \in S : \A y \in S : x >= y
    BY Extremes
<1>2. Max(S) \in S /\ \A y \in S : Max(S) >= y
    BY <1>1 DEF Max
<1> QED BY <1>2

-----------------------------------------------------------------------------
(* The program and its block graph.                                        *)

LEMMA ProgramFacts ==
    ASSUME IsProgram(prog)
    PROVE  /\ All = DOMAIN prog
           /\ Len(prog) \in Nat \ {0}
           /\ 1 \in All
           /\ IsFiniteSet(All)
           /\ Cardinality(All) = Len(prog)
           /\ \A b \in All : /\ prog[b] \in Seq(Op)
                             /\ Len(prog[b]) \in Nat \ {0}
                             /\ b \in Nat
<1>1. prog \in Seq(Seq(Op) \ {<<>>}) /\ prog # <<>>
    BY DEF IsProgram
<1>2. Len(prog) \in Nat /\ DOMAIN prog = 1..Len(prog) /\ Len(prog) # 0
    BY <1>1
<1>3. All = DOMAIN prog
    BY <1>2 DEF All
<1>4. 1 \in All
    BY <1>2 DEF All
<1>5. Cardinality(1..Len(prog)) = Len(prog) /\ IsFiniteSet(1..Len(prog))
    <2>1. 1 \in Int /\ Len(prog) \in Int /\ ~(1 > Len(prog)) /\ (Len(prog) - 1) + 1 = Len(prog)
        BY <1>2
    <2> QED BY <2>1, FS_Interval
<1>6. ASSUME NEW b \in All PROVE prog[b] \in Seq(Op) /\ Len(prog[b]) \in Nat \ {0} /\ b \in Nat
    <2>1. prog[b] \in Seq(Op) /\ prog[b] # <<>>
        BY <1>1, <1>3
    <2>2. Len(prog[b]) \in Nat /\ Len(prog[b]) # 0
        BY <2>1
    <2> QED BY <1>2, <1>3, <2>1, <2>2
<1> QED BY <1>2, <1>3, <1>4, <1>5, <1>6 DEF All

\* Where the last operation of a block leads.
LEMMA FlowFacts ==
    ASSUME IsProgram(prog), NEW b \in All
    PROVE  /\ Last1(b) \in Op
           /\ End(b) \in Terminators \union {"next"}
           /\ Following(b) = (IF b = Len(prog) THEN {} ELSE {b + 1})
           /\ Following(b) \subseteq All
           /\ Flow(b) \subseteq All
           /\ End(b) \in {"b", "bnz", "callsub"} => Last1(b).to \in All
<1>1. prog[b] \in Seq(Op) /\ Len(prog[b]) \in Nat \ {0} /\ All = 1..Len(prog) /\ Len(prog) \in Nat
    BY ProgramFacts DEF All
<1>2. Last1(b) = prog[b][Len(prog[b])] /\ Len(prog[b]) \in DOMAIN prog[b]
    BY <1>1 DEF Last1, Last
<1>3. Last1(b) \in Op
    BY <1>1, <1>2
<1>4. End(b) \in Terminators \union {"next"}
    BY DEF End
<1>5. End(b) \in {"b", "bnz", "callsub"} => Last1(b).to \in All
    <2>1. ASSUME End(b) \in {"b", "bnz", "callsub"} PROVE Last1(b).op \in {"b", "bnz", "callsub"}
        BY <2>1 DEF End
    <2>2. b \in DOMAIN prog /\ DOMAIN prog = All
        BY ProgramFacts
    <2>3. Last1(b).op \in {"b", "bnz", "callsub"} => Last1(b).to \in DOMAIN prog
        BY <1>2, <2>2 DEF IsProgram
    <2> QED BY <2>1, <2>2, <2>3
<1>6. Following(b) = (IF b = Len(prog) THEN {} ELSE {b + 1})
    BY <1>1 DEF Following
<1>7. Following(b) \subseteq All
    BY DEF Following
<1>8. Flow(b) \subseteq All
    BY <1>5, <1>7 DEF Flow
<1> QED BY <1>3, <1>4, <1>5, <1>6, <1>7, <1>8

\* What a function gives on a finite set is finite.
LEMMA ImageIsFinite ==
    \A S, f : IsFiniteSet(S) => IsFiniteSet({f[x] : x \in S})
<1> SUFFICES ASSUME NEW S, NEW f, IsFiniteSet(S) PROVE IsFiniteSet({f[x] : x \in S})
    OBVIOUS
<1> DEFINE T == {f[x] : x \in S}
           g == [x \in S |-> f[x]]
<1>1. g \in [S -> T]
    OBVIOUS
<1>2. \A t \in T : \E x \in S : g[x] = t
    OBVIOUS
<1> HIDE DEF g, T
<1>3. g \in Surjection(S, T)
    BY <1>1, <1>2 DEF Surjection
<1>4. IsFiniteSet(T)
    BY <1>3, FS_Surjection
<1> QED BY <1>4 DEF T

-----------------------------------------------------------------------------
(* The block graph: what is reached in any number of steps is the least    *)
(* set closed under them, and as many steps as there are blocks are enough. *)

\* What is closed among the blocks U.
LEMMA ClosureIn ==
    ASSUME IsProgram(prog), NEW U \in SUBSET All,
           NEW S \in SUBSET U, NEW next \in [U -> SUBSET U]
    PROVE  /\ Closure(S, next) \subseteq U
           /\ S \subseteq Closure(S, next)
           /\ \A b \in Closure(S, next) : next[b] \subseteq Closure(S, next)
           /\ \A K : /\ S \subseteq K
                     /\ \A b \in K \cap U : next[b] \subseteq K
                     => Closure(S, next) \subseteq K
<1> DEFINE D == SUBSET U
           step(R) == R \union UNION {next[b] : b \in R}
           G == [R \in D |-> step(R)]
           F(f) == [n \in Nat |-> IF n = 0 THEN S ELSE step(f[n - 1])]
           reach == CHOOSE f : f = F(f)
           N == Len(prog)
<1>1. PICK f \in [Nat -> D] : f[0] = S /\ \A n \in Nat : f[n + 1] = G[f[n]]
    <2>1. S \in D /\ G \in [D -> D]
        OBVIOUS
    <2> HIDE DEF D, G
    <2>2. \E f \in [Nat -> D] : Iterates(f, S, G)
        BY <2>1, IterationExists
    <2> QED BY <2>2 DEF Iterates
<1>2. f = F(f)
    <2>1. ASSUME NEW n \in Nat PROVE f[n] = F(f)[n]
        <3>1. CASE n = 0
            BY <1>1, <3>1
        <3>2. CASE n # 0
            <4>1. n - 1 \in Nat /\ (n - 1) + 1 = n
                BY <3>2
            <4>2. f[n] = G[f[n - 1]] /\ f[n - 1] \in D
                BY <1>1, <4>1
            <4> HIDE DEF step
            <4> QED BY <3>2, <4>2
        <3> QED BY <3>1, <3>2
    <2> HIDE DEF step
    <2> QED BY <1>1, <2>1
<1>3. reach = F(reach)
    <2> HIDE DEF F
    <2> QED BY <1>2
<1>4. Closure(S, next) = reach[N]
    BY DEF Closure
<1> HIDE DEF reach
<1>5. reach[0] = S /\ \A n \in Nat : reach[n + 1] = step(reach[n])
    <2>1. \A n \in Nat : n + 1 \in Nat /\ n + 1 # 0 /\ (n + 1) - 1 = n
        OBVIOUS
    <2> HIDE DEF step
    <2> QED BY <1>3, <2>1
<1> DEFINE T == {n \in Nat : reach[n] \subseteq U}
<1>6. \A n \in Nat : n \in T
    <2>1. 0 \in T
        BY <1>5
    <2>2. ASSUME NEW n \in Nat, n \in T PROVE n + 1 \in T
        <3>1. step(reach[n]) \subseteq U
            BY <2>2
        <3>2. reach[n + 1] = step(reach[n]) /\ n + 1 \in Nat
            <4> HIDE DEF step
            <4> QED BY <1>5
        <3>3. reach[n + 1] \subseteq U
            <4> HIDE DEF step
            <4> QED BY <3>1, <3>2
        <3> QED BY <3>2, <3>3
    <2> HIDE DEF T
    <2> QED BY <2>1, <2>2, NumberInduction
<1>7. reach \in [Nat -> SUBSET U]
    <2>1. \A n \in Nat : reach[n] \in SUBSET U
        BY <1>6
    <2>2. reach = [n \in Nat |-> reach[n]]
        <3> DEFINE val(n) == IF n = 0 THEN S ELSE step(reach[n - 1])
        <3>1. reach = [n \in Nat |-> val(n)]
            BY <1>3
        <3> HIDE DEF val
        <3> QED BY <3>1
    <2> QED BY <2>1, <2>2
<1>8. reach[N + 1] = reach[N]
    <2>1. \A n \in Nat : reach[n] \subseteq reach[n + 1]
        BY <1>5
    <2>2. \A n \in Nat : reach[n + 1] = reach[n] => reach[(n + 1) + 1] = reach[n + 1]
        <3> HIDE DEF step
        <3> QED BY <1>5
    <2>3. N \in Nat /\ IsFiniteSet(U) /\ Cardinality(U) <= N
        <3>1. N \in Nat /\ IsFiniteSet(All) /\ Cardinality(All) = N
            BY ProgramFacts
        <3> HIDE DEF N
        <3>2. IsFiniteSet(U) /\ Cardinality(U) <= Cardinality(All)
            BY <3>1, FS_Subset
        <3> QED BY <3>1, <3>2
    <2> HIDE DEF N
    <2> QED BY <1>7, <2>1, <2>2, <2>3, ChainSettles
<1>9. N \in Nat
    BY ProgramFacts
<1>10. \A n \in Nat : S \subseteq reach[n]
    <2> DEFINE V == {n \in Nat : S \subseteq reach[n]}
    <2>1. 0 \in V
        BY <1>5
    <2>2. ASSUME NEW n \in Nat, n \in V PROVE n + 1 \in V
        BY <1>5, <2>2
    <2>3. \A n \in Nat : n \in V
        <3> HIDE DEF V
        <3> QED BY <2>1, <2>2, NumberInduction
    <2> QED BY <2>3
<1>11. ASSUME NEW K, S \subseteq K, \A b \in K \cap U : next[b] \subseteq K
       PROVE  reach[N] \subseteq K
    <2> DEFINE V == {n \in Nat : reach[n] \subseteq K}
    <2>1. 0 \in V
        BY <1>5, <1>11
    <2>2. ASSUME NEW n \in Nat, n \in V PROVE n + 1 \in V
        <3>1. reach[n] \subseteq K \cap U
            BY <1>7, <2>2
        <3> QED BY <1>5, <1>11, <3>1
    <2>3. \A n \in Nat : n \in V
        <3> HIDE DEF V
        <3> QED BY <2>1, <2>2, NumberInduction
    <2> QED BY <1>9, <2>3
<1>12. \A b \in reach[N] : next[b] \subseteq reach[N]
    <2>1. reach[N] = reach[N] \union UNION {next[b] : b \in reach[N]}
        BY <1>5, <1>8, <1>9
    <2> QED BY <2>1
<1> QED
    <2> HIDE DEF N
    <2> QED BY <1>4, <1>6, <1>9, <1>10, <1>11, <1>12

LEMMA ClosureFacts ==
    ASSUME IsProgram(prog), NEW S \in SUBSET All, NEW next \in [All -> SUBSET All]
    PROVE  /\ Closure(S, next) \subseteq All
           /\ S \subseteq Closure(S, next)
           /\ \A b \in Closure(S, next) : next[b] \subseteq Closure(S, next)
           /\ \A K : /\ S \subseteq K
                     /\ \A b \in K \cap All : next[b] \subseteq K
                     => Closure(S, next) \subseteq K
BY ClosureIn

\* What control reaches from the entry of the routine that c calls.
Ends(c) == Closure({Last1(c).to}, [b \in All |-> Flow(b)])

LEMMA EndsFacts ==
    ASSUME IsProgram(prog), NEW c \in All, End(c) = "callsub"
    PROVE  /\ Last1(c).to \in Ends(c)
           /\ Ends(c) \subseteq All
           /\ \A b \in Ends(c) : Flow(b) \subseteq Ends(c)
           /\ \A K : /\ Last1(c).to \in K
                     /\ \A b \in K \cap All : Flow(b) \subseteq K
                     => Ends(c) \subseteq K
<1> DEFINE next == [b \in All |-> Flow(b)]
           S == {Last1(c).to}
<1>1. S \in SUBSET All /\ next \in [All -> SUBSET All] /\ \A b \in All : next[b] = Flow(b)
    BY FlowFacts
<1>2. Ends(c) = Closure(S, next)
    BY DEF Ends
<1> HIDE DEF next
<1>3. /\ Ends(c) \subseteq All
      /\ S \subseteq Ends(c)
      /\ \A b \in Ends(c) : next[b] \subseteq Ends(c)
      /\ \A K : /\ S \subseteq K
                /\ \A b \in K \cap All : next[b] \subseteq K
                => Ends(c) \subseteq K
    <2> HIDE DEF S
    <2> QED BY <1>1, <1>2, ClosureFacts
<1>4. \A b \in Ends(c) : Flow(b) \subseteq Ends(c)
    BY <1>1, <1>3
<1>5. ASSUME NEW K, Last1(c).to \in K, \A b \in K \cap All : Flow(b) \subseteq K
      PROVE  Ends(c) \subseteq K
    <2>1. S \subseteq K /\ \A b \in K \cap All : next[b] \subseteq K
        BY <1>1, <1>5
    <2> QED BY <1>3, <2>1
<1> QED BY <1>3, <1>4, <1>5

\* Where the block graph leads from b when the blocks live are reached.
CallsOf(live)  == {c \in live : End(c) = "callsub"}
Leads(b, live) ==
    CASE End(b) = "callsub" -> {Last1(b).to}
      [] End(b) = "retsub"  -> UNION {Following(c) : c \in {k \in CallsOf(live) : b \in Ends(k)}}
      [] OTHER              -> Flow(b)

LEMMA LeadsFacts ==
    ASSUME IsProgram(prog), NEW b \in All, NEW more \in SUBSET All
    PROVE  /\ Leads(b, more) \subseteq All
           /\ \A live \in SUBSET more : Leads(b, live) \subseteq Leads(b, more)
<1>1. Flow(b) \subseteq All /\ (End(b) = "callsub" => Last1(b).to \in All)
    BY FlowFacts
<1>2. \A c \in more : Following(c) \subseteq All
    BY FlowFacts
<1>3. Leads(b, more) \subseteq All
    BY <1>1, <1>2 DEF Leads, CallsOf
<1>4. \A live \in SUBSET more : Leads(b, live) \subseteq Leads(b, more)
    BY DEF Leads, CallsOf
<1> QED BY <1>3, <1>4

ReachedFrom1(live) == Closure({1}, [b \in All |-> Leads(b, live)])

LEMMA ReachedFacts ==
    ASSUME IsProgram(prog), NEW live \in SUBSET All
    PROVE  /\ ReachedFrom1(live) \subseteq All
           /\ 1 \in ReachedFrom1(live)
           /\ \A b \in ReachedFrom1(live) : Leads(b, live) \subseteq ReachedFrom1(live)
           /\ \A K : /\ 1 \in K
                     /\ \A b \in K \cap All : Leads(b, live) \subseteq K
                     => ReachedFrom1(live) \subseteq K
<1> DEFINE next == [b \in All |-> Leads(b, live)]
<1>1. next \in [All -> SUBSET All]
    BY LeadsFacts
<1>2. {1} \in SUBSET All
    BY ProgramFacts
<1>3. ReachedFrom1(live) = Closure({1}, next)
    BY DEF ReachedFrom1
<1>4. \A b \in All : next[b] = Leads(b, live)
    OBVIOUS
<1> HIDE DEF next
<1>5. /\ Closure({1}, next) \subseteq All
      /\ {1} \subseteq Closure({1}, next)
      /\ \A b \in Closure({1}, next) : next[b] \subseteq Closure({1}, next)
      /\ \A K : /\ {1} \subseteq K
                /\ \A b \in K \cap All : next[b] \subseteq K
                => Closure({1}, next) \subseteq K
    BY <1>1, <1>2, ClosureFacts
<1>6. \A b \in ReachedFrom1(live) : Leads(b, live) \subseteq ReachedFrom1(live)
    BY <1>3, <1>4, <1>5
<1>7. ASSUME NEW K, 1 \in K, \A b \in K \cap All : Leads(b, live) \subseteq K
      PROVE  ReachedFrom1(live) \subseteq K
    <2>1. {1} \subseteq K /\ \A b \in K \cap All : next[b] \subseteq K
        BY <1>4, <1>7
    <2> QED BY <1>3, <1>5, <2>1
<1> QED BY <1>3, <1>5, <1>6, <1>7

\* The blocks are those reached when only they return, and no fewer.
LEMMA BlockGraphFacts ==
    ASSUME IsProgram(prog)
    PROVE  \E L \in SUBSET All :
               /\ DOMAIN BlockGraph = L
               /\ \A b \in L : BlockGraph[b] = Leads(b, L)
               /\ L = ReachedFrom1(L)
<1> DEFINE D == SUBSET All
           step(live) == ReachedFrom1(live)
           G == [live \in D |-> step(live)]
           F(f) == [n \in Nat |-> IF n = 0 THEN All ELSE step(f[n - 1])]
           gated == CHOOSE f : f = F(f)
           N == Len(prog)
<1>1. \A live \in D : step(live) \in D
    BY ReachedFacts
<1>2. PICK f \in [Nat -> D] : f[0] = All /\ \A n \in Nat : f[n + 1] = G[f[n]]
    <2>1. All \in D /\ G \in [D -> D]
        <3> HIDE DEF step
        <3> QED BY <1>1
    <2> HIDE DEF D, G
    <2>2. \E f \in [Nat -> D] : Iterates(f, All, G)
        BY <2>1, IterationExists
    <2> QED BY <2>2 DEF Iterates
<1>3. f = F(f)
    <2>1. ASSUME NEW n \in Nat PROVE f[n] = F(f)[n]
        <3>1. CASE n = 0
            BY <1>2, <3>1
        <3>2. CASE n # 0
            <4>1. n - 1 \in Nat /\ (n - 1) + 1 = n
                BY <3>2
            <4>2. f[n] = G[f[n - 1]] /\ f[n - 1] \in D
                BY <1>2, <4>1
            <4> HIDE DEF step
            <4> QED BY <3>2, <4>2
        <3> QED BY <3>1, <3>2
    <2> HIDE DEF step
    <2> QED BY <1>2, <2>1
<1>4. gated = F(gated)
    <2> HIDE DEF F
    <2> QED BY <1>3
<1>5. BlockGraph = [b \in gated[N] |-> Leads(b, gated[N])]
    BY DEF BlockGraph, ReachedFrom1, Leads, CallsOf, Ends
<1> HIDE DEF gated
<1>6. gated[0] = All /\ \A n \in Nat : gated[n + 1] = step(gated[n])
    <2>1. \A n \in Nat : n + 1 \in Nat /\ n + 1 # 0 /\ (n + 1) - 1 = n
        OBVIOUS
    <2> HIDE DEF step
    <2> QED BY <1>4, <2>1
<1>7. ASSUME NEW more \in D, NEW live \in SUBSET more PROVE step(live) \subseteq step(more)
    <2>1. \A b \in step(more) \cap All : Leads(b, live) \subseteq step(more)
        BY ReachedFacts, LeadsFacts
    <2>2. 1 \in step(more)
        BY ReachedFacts
    <2>3. live \in SUBSET All
        OBVIOUS
    <2>4. \A K : /\ 1 \in K
                 /\ \A b \in K \cap All : Leads(b, live) \subseteq K
                 => ReachedFrom1(live) \subseteq K
        BY <2>3, ReachedFacts
    <2>5. ReachedFrom1(live) \subseteq step(more)
        <3> HIDE DEF step
        <3> QED BY <2>1, <2>2, <2>4
    <2> QED BY <2>5
<1> HIDE DEF step
<1> DEFINE T == {n \in Nat : gated[n] \in D /\ gated[n + 1] \subseteq gated[n]}
<1>8. \A n \in Nat : n \in T
    <2>1. 0 \in T
        <3>1. gated[0] \in D /\ gated[0 + 1] = step(gated[0])
            BY <1>6
        <3> QED BY <1>1, <1>6, <3>1
    <2>2. ASSUME NEW n \in Nat, n \in T PROVE n + 1 \in T
        <3>1. n + 1 \in Nat /\ gated[n] \in D /\ gated[n + 1] \in SUBSET gated[n]
            BY <2>2
        <3>2. gated[n + 1] \in D
            BY <3>1
        <3>3. step(gated[n + 1]) \subseteq step(gated[n])
            BY <1>7, <3>1
        <3>4. gated[(n + 1) + 1] = step(gated[n + 1]) /\ gated[n + 1] = step(gated[n])
            BY <1>6, <3>1
        <3> QED BY <3>1, <3>2, <3>3, <3>4
    <2> HIDE DEF T
    <2> QED BY <2>1, <2>2, NumberInduction
<1> DEFINE out == [n \in Nat |-> All \ gated[n]]
<1>9. N \in Nat /\ N + 1 \in Nat
    BY ProgramFacts
<1>10. out[N + 1] = out[N]
    <2>1. out \in [Nat -> SUBSET All]
        OBVIOUS
    <2>2. \A n \in Nat : out[n] \subseteq out[n + 1]
        BY <1>8
    <2>3. ASSUME NEW n \in Nat, out[n + 1] = out[n] PROVE out[(n + 1) + 1] = out[n + 1]
        <3>1. n + 1 \in Nat /\ (n + 1) + 1 \in Nat
            OBVIOUS
        <3>2. gated[n + 1] = gated[n]
            BY <1>8, <2>3, <3>1
        <3>3. gated[(n + 1) + 1] = gated[n + 1]
            BY <1>6, <3>1, <3>2
        <3> QED BY <3>1, <3>3
    <2>4. N \in Nat /\ IsFiniteSet(All) /\ Cardinality(All) <= N
        <3>1. N \in Nat /\ IsFiniteSet(All) /\ Cardinality(All) = N
            BY ProgramFacts
        <3> HIDE DEF N
        <3> QED BY <3>1
    <2> HIDE DEF out, N
    <2> QED BY <2>1, <2>2, <2>3, <2>4, ChainSettles
<1>11. gated[N + 1] = gated[N]
    <2>1. gated[N] \in D /\ gated[N + 1] \in D
        <3>1. N \in T /\ N + 1 \in T
            BY <1>8, <1>9
        <3> QED BY <3>1
    <2>2. out[N] = All \ gated[N] /\ out[N + 1] = All \ gated[N + 1]
        BY <1>9
    <2> HIDE DEF out, N
    <2> QED BY <1>10, <2>1, <2>2
<1>12. gated[N] \in SUBSET All /\ gated[N] = step(gated[N])
    BY <1>6, <1>8, <1>9, <1>11
<1> DEFINE L == gated[N]
<1>13. DOMAIN BlockGraph = L /\ \A b \in L : BlockGraph[b] = Leads(b, L)
    BY <1>5
<1>14. L = ReachedFrom1(L)
    BY <1>12 DEF step
<1> QED BY <1>12, <1>13, <1>14

-----------------------------------------------------------------------------
(* The program under analysis.                                             *)

Graph == prog \in Programs /\ succ = BlockGraph

LEMMA GraphFacts ==
    ASSUME Graph
    PROVE  /\ IsProgram(prog)
           /\ Blocks \subseteq All
           /\ 1 \in Blocks
           /\ IsFiniteSet(Blocks)
           /\ Cardinality(Blocks) \in Nat
           /\ succ \in [Blocks -> SUBSET Blocks]
           /\ \A b \in Blocks : succ[b] = Leads(b, Blocks)
<1>1. IsProgram(prog)
    BY ProgramsArePrograms DEF Graph
<1>2. PICK L \in SUBSET All :
          /\ DOMAIN BlockGraph = L
          /\ \A b \in L : BlockGraph[b] = Leads(b, L)
          /\ L = ReachedFrom1(L)
    BY <1>1, BlockGraphFacts
<1>3. Blocks = L /\ \A b \in Blocks : succ[b] = Leads(b, Blocks)
    BY <1>2 DEF Graph, Blocks
<1>4. 1 \in Blocks /\ \A b \in Blocks : Leads(b, Blocks) \subseteq Blocks
    BY <1>1, <1>2, <1>3, ReachedFacts
<1>5. IsFiniteSet(Blocks) /\ Cardinality(Blocks) \in Nat
    <2>1. IsFiniteSet(All) /\ Blocks \subseteq All
        BY <1>1, <1>2, <1>3, ProgramFacts
    <2> QED BY <2>1, FS_Subset, FS_CardinalityType
<1>6. succ = [b \in Blocks |-> succ[b]]
    <2>1. succ = BlockGraph
        BY DEF Graph
    <2>2. BlockGraph = [b \in DOMAIN BlockGraph |-> BlockGraph[b]]
        BY DEF BlockGraph
    <2> QED BY <2>1, <2>2 DEF Blocks
<1>7. succ \in [Blocks -> SUBSET Blocks]
    BY <1>3, <1>4, <1>6
<1> QED BY <1>1, <1>2, <1>3, <1>4, <1>5, <1>7

LEMMA FirstBlock == Graph => Earliest(Blocks) = 1
<1> SUFFICES ASSUME Graph PROVE Earliest(Blocks) = 1
    OBVIOUS
<1>1. 1 \in Blocks /\ Blocks \subseteq Nat /\ \A b \in Blocks : 1 <= b
    BY GraphFacts, ProgramFacts DEF All
<1>2. \A x \in Blocks : (\A c \in Blocks : x <= c) <=> x = 1
    BY <1>1
<1> QED BY <1>1, <1>2 DEF Earliest

LEMMA SuccFacts ==
    ASSUME Graph, NEW b \in Blocks
    PROVE  /\ End(b) \notin {"callsub", "retsub"} => succ[b] = Flow(b)
           /\ b \in Callsubs => /\ End(b) = "callsub"
                                /\ succ[b] = {Last1(b).to}
                                /\ CallTarget(b) = Last1(b).to
                                /\ CallTarget(b) \in Entries
           /\ b \in Retsubs => /\ \A c \in Callsubs : b \in Ends(c) => Following(c) \subseteq succ[b]
                               /\ \A t \in succ[b] : \E c \in Callsubs : b \in Ends(c) /\ t \in Following(c)
<1>1. succ[b] = Leads(b, Blocks)
    BY GraphFacts
<1>2. CallsOf(Blocks) = Callsubs
    BY DEF CallsOf, Callsubs
<1>3. End(b) \notin {"callsub", "retsub"} => succ[b] = Flow(b)
    BY <1>1 DEF Leads
<1>4. ASSUME b \in Callsubs
      PROVE  /\ End(b) = "callsub"
             /\ succ[b] = {Last1(b).to}
             /\ CallTarget(b) = Last1(b).to
             /\ CallTarget(b) \in Entries
    <2>1. End(b) = "callsub"
        BY <1>4 DEF Callsubs
    <2>2. succ[b] = {Last1(b).to}
        BY <1>1, <2>1 DEF Leads
    <2> QED BY <1>4, <2>1, <2>2 DEF CallTarget, Entries
<1>5. ASSUME b \in Retsubs
      PROVE  /\ \A c \in Callsubs : b \in Ends(c) => Following(c) \subseteq succ[b]
             /\ \A t \in succ[b] : \E c \in Callsubs : b \in Ends(c) /\ t \in Following(c)
    <2>1. End(b) = "retsub"
        BY <1>5 DEF Retsubs
    <2>2. succ[b] = UNION {Following(c) : c \in {k \in Callsubs : b \in Ends(k)}}
        BY <1>1, <1>2, <2>1 DEF Leads
    <2> QED BY <2>2
<1> QED BY <1>3, <1>4, <1>5

LEMMA EntriesAreBlocks == Graph => Entries \subseteq Blocks /\ Callsubs \subseteq Blocks /\ Retsubs \subseteq Blocks
<1> SUFFICES ASSUME Graph PROVE Entries \subseteq Blocks /\ Callsubs \subseteq Blocks /\ Retsubs \subseteq Blocks
    OBVIOUS
<1>1. Callsubs \subseteq Blocks /\ Retsubs \subseteq Blocks
    BY DEF Callsubs, Retsubs
<1>2. \A c \in Callsubs : CallTarget(c) \in Blocks
    <2> TAKE c \in Callsubs
    <2>1. c \in Blocks
        BY <1>1
    <2>2. succ[c] \subseteq Blocks /\ CallTarget(c) \in succ[c]
        BY <2>1, GraphFacts, SuccFacts
    <2> QED BY <2>2
<1> QED BY <1>1, <1>2 DEF Entries

-----------------------------------------------------------------------------
(* Inside a routine.                                                       *)

LEMMA OnwardFacts ==
    ASSUME Graph, NEW b \in All
    PROVE  /\ Onward(b) \subseteq Flow(b)
           /\ Onward(b) \subseteq All
           /\ b \in Callsubs => Onward(b) = IF Retsubs \cap Ends(b) = {} THEN {} ELSE Following(b)
           /\ b \in Blocks \ Callsubs => Onward(b) = Flow(b)
           /\ b \in Retsubs => Onward(b) = {}
           /\ b \in Blocks \ (Callsubs \union Retsubs) => Onward(b) = succ[b]
           /\ b \in Blocks => Onward(b) \subseteq Blocks
<1>1. IsProgram(prog) /\ Blocks \subseteq All
    BY GraphFacts
<1>2. Onward(b) \subseteq Flow(b) /\ (End(b) # "callsub" => Onward(b) = Flow(b))
    BY DEF Onward, Flow
<1>3. Flow(b) \subseteq All
    BY <1>1, FlowFacts
<1>4. ASSUME b \in Callsubs
      PROVE  Onward(b) = IF Retsubs \cap Ends(b) = {} THEN {} ELSE Following(b)
    <2>1. Onward(b) = Following(b) \cap UNION {succ[r] : r \in Retsubs \cap Ends(b)}
        BY <1>4 DEF Callsubs, Onward, Ends
    <2>2. \A r \in Retsubs \cap Ends(b) : Following(b) \subseteq succ[r]
        BY <1>4, SuccFacts, EntriesAreBlocks
    <2> QED BY <2>1, <2>2
<1>5. b \in Blocks \ Callsubs => Onward(b) = Flow(b)
    BY <1>2 DEF Callsubs
<1>6. b \in Retsubs => Onward(b) = {}
    BY DEF Retsubs, Onward, Flow
<1>7. b \in Blocks \ (Callsubs \union Retsubs) => Onward(b) = succ[b]
    BY <1>5, SuccFacts DEF Callsubs, Retsubs
<1>8. ASSUME b \in Blocks PROVE Onward(b) \subseteq Blocks
    <2>1. CASE b \in Callsubs
        <3>1. Onward(b) = Following(b) \cap UNION {succ[r] : r \in Retsubs \cap Ends(b)}
            BY <2>1 DEF Callsubs, Onward, Ends
        <3>2. \A r \in Retsubs : succ[r] \subseteq Blocks
            BY GraphFacts, EntriesAreBlocks
        <3> QED BY <3>1, <3>2
    <2>2. CASE b \in Retsubs
        BY <1>6, <2>2
    <2>3. CASE b \notin Callsubs \union Retsubs
        BY <1>7, <1>8, <2>3, GraphFacts
    <2> QED BY <2>1, <2>2, <2>3
<1> QED BY <1>2, <1>3, <1>4, <1>5, <1>6, <1>7, <1>8

LEMMA ExtentFacts ==
    ASSUME Graph, NEW e \in Blocks
    PROVE  /\ Extent(e) \subseteq Blocks
           /\ e \in Extent(e)
           /\ \A b \in Extent(e) : Onward(b) \subseteq Extent(e)
           /\ \A K : /\ e \in K
                     /\ \A b \in K \cap Blocks : Onward(b) \subseteq K
                     => Extent(e) \subseteq K
<1> DEFINE next == [b \in All |-> Onward(b)]
           S == {e}
<1>1. IsProgram(prog) /\ Blocks \subseteq All
    BY GraphFacts
<1>2. S \in SUBSET All /\ next \in [All -> SUBSET All] /\ \A b \in All : next[b] = Onward(b)
    BY <1>1, OnwardFacts
<1>3. Extent(e) = Closure(S, next)
    BY DEF Extent
<1> HIDE DEF next
<1>4. /\ Extent(e) \subseteq All
      /\ S \subseteq Extent(e)
      /\ \A b \in Extent(e) : next[b] \subseteq Extent(e)
      /\ \A K : /\ S \subseteq K
                /\ \A b \in K \cap All : next[b] \subseteq K
                => Extent(e) \subseteq K
    <2> HIDE DEF S
    <2> QED BY <1>1, <1>2, <1>3, ClosureFacts
<1>5. Extent(e) \subseteq Blocks
    <2>1. \A b \in Blocks \cap All : next[b] \subseteq Blocks
        BY <1>2, OnwardFacts
    <2> QED BY <1>4, <2>1
<1>6. \A b \in Extent(e) : Onward(b) \subseteq Extent(e)
    BY <1>2, <1>4
<1>7. ASSUME NEW K, e \in K, \A b \in K \cap Blocks : Onward(b) \subseteq K
      PROVE  Extent(e) \subseteq K
    <2>1. S \subseteq K \cap Blocks
        BY <1>7
    <2>2. \A b \in (K \cap Blocks) \cap All : next[b] \subseteq K \cap Blocks
        BY <1>2, <1>7, OnwardFacts
    <2>3. Extent(e) \subseteq K \cap Blocks
        BY <1>4, <2>1, <2>2
    <2> QED BY <2>3
<1> QED BY <1>4, <1>5, <1>6, <1>7

\* A routine goes on after each of its calls but those that never return, and from
\* those nothing is reached that returns.
LEMMA StuckFacts ==
    ASSUME Graph, Settled, NEW c \in Callsubs
    PROVE  /\ Extent(CallTarget(c)) \subseteq Ends(c)
           /\ c \in Stuck => /\ Onward(c) = {}
                             /\ Ends(c) \cap Retsubs = {}
           /\ c \notin Stuck => /\ Onward(c) = Following(c)
                                /\ \E r \in Retsubs : r \in Extent(CallTarget(c)) /\ r \in Ends(c)
<1> DEFINE e == CallTarget(c)
<1>1. c \in Blocks /\ e \in Blocks /\ e = Last1(c).to /\ End(c) = "callsub" /\ c \in All
    BY EntriesAreBlocks, SuccFacts, GraphFacts
<1>2. IsProgram(prog) /\ Blocks \subseteq All
    BY GraphFacts
<1>3. Extent(e) \subseteq Ends(c)
    <2>1. e \in Ends(c) /\ \A b \in Ends(c) \cap Blocks : Onward(b) \subseteq Ends(c)
        BY <1>1, <1>2, EndsFacts, OnwardFacts
    <2> QED BY <1>1, <2>1, ExtentFacts
<1>4. ASSUME NEW k \in Callsubs \ Stuck
      PROVE  Onward(k) = Following(k) /\ \E r \in Retsubs : r \in Extent(CallTarget(k)) /\ r \in Ends(k)
    <2>1. k \in Blocks /\ CallTarget(k) \in Blocks /\ CallTarget(k) = Last1(k).to /\ End(k) = "callsub" /\ k \in All
        BY EntriesAreBlocks, SuccFacts, GraphFacts
    <2>2. Extent(CallTarget(k)) \subseteq Ends(k)
        <3>1. CallTarget(k) \in Ends(k) /\ \A b \in Ends(k) \cap Blocks : Onward(b) \subseteq Ends(k)
            BY <2>1, <1>2, EndsFacts, OnwardFacts
        <3> QED BY <2>1, <3>1, ExtentFacts
    <2>3. PICK r \in Retsubs : r \in Extent(CallTarget(k))
        BY DEF Stuck
    <2>4. Onward(k) = Following(k)
        BY <2>1, <2>2, <2>3, OnwardFacts
    <2> QED BY <2>2, <2>3, <2>4
<1>5. ASSUME c \in Stuck PROVE Onward(c) = {} /\ Ends(c) \cap Retsubs = {}
    <2>1. Extent(e) \cap Retsubs = {} /\ Extent(e) \cap Stuck = {}
        BY <1>5 DEF Stuck, Settled
    <2>2. \A b \in Extent(e) : Flow(b) \subseteq Extent(e)
        <3> TAKE b \in Extent(e)
        <3>1. b \in Blocks /\ b \in All /\ Onward(b) \subseteq Extent(e)
            BY <1>1, <1>2, ExtentFacts
        <3>2. CASE b \in Callsubs
            <4>1. Onward(b) = Following(b) /\ End(b) = "callsub"
                BY <1>4, <2>1, <3>1, <3>2 DEF Callsubs
            <4> QED BY <3>1, <4>1 DEF Flow
        <3>3. CASE b \notin Callsubs
            BY <3>1, <3>3, OnwardFacts
        <3> QED BY <3>2, <3>3
    <2>3. e \in Extent(e)
        BY <1>1, ExtentFacts
    <2>4. Ends(c) \subseteq Extent(e)
        BY <1>1, <1>2, <2>2, <2>3, EndsFacts
    <2>5. Ends(c) \cap Retsubs = {}
        BY <2>1, <2>4
    <2> QED BY <1>1, <2>5, OnwardFacts
<1> QED BY <1>3, <1>4, <1>5

-----------------------------------------------------------------------------
(* Where calls come back to.                                               *)

LEMMA EarliestFacts ==
    ASSUME Graph, NEW S \in SUBSET Blocks
    PROVE  /\ S = {} => Earliest(S) = 0
           /\ S # {} => Earliest(S) \in S /\ \A b \in S : Earliest(S) <= b
           /\ Earliest(S) \in Blocks \union {0}
<1>1. S \subseteq Nat
    BY GraphFacts, ProgramFacts
<1>2. S # {} => \E b \in S : \A c \in S : b <= c
    BY <1>1, LeastNumber
<1> QED BY <1>2 DEF Earliest

\* Where the walk of a body goes from b.
Inward(b, back, through) ==
    CASE End(b) = "retsub"  -> {}
      [] End(b) = "callsub" -> IF through THEN {back[b]} \ {0} ELSE {}
      [] OTHER              -> succ[b]

LEMMA BodyFacts ==
    ASSUME Graph, NEW e \in Entries, NEW back \in [Callsubs -> Blocks \union {0}],
           NEW through \in BOOLEAN
    PROVE  /\ Body(e, back, through) \subseteq Blocks
           /\ e \in Body(e, back, through)
           /\ \A b \in Body(e, back, through) :
                  Inward(b, back, through) \ (Entries \ {e}) \subseteq Body(e, back, through)
           /\ \A K : /\ e \in K
                     /\ \A b \in K \cap Blocks : Inward(b, back, through) \ (Entries \ {e}) \subseteq K
                     => Body(e, back, through) \subseteq K
<1> DEFINE next == [b \in Blocks |-> Inward(b, back, through) \ (Entries \ {e})]
           S == {e}
<1>1. IsProgram(prog) /\ Blocks \subseteq All /\ e \in Blocks
    BY GraphFacts, EntriesAreBlocks
<1>2. \A b \in Blocks : Inward(b, back, through) \subseteq Blocks
    <2> TAKE b \in Blocks
    <2>1. succ[b] \subseteq Blocks
        BY GraphFacts
    <2>2. End(b) = "callsub" => back[b] \in Blocks \union {0}
        BY DEF Callsubs
    <2> QED BY <2>1, <2>2 DEF Inward
<1>3. S \in SUBSET Blocks /\ next \in [Blocks -> SUBSET Blocks]
    BY <1>1, <1>2
<1>4. \A b \in Blocks : next[b] = Inward(b, back, through) \ (Entries \ {e})
    OBVIOUS
<1>5. Body(e, back, through) = Closure(S, next)
    BY DEF Body, Inward
<1> HIDE DEF next, S
<1>6. /\ Body(e, back, through) \subseteq Blocks
      /\ S \subseteq Body(e, back, through)
      /\ \A b \in Body(e, back, through) : next[b] \subseteq Body(e, back, through)
      /\ \A K : /\ S \subseteq K
                /\ \A b \in K \cap Blocks : next[b] \subseteq K
                => Body(e, back, through) \subseteq K
    BY <1>1, <1>3, <1>5, ClosureIn
<1>7. \A b \in Body(e, back, through) :
          Inward(b, back, through) \ (Entries \ {e}) \subseteq Body(e, back, through)
    BY <1>4, <1>6
<1>8. ASSUME NEW K, e \in K, \A b \in K \cap Blocks : Inward(b, back, through) \ (Entries \ {e}) \subseteq K
      PROVE  Body(e, back, through) \subseteq K
    <2>1. S \subseteq K /\ \A b \in K \cap Blocks : next[b] \subseteq K
        BY <1>4, <1>8 DEF S
    <2> QED BY <1>6, <2>1
<1> QED BY <1>6, <1>7, <1>8 DEF S

IdentifiedTypes ==
    /\ round \in Nat
    /\ conts \in [Callsubs -> Blocks \union {0}]
    /\ phase # "identify" => /\ bodies \in [Entries -> SUBSET Blocks]
                             /\ \A e \in Entries : e \in bodies[e]

\* A call that may return comes back to the next block, one that does not to none.
Exact(back) ==
    \A c \in Callsubs : back[c] = IF c \in Stuck \/ Following(c) = {} THEN 0 ELSE c + 1

ContinuationsInv ==
    /\ Graph
    /\ IdentifiedTypes
    /\ Attributed =>
         IF phase = "identify"
         THEN round = 0 /\ conts = [c \in Callsubs |-> SourceNext(c)]
         ELSE round = 1 /\ Exact(conts) /\ \A e \in Entries : Extent(e) \subseteq bodies[e]

LEMMA InitContinuations == InitIdentify => ContinuationsInv
<1> SUFFICES ASSUME InitIdentify PROVE ContinuationsInv
    OBVIOUS
<1>1. Graph
    BY DEF InitIdentify, Graph
<1>2. \A c \in Callsubs : SourceNext(c) \in Blocks \union {0}
    <2> TAKE c \in Callsubs
    <2> DEFINE S == {b \in Blocks : b > c /\ b \notin Entries}
    <2>1. S \in SUBSET Blocks
        OBVIOUS
    <2> HIDE DEF S
    <2>2. Earliest(S) \in Blocks \union {0}
        BY <1>1, <2>1, EarliestFacts
    <2> QED BY <2>2 DEF S, SourceNext
<1> QED BY <1>1, <1>2 DEF InitIdentify, ContinuationsInv, IdentifiedTypes

\* The first block after a call that may return starts no routine.
LEMMA NextInSource ==
    ASSUME Graph, Attributed, NEW c \in Callsubs \ Stuck
    PROVE  SourceNext(c) = IF Following(c) = {} THEN 0 ELSE c + 1
<1> DEFINE S == {b \in Blocks : b > c /\ b \notin Entries}
<1>1. c \in Blocks /\ c \in All /\ c \in Nat /\ Len(prog) \in Nat /\ IsProgram(prog)
    BY GraphFacts, EntriesAreBlocks, ProgramFacts
<1>2. \A b \in Blocks : b \in 1..Len(prog)
    BY GraphFacts DEF All
<1>3. Following(c) = (IF c = Len(prog) THEN {} ELSE {c + 1}) /\ c <= Len(prog)
    BY <1>1, <1>2, FlowFacts
<1>4. S \in SUBSET Blocks
    OBVIOUS
<1>5. CASE Following(c) = {}
    <2>1. c = Len(prog)
        BY <1>3, <1>5
    <2>2. ~(\E b \in S : TRUE)
        BY <1>1, <1>2, <2>1
    <2>3. Earliest(S) = 0
        <3> HIDE DEF S
        <3> QED BY <1>4, <2>2, EarliestFacts
    <2> QED BY <1>5, <2>3 DEF SourceNext
<1>6. CASE Following(c) # {}
    <2>1. Following(c) = {c + 1}
        BY <1>3, <1>6
    <2>2. Following(c) \subseteq Blocks /\ Following(c) \cap Entries = {}
        BY <1>1, StuckFacts, OnwardFacts DEF Attributed, Apart
    <2>3. c + 1 \in S
        BY <1>1, <2>1, <2>2
    <2>4. \A b \in S : c + 1 <= b
        BY <1>1, <1>2
    <2> HIDE DEF S
    <2>5. Earliest(S) \in S /\ Earliest(S) <= c + 1
        BY <1>4, <2>3, EarliestFacts
    <2>6. Earliest(S) = c + 1
        <3>1. Earliest(S) \in Nat
            BY <1>2, <1>4, <2>5
        <3> QED BY <1>1, <2>4, <2>5, <3>1
    <2> QED BY <1>6, <2>6 DEF S, SourceNext
<1> QED BY <1>5, <1>6

\* What is reached from an entry is in its body, and nothing else is if it never returns.
LEMMA FirstBodies ==
    ASSUME Graph, Attributed, NEW e \in Entries,
           NEW back \in [Callsubs -> Blocks \union {0}],
           \A c \in Callsubs \ Stuck : back[c] = IF Following(c) = {} THEN 0 ELSE c + 1
    PROVE  /\ Extent(e) \subseteq Body(e, back, TRUE)
           /\ Extent(e) \cap Stuck = {} => Body(e, back, TRUE) = Extent(e)
<1>1. e \in Blocks /\ Extent(e) \cap Entries \subseteq {e}
    BY EntriesAreBlocks DEF Attributed, Contained
<1>2. IsProgram(prog) /\ Blocks \subseteq All
    BY GraphFacts
<1>3. ASSUME NEW b \in Blocks
      PROVE  /\ Onward(b) \subseteq Inward(b, back, TRUE)
             /\ b \notin Stuck => Inward(b, back, TRUE) \subseteq Onward(b)
    <2>1. b \in All /\ Len(prog) \in Nat /\ b \in Nat
        BY <1>2, ProgramFacts
    <2>2. CASE b \in Retsubs
        BY <2>1, <2>2, OnwardFacts DEF Inward, Retsubs
    <2>3. CASE b \in Callsubs
        <3>1. Inward(b, back, TRUE) = {back[b]} \ {0}
            BY <2>3 DEF Inward, Callsubs
        <3>2. CASE b \in Stuck
            BY <2>3, <3>2, StuckFacts DEF Attributed
        <3>3. CASE b \notin Stuck
            <4>1. Onward(b) = Following(b)
                BY <2>3, <3>3, StuckFacts DEF Attributed
            <4>2. Following(b) = (IF b = Len(prog) THEN {} ELSE {b + 1})
                BY <1>2, <2>1, FlowFacts
            <4>3. back[b] = IF Following(b) = {} THEN 0 ELSE b + 1
                BY <2>3, <3>3
            <4>4. Inward(b, back, TRUE) = Following(b)
                <5>1. CASE b = Len(prog)
                    BY <3>1, <4>2, <4>3, <5>1
                <5>2. CASE b # Len(prog)
                    <6>1. Following(b) = {b + 1} /\ back[b] = b + 1 /\ b + 1 # 0
                        BY <2>1, <4>2, <4>3, <5>2
                    <6> QED BY <3>1, <6>1
                <5> QED BY <5>1, <5>2
            <4> QED BY <4>1, <4>4
        <3> QED BY <3>2, <3>3
    <2>4. CASE b \notin Callsubs \union Retsubs
        <3>1. Onward(b) = succ[b]
            BY <2>1, <2>4, OnwardFacts
        <3> QED BY <2>4, <3>1 DEF Inward, Callsubs, Retsubs
    <2> QED BY <2>2, <2>3, <2>4
<1>4. Extent(e) \subseteq Body(e, back, TRUE)
    <2> DEFINE K == Extent(e) \cap Body(e, back, TRUE)
    <2>1. e \in K
        BY <1>1, ExtentFacts, BodyFacts
    <2>2. ASSUME NEW b \in K \cap Blocks PROVE Onward(b) \subseteq K
        <3>1. Onward(b) \subseteq Extent(e)
            BY <1>1, ExtentFacts
        <3>2. Onward(b) \subseteq Inward(b, back, TRUE) \ (Entries \ {e})
            BY <1>1, <1>3, <3>1
        <3>3. Inward(b, back, TRUE) \ (Entries \ {e}) \subseteq Body(e, back, TRUE)
            BY BodyFacts
        <3> QED BY <3>1, <3>2, <3>3
    <2>3. Extent(e) \subseteq K
        <3> HIDE DEF K
        <3> QED BY <1>1, <2>1, <2>2, ExtentFacts
    <2> QED BY <2>3
<1>5. ASSUME Extent(e) \cap Stuck = {} PROVE Body(e, back, TRUE) \subseteq Extent(e)
    <2>1. \A b \in Extent(e) \cap Blocks : Inward(b, back, TRUE) \ (Entries \ {e}) \subseteq Extent(e)
        BY <1>1, <1>3, <1>5, ExtentFacts
    <2>2. e \in Extent(e)
        BY <1>1, ExtentFacts
    <2>3. \A K : /\ e \in K
                 /\ \A b \in K \cap Blocks : Inward(b, back, TRUE) \ (Entries \ {e}) \subseteq K
                 => Body(e, back, TRUE) \subseteq K
        BY BodyFacts
    <2>4. \A b \in Extent(e) \cap Blocks : Inward(b, back, TRUE) \ (Entries \ {e}) \subseteq Extent(e)
        BY <2>1
    <2> QED BY <2>2, <2>3, <2>4
<1> QED BY <1>4, <1>5

-----------------------------------------------------------------------------
(* The program stays.                                                      *)

LEMMA SameText ==
    ASSUME prog' = prog
    PROVE  /\ All' = All
           /\ \A b : Last1(b)' = Last1(b) /\ End(b)' = End(b)
           /\ \A b : Following(b)' = Following(b) /\ Flow(b)' = Flow(b)
           /\ \A S, next : Closure(S, next)' = Closure(S, next)
           /\ \A b : BlockCost(b)' = BlockCost(b)
           /\ \A b : Delta(b)' = Delta(b)
           /\ \A b : Proto(b)' = Proto(b)
<1>1. All' = All
    BY DEF All
<1>2. \A b : Last1(b)' = Last1(b)
    BY DEF Last1
<1>3. \A b : End(b)' = End(b)
    BY <1>2 DEF End
<1>4. \A b : Following(b)' = Following(b)
    BY <1>1 DEF Following
<1>5. \A b : Flow(b)' = Flow(b)
    BY <1>2, <1>3, <1>4 DEF Flow
<1>6. \A S, next : Closure(S, next)' = Closure(S, next)
    BY DEF Closure
<1>7. \A b : BlockCost(b)' = BlockCost(b)
    BY DEF BlockCost
<1>8. \A b : Delta(b)' = Delta(b)
    BY DEF Delta
<1>9. \A b : Proto(b)' = Proto(b)
    BY DEF Proto
<1> QED BY <1>1, <1>2, <1>3, <1>4, <1>5, <1>6, <1>7, <1>8, <1>9

LEMMA SameProgram ==
    ASSUME UNCHANGED program
    PROVE  /\ Blocks' = Blocks /\ Callsubs' = Callsubs /\ Retsubs' = Retsubs /\ Entries' = Entries
           /\ \A c : CallTarget(c)' = CallTarget(c)
           /\ \A c : Ends(c)' = Ends(c)
           /\ \A b : Onward(b)' = Onward(b)
           /\ \A e : Extent(e)' = Extent(e)
           /\ Stuck' = Stuck
           /\ MaxRounds' = MaxRounds
           /\ (Settled <=> Settled') /\ (Contained <=> Contained') /\ (Apart <=> Apart')
           /\ Attributed <=> Attributed'
<1>1. prog' = prog /\ succ' = succ
    BY DEF program
<1>2. Blocks' = Blocks
    BY <1>1 DEF Blocks
<1>3. Callsubs' = Callsubs /\ Retsubs' = Retsubs
    BY <1>1, <1>2, SameText DEF Callsubs, Retsubs
<1>4. \A c : CallTarget(c)' = CallTarget(c)
    BY <1>1 DEF CallTarget
<1>5. Entries' = Entries
    BY <1>3, <1>4 DEF Entries
<1>6. \A c : Ends(c)' = Ends(c)
    <2> TAKE c
    <2>1. [b \in All |-> Flow(b)]' = [b \in All |-> Flow(b)]
        BY <1>1, SameText
    <2>2. {Last1(c).to}' = {Last1(c).to}
        BY <1>1, SameText
    <2> QED BY <1>1, <2>1, <2>2, SameText DEF Ends
<1>7. \A b : Onward(b)' = Onward(b)
    <2>1. \A b : Onward(b) = IF End(b) = "callsub"
                             THEN Following(b) \cap UNION {succ[r] : r \in Retsubs \cap Ends(b)}
                             ELSE Flow(b)
        BY DEF Onward, Ends
    <2>2. \A b : Onward(b)' = IF End(b)' = "callsub"
                              THEN Following(b)' \cap UNION {succ'[r] : r \in Retsubs' \cap Ends(b)'}
                              ELSE Flow(b)'
        BY DEF Onward, Ends
    <2>3. \A b : End(b)' = End(b) /\ Following(b)' = Following(b) /\ Flow(b)' = Flow(b)
        BY <1>1, SameText
    <2> QED BY <1>1, <1>3, <1>6, <2>1, <2>2, <2>3
<1>8. \A e : Extent(e)' = Extent(e)
    <2> TAKE e
    <2>1. [b \in All |-> Onward(b)]' = [b \in All |-> Onward(b)]
        BY <1>1, <1>7, SameText
    <2> QED BY <1>1, <2>1, SameText DEF Extent
<1>9. Stuck' = Stuck
    BY <1>3, <1>4, <1>8 DEF Stuck
<1>10. MaxRounds' = MaxRounds
    BY <1>3, <1>5 DEF MaxRounds
<1>11. Settled <=> Settled'
    BY <1>4, <1>8, <1>9 DEF Settled
<1>12. Contained <=> Contained'
    BY <1>5, <1>8 DEF Contained
<1>13. Apart <=> Apart'
    <2>1. \A b : Following(b)' = Following(b)
        BY <1>1, SameText
    <2> QED BY <1>3, <1>5, <1>9, <2>1 DEF Apart
<1>14. Attributed <=> Attributed'
    BY <1>11, <1>12, <1>13 DEF Attributed
<1> QED BY <1>2, <1>3, <1>4, <1>5, <1>6, <1>7, <1>8, <1>9, <1>10, <1>11, <1>12, <1>13, <1>14

LEMMA SameGraph ==
    ASSUME prog' = prog
    PROVE  BlockGraph' = BlockGraph
<1>1. \A c : Ends(c)' = Ends(c)
    <2> TAKE c
    <2>1. [b \in All |-> Flow(b)]' = [b \in All |-> Flow(b)]
        BY SameText
    <2>2. {Last1(c).to}' = {Last1(c).to}
        BY SameText
    <2> QED BY <2>1, <2>2, SameText DEF Ends
<1>2. \A b, live : Leads(b, live)' = Leads(b, live)
    <2> TAKE b, live
    <2>1. CallsOf(live)' = CallsOf(live)
        BY SameText DEF CallsOf
    <2>2. /\ End(b)' = End(b) /\ Last1(b)' = Last1(b) /\ Flow(b)' = Flow(b)
          /\ \A c : Following(c)' = Following(c)
        BY SameText
    <2> QED BY <1>1, <2>1, <2>2 DEF Leads
<1>3. \A live : ReachedFrom1(live)' = ReachedFrom1(live)
    <2> TAKE live
    <2>1. [b \in All |-> Leads(b, live)]' = [b \in All |-> Leads(b, live)]
        BY <1>2, SameText
    <2> QED BY <2>1, SameText DEF ReachedFrom1
<1> DEFINE F(f) == [n \in Nat |-> IF n = 0 THEN All ELSE ReachedFrom1(f[n - 1])]
           gated == CHOOSE f : f = F(f)
           blocks == gated[Len(prog)]
<1>4. \A f : F(f)' = F(f)
    BY <1>3, SameText
<1>5. gated' = gated
    BY <1>4
<1>6. blocks' = blocks
    BY <1>5
<1>7. BlockGraph = [b \in blocks |-> Leads(b, blocks)]
    BY DEF BlockGraph, ReachedFrom1, Leads, CallsOf, Ends
<1>8. BlockGraph' = [b \in blocks' |-> Leads(b, blocks)']
    BY DEF BlockGraph, ReachedFrom1, Leads, CallsOf, Ends
<1> HIDE DEF blocks
<1>9. \A b : Leads(b, blocks)' = Leads(b, blocks)
    <2> TAKE b
    <2>1. CallsOf(blocks)' = CallsOf(blocks)
        BY <1>6, SameText DEF CallsOf
    <2>2. /\ End(b)' = End(b) /\ Last1(b)' = Last1(b) /\ Flow(b)' = Flow(b)
          /\ \A c : Following(c)' = Following(c)
        BY SameText
    <2> QED BY <1>1, <2>1, <2>2 DEF Leads
<1> QED BY <1>6, <1>7, <1>8, <1>9

LEMMA GraphStays == Graph /\ UNCHANGED program => Graph'
BY SameGraph DEF Graph, program

-----------------------------------------------------------------------------
(* The rounds.                                                             *)

\* The bodies of a round.
Walked == [e \in Entries |-> Body(e, conts, TRUE)]

Kept(body)   == [c \in Callsubs |-> IF conts[c] # 0 /\ Misplaced(c, body) THEN 0 ELSE conts[c]]
Filled(body) == [c \in Callsubs |-> IF Kept(body)[c] = 0 THEN Refill(c, body) ELSE Kept(body)[c]]

LEMMA RoundTypes ==
    ASSUME Graph, IdentifiedTypes
    PROVE  /\ Walked \in [Entries -> SUBSET Blocks]
           /\ \A e \in Entries : e \in Walked[e]
           /\ Filled(Walked) \in [Callsubs -> Blocks \union {0}]
<1>1. Walked \in [Entries -> SUBSET Blocks]
    <2>1. \A e \in Entries : Body(e, conts, TRUE) \subseteq Blocks
        BY BodyFacts DEF IdentifiedTypes
    <2> QED BY <2>1 DEF Walked
<1>2. \A c \in Callsubs : Refill(c, Walked) \in Blocks \union {0}
    <2> TAKE c \in Callsubs
    <2> DEFINE S == {t \in ReturnTargets(Walked[CallTarget(c)]) : t > c}
    <2>1. S \in SUBSET Blocks
        BY GraphFacts, EntriesAreBlocks DEF ReturnTargets
    <2> HIDE DEF S
    <2>2. Earliest(S) \in Blocks \union {0}
        BY <2>1, EarliestFacts
    <2> QED BY <2>2 DEF S, Refill
<1>3. \A c \in Callsubs : Kept(Walked)[c] \in Blocks \union {0}
    BY DEF Kept, IdentifiedTypes
<1>4. \A c \in Callsubs : Filled(Walked)[c] \in Blocks \union {0}
    BY <1>2, <1>3 DEF Filled
<1>5. \A e \in Entries : e \in Walked[e]
    <2> TAKE e \in Entries
    <2>1. e \in Body(e, conts, TRUE)
        BY BodyFacts DEF IdentifiedTypes
    <2> QED BY <2>1 DEF Walked
<1> QED BY <1>1, <1>4, <1>5 DEF Filled

\* One round is enough: it drops the continuations of the calls that never return, and
\* finds no other.
LEMMA OneRound ==
    ASSUME Graph, IdentifiedTypes, Attributed, conts = [c \in Callsubs |-> SourceNext(c)]
    PROVE  /\ Exact(Filled(Walked))
           /\ Filled(Walked) = Kept(Walked)
           /\ \A e \in Entries : Extent(e) \subseteq Walked[e]
<1>1. \A c \in Callsubs \ Stuck : conts[c] = IF Following(c) = {} THEN 0 ELSE c + 1
    BY NextInSource
<1>2. conts \in [Callsubs -> Blocks \union {0}]
    BY DEF IdentifiedTypes
<1>3. \A e \in Entries : /\ Extent(e) \subseteq Walked[e]
                         /\ Extent(e) \cap Stuck = {} => Walked[e] = Extent(e)
    <2> TAKE e \in Entries
    <2>1. Walked[e] = Body(e, conts, TRUE)
        BY DEF Walked
    <2> QED BY <1>1, <1>2, <2>1, FirstBodies
<1>4. ASSUME NEW c \in Stuck PROVE Kept(Walked)[c] = 0 /\ Filled(Walked)[c] = 0
    <2> DEFINE e == CallTarget(c)
    <2>1. c \in Callsubs /\ e \in Entries
        BY DEF Stuck, Entries
    <2>2. Extent(e) \cap Retsubs = {} /\ Extent(e) \cap Stuck = {}
        BY DEF Stuck, Settled, Attributed
    <2>3. Walked[e] \cap Retsubs = {}
        BY <1>3, <2>1, <2>2
    <2>4. Misplaced(c, Walked)
        BY <2>3 DEF Misplaced
    <2>5. Kept(Walked)[c] = 0
        BY <2>1, <2>4 DEF Kept
    <2>6. ReturnTargets(Walked[e]) = {}
        BY <2>3 DEF ReturnTargets
    <2>7. Refill(c, Walked) = 0
        <3> DEFINE S == {t \in ReturnTargets(Walked[e]) : t > c}
        <3>1. S = {} /\ S \in SUBSET Blocks
            BY <2>6
        <3> HIDE DEF S
        <3>2. Earliest(S) = 0
            BY <3>1, EarliestFacts
        <3> QED BY <3>2 DEF S, Refill
    <2> QED BY <2>1, <2>5, <2>7 DEF Filled
<1>5. ASSUME NEW c \in Callsubs \ Stuck PROVE Kept(Walked)[c] = conts[c] /\ Filled(Walked)[c] = conts[c]
    <2> DEFINE e == CallTarget(c)
    <2>1. e \in Entries /\ c \in Blocks /\ c \in All /\ IsProgram(prog)
        BY EntriesAreBlocks, GraphFacts DEF Entries
    <2>2. PICK r \in Retsubs : r \in Extent(e) /\ r \in Ends(c)
        BY StuckFacts DEF Attributed
    <2>3. r \in Walked[e] /\ Following(c) \subseteq succ[r]
        BY <1>3, <2>1, <2>2, SuccFacts, EntriesAreBlocks
    <2>4. Following(c) \subseteq ReturnTargets(Walked[e])
        BY <2>2, <2>3 DEF ReturnTargets
    <2>5. /\ Following(c) = (IF c = Len(prog) THEN {} ELSE {c + 1})
          /\ c \in Nat /\ Len(prog) \in Nat /\ c <= Len(prog)
        BY <2>1, FlowFacts, ProgramFacts DEF All
    <2>6. CASE Following(c) = {}
        <3>1. conts[c] = 0 /\ c = Len(prog)
            BY <1>1, <2>5, <2>6
        <3>2. Kept(Walked)[c] = 0
            BY <3>1 DEF Kept
        <3>3. Refill(c, Walked) = 0
            <4> DEFINE S == {t \in ReturnTargets(Walked[e]) : t > c}
            <4>1. ReturnTargets(Walked[e]) \subseteq Blocks
                BY EntriesAreBlocks, GraphFacts DEF ReturnTargets
            <4>2. \A t \in Blocks : t \in Nat /\ t <= Len(prog)
                BY <2>5, GraphFacts DEF All
            <4>3. S \in SUBSET Blocks /\ ~(\E t \in S : TRUE)
                BY <2>5, <3>1, <4>1, <4>2
            <4> HIDE DEF S
            <4>4. Earliest(S) = 0
                BY <4>3, EarliestFacts
            <4> QED BY <4>4 DEF S, Refill
        <3> QED BY <3>1, <3>2, <3>3 DEF Filled
    <2>7. CASE Following(c) # {}
        <3>1. conts[c] = c + 1 /\ conts[c] # 0 /\ conts[c] \in Following(c)
            <4>1. Following(c) = {c + 1} /\ c + 1 # 0
                BY <2>5, <2>7
            <4>2. conts[c] = c + 1
                BY <1>1, <2>7
            <4> QED BY <4>1, <4>2
        <3>2. ~Misplaced(c, Walked)
            BY <2>2, <2>3, <2>4, <3>1 DEF Misplaced
        <3>3. Kept(Walked)[c] = conts[c]
            BY <3>2 DEF Kept
        <3> QED BY <3>1, <3>3 DEF Filled
    <2> QED BY <2>6, <2>7
<1>6. Filled(Walked) = Kept(Walked)
    <2>1. \A c \in Callsubs : Filled(Walked)[c] = Kept(Walked)[c]
        BY <1>4, <1>5
    <2> QED BY <2>1 DEF Filled, Kept
<1>7. Exact(Filled(Walked))
    BY <1>1, <1>4, <1>5 DEF Exact
<1> QED BY <1>3, <1>6, <1>7

LEMMA RefineFacts ==
    ASSUME Refine
    PROVE  /\ phase = "identify" /\ round' = round + 1 /\ UNCHANGED program
           /\ bodies' = Walked
           /\ conts' = Filled(Walked)
           /\ phase' \in {"identify", "identified"}
           /\ Filled(Walked) = Kept(Walked) => phase' = "identified"
BY DEF Refine, Walked, Filled, Kept

LEMMA ContinuationsStay ==
    ASSUME ContinuationsInv, UNCHANGED <<program, identified>>,
           phase' = "identify" <=> phase = "identify"
    PROVE  ContinuationsInv'
<1>1. UNCHANGED program /\ round' = round /\ conts' = conts /\ bodies' = bodies
    BY DEF identified
<1>2. Graph'
    BY <1>1, GraphStays DEF ContinuationsInv
<1>3. IdentifiedTypes'
    BY <1>1, SameProgram DEF ContinuationsInv, IdentifiedTypes
<1>4. ASSUME phase = "identify" PROVE [c \in Callsubs |-> SourceNext(c)]' = [c \in Callsubs |-> SourceNext(c)]
    <2>1. \A c : SourceNext(c)' = SourceNext(c)
        BY <1>1, SameProgram DEF SourceNext, Earliest
    <2> QED BY <1>1, <2>1, SameProgram
<1>5. Exact(conts) <=> Exact(conts)'
    <2>1. Callsubs' = Callsubs /\ Stuck' = Stuck /\ \A b : Following(b)' = Following(b)
        BY <1>1, SameProgram, SameText DEF program
    <2> QED BY <1>1, <2>1 DEF Exact
<1>6. Attributed <=> Attributed'
    BY <1>1, SameProgram
<1>7. Entries' = Entries /\ \A e : Extent(e)' = Extent(e)
    BY <1>1, SameProgram
<1>8. Attributed' =>
         IF phase' = "identify"
         THEN round' = 0 /\ conts' = [c \in Callsubs |-> SourceNext(c)]'
         ELSE round' = 1 /\ Exact(conts)' /\ \A e \in Entries' : Extent(e)' \subseteq bodies'[e]
    BY <1>1, <1>4, <1>5, <1>6, <1>7 DEF ContinuationsInv
<1> QED BY <1>2, <1>3, <1>8 DEF ContinuationsInv

LEMMA RefineKeeps == ContinuationsInv /\ Refine => ContinuationsInv'
<1> SUFFICES ASSUME ContinuationsInv, Refine PROVE ContinuationsInv'
    OBVIOUS
<1>1. /\ phase = "identify" /\ round' = round + 1 /\ UNCHANGED program
      /\ bodies' = Walked
      /\ conts' = Filled(Walked)
      /\ phase' \in {"identify", "identified"}
      /\ Filled(Walked) = Kept(Walked) => phase' = "identified"
    BY RefineFacts
<1>2. Graph /\ IdentifiedTypes
    BY DEF ContinuationsInv
<1>3. Graph'
    BY <1>1, <1>2, GraphStays
<1>4. IdentifiedTypes'
    <2>1. /\ Walked \in [Entries -> SUBSET Blocks] /\ Filled(Walked) \in [Callsubs -> Blocks \union {0}]
          /\ \A e \in Entries : e \in Walked[e]
        BY <1>2, RoundTypes
    <2>2. Entries' = Entries /\ Blocks' = Blocks /\ Callsubs' = Callsubs
        BY <1>1, SameProgram
    <2> QED BY <1>1, <1>2, <2>1, <2>2 DEF IdentifiedTypes
<1>5. ASSUME Attributed'
      PROVE  phase' = "identified" /\ round' = 1 /\ Exact(conts)' /\ \A e \in Entries' : Extent(e)' \subseteq bodies'[e]
    <2>1. Attributed
        BY <1>1, <1>5, SameProgram
    <2>2. round = 0 /\ conts = [c \in Callsubs |-> SourceNext(c)]
        BY <1>1, <2>1 DEF ContinuationsInv
    <2>3. /\ Exact(Filled(Walked))
          /\ Filled(Walked) = Kept(Walked)
          /\ \A e \in Entries : Extent(e) \subseteq Walked[e]
        BY <1>2, <2>1, <2>2, OneRound
    <2>4. Callsubs' = Callsubs /\ Stuck' = Stuck /\ \A b : Following(b)' = Following(b)
        BY <1>1, SameProgram, SameText DEF program
    <2>5. Exact(conts)'
        BY <1>1, <2>3, <2>4 DEF Exact
    <2>6. Entries' = Entries /\ \A e : Extent(e)' = Extent(e)
        BY <1>1, SameProgram
    <2> QED BY <1>1, <2>2, <2>3, <2>5, <2>6
<1> QED BY <1>3, <1>4, <1>5 DEF ContinuationsInv

-----------------------------------------------------------------------------
(* The cheapest ways.  A way that still becomes cheaper after as many steps *)
(* as there are blocks has passed a block twice and paid less than nothing *)
(* in between.                                                             *)

Partials == UNION {[T -> Int] : T \in SUBSET Blocks}

\* The steps from each block, and what each costs.
Weighed(next, toll) ==
    next \in [Blocks -> SUBSET Blocks] /\ toll \in [Blocks -> [Blocks -> Int]]

\* One round: the ways one step longer.
Ways(d, c, next, toll) ==
    {d[b] + toll[b][c] : b \in {k \in DOMAIN d : c \in next[k]}} \union {d[b] : b \in DOMAIN d \cap {c}}

Extended(d, next, toll) ==
    [c \in DOMAIN d \union UNION {next[b] : b \in DOMAIN d} |-> Min(Ways(d, c, next, toll))]

Rounds(d, S, next, toll) ==
    /\ d \in [Nat -> Partials]
    /\ d[0] = [b \in S |-> 0]
    /\ \A n \in Nat : d[n + 1] = Extended(d[n], next, toll)

LEMMA PartialFacts ==
    \A d : d \in Partials <=> DOMAIN d \subseteq Blocks /\ d \in [DOMAIN d -> Int]
BY DEF Partials

\* What a round does.
Lengthens(d, after, next, toll) ==
    /\ d \in Partials /\ after \in Partials
    /\ DOMAIN after = DOMAIN d \union UNION {next[b] : b \in DOMAIN d}
    /\ \A c \in DOMAIN d : c \in DOMAIN after /\ after[c] <= d[c]
    /\ \A b \in DOMAIN d : \A c \in next[b] : c \in DOMAIN after /\ after[c] <= d[b] + toll[b][c]
    /\ \A c \in DOMAIN after :
          \/ c \in DOMAIN d /\ after[c] = d[c]
          \/ \E b \in DOMAIN d : c \in next[b] /\ after[c] = d[b] + toll[b][c]

LEMMA ExtendedFacts ==
    ASSUME Graph, NEW next, NEW toll, Weighed(next, toll),
           NEW d \in Partials, NEW after, after = Extended(d, next, toll)
    PROVE  Lengthens(d, after, next, toll)
<1> DEFINE D == DOMAIN d \union UNION {next[b] : b \in DOMAIN d}
           W(c) == Ways(d, c, next, toll)
<1>0. next \in [Blocks -> SUBSET Blocks] /\ toll \in [Blocks -> [Blocks -> Int]]
    BY DEF Weighed
<1>1. DOMAIN d \subseteq Blocks /\ d \in [DOMAIN d -> Int] /\ IsFiniteSet(DOMAIN d)
    <2>1. DOMAIN d \subseteq Blocks /\ d \in [DOMAIN d -> Int]
        BY PartialFacts
    <2> QED BY <2>1, GraphFacts, FS_Subset
<1>2. D \subseteq Blocks
    BY <1>0, <1>1
<1>3. ASSUME NEW b \in DOMAIN d, NEW c \in next[b] PROVE toll[b][c] \in Int /\ d[b] \in Int
    <2>1. b \in Blocks /\ c \in Blocks
        BY <1>0, <1>1
    <2> QED BY <1>0, <1>1, <2>1
<1>4. ASSUME NEW c \in D
      PROVE  /\ W(c) \in SUBSET Int /\ IsFiniteSet(W(c)) /\ W(c) # {}
    <2> DEFINE from == {k \in DOMAIN d : c \in next[k]}
               A == {d[b] + toll[b][c] : b \in from}
               E == {d[b] : b \in DOMAIN d \cap {c}}
    <2>1. W(c) = A \union E
        BY DEF Ways
    <2>2. A \in SUBSET Int /\ E \in SUBSET Int
        <3>1. \A b \in from : d[b] + toll[b][c] \in Int
            <4> TAKE b \in from
            <4>1. b \in DOMAIN d /\ c \in next[b]
                OBVIOUS
            <4>2. toll[b][c] \in Int /\ d[b] \in Int
                BY <1>3, <4>1
            <4>3. \A x, y \in Int : x + y \in Int
                OBVIOUS
            <4> HIDE DEF from
            <4> QED BY <4>2, <4>3
        <3>2. \A b \in DOMAIN d : d[b] \in Int
            BY <1>1
        <3> QED BY <3>1, <3>2
    <2>3. IsFiniteSet(from) /\ IsFiniteSet(DOMAIN d \cap {c})
        BY <1>1, FS_Subset
    <2>4. IsFiniteSet(A)
        <3> DEFINE f == [b \in from |-> d[b] + toll[b][c]]
        <3>1. A = {f[b] : b \in from}
            OBVIOUS
        <3>2. IsFiniteSet({f[b] : b \in from})
            <4> HIDE DEF f, from
            <4> QED BY <2>3, ImageIsFinite
        <3> QED BY <3>1, <3>2
    <2>5. IsFiniteSet(E)
        <3> DEFINE own == DOMAIN d \cap {c}
        <3>1. IsFiniteSet(own)
            BY <2>3
        <3> HIDE DEF own
        <3>2. IsFiniteSet({d[b] : b \in own})
            BY <3>1, ImageIsFinite
        <3> QED BY <3>2 DEF own
    <2>6. IsFiniteSet(A \union E)
        BY <2>4, <2>5, FS_Union
    <2>7. A \union E # {}
        <3>1. CASE c \in DOMAIN d
            <4>1. d[c] \in E
                BY <3>1
            <4> QED BY <4>1
        <3>2. CASE c \notin DOMAIN d
            <4>1. PICK b \in DOMAIN d : c \in next[b]
                BY <1>4, <3>2
            <4>2. d[b] + toll[b][c] \in A
                BY <4>1
            <4> QED BY <4>2
        <3> QED BY <3>1, <3>2
    <2> QED BY <2>1, <2>2, <2>6, <2>7
<1>5. ASSUME NEW c \in D PROVE Min(W(c)) \in W(c) /\ Min(W(c)) \in Int /\ \A y \in W(c) : Min(W(c)) <= y
    <2> HIDE DEF W
    <2> QED BY <1>4, <1>5, MinFacts
<1>6. DOMAIN after = D /\ \A c \in D : after[c] = Min(W(c))
    BY DEF Extended
<1>7. after = [c \in D |-> Min(W(c))]
    BY DEF Extended
<1>8. after \in Partials
    <2>1. after \in [D -> Int]
        <3> HIDE DEF W, D
        <3> QED BY <1>5, <1>7
    <2> HIDE DEF D
    <2> QED BY <1>2, <1>6, <2>1, PartialFacts
<1>9. \A c \in DOMAIN d : c \in DOMAIN after /\ after[c] <= d[c]
    <2> TAKE c \in DOMAIN d
    <2>1. c \in D
        OBVIOUS
    <2>2. d[c] \in W(c)
        BY DEF Ways
    <2> HIDE DEF W, D
    <2> QED BY <1>5, <1>6, <2>1, <2>2
<1>10. \A b \in DOMAIN d : \A c \in next[b] : c \in DOMAIN after /\ after[c] <= d[b] + toll[b][c]
    <2> TAKE b \in DOMAIN d
    <2> TAKE c \in next[b]
    <2>1. c \in D
        OBVIOUS
    <2>2. d[b] + toll[b][c] \in W(c)
        BY DEF Ways
    <2> HIDE DEF W, D
    <2> QED BY <1>5, <1>6, <2>1, <2>2
<1>11. \A c \in DOMAIN after :
          \/ c \in DOMAIN d /\ after[c] = d[c]
          \/ \E b \in DOMAIN d : c \in next[b] /\ after[c] = d[b] + toll[b][c]
    <2> TAKE c \in DOMAIN after
    <2>1. after[c] \in W(c)
        <3> HIDE DEF W, D
        <3> QED BY <1>5, <1>6
    <2> QED BY <2>1 DEF Ways
<1> HIDE DEF D
<1> QED BY <1>6, <1>8, <1>9, <1>10, <1>11, PartialFacts DEF D, Lengthens

LEMMA CheapestRounds ==
    ASSUME Graph, NEW S \in SUBSET Blocks,
           NEW next, NEW toll, Weighed(next, toll)
    PROVE  \E d : Rounds(d, S, next, toll) /\ Cheapest(S, next, toll) = d[Cardinality(Blocks)]
<1> DEFINE step(d) == Extended(d, next, toll)
           G == [d \in Partials |-> step(d)]
           A == [b \in S |-> 0]
           F(f) == [n \in Nat |-> IF n = 0 THEN A ELSE step(f[n - 1])]
           least == CHOOSE f : f = F(f)
           N == Cardinality(Blocks)
<1>1. \A d \in Partials : step(d) \in Partials
    BY ExtendedFacts DEF Lengthens
<1>2. A \in Partials
    <2>1. DOMAIN A \subseteq Blocks /\ A \in [DOMAIN A -> Int]
        OBVIOUS
    <2> HIDE DEF A
    <2> QED BY <2>1, PartialFacts
<1>3. PICK f \in [Nat -> Partials] : f[0] = A /\ \A n \in Nat : f[n + 1] = G[f[n]]
    <2>1. G \in [Partials -> Partials]
        <3> HIDE DEF step
        <3> QED BY <1>1
    <2> HIDE DEF A, G
    <2>2. \E f \in [Nat -> Partials] : Iterates(f, A, G)
        BY <1>2, <2>1, IterationExists
    <2> QED BY <2>2 DEF Iterates
<1> HIDE DEF A
<1>4. f = F(f)
    <2>1. ASSUME NEW n \in Nat PROVE f[n] = F(f)[n]
        <3>1. CASE n = 0
            BY <1>3, <3>1
        <3>2. CASE n # 0
            <4>1. n - 1 \in Nat /\ (n - 1) + 1 = n
                BY <3>2
            <4>2. f[n] = G[f[n - 1]] /\ f[n - 1] \in Partials
                BY <1>3, <4>1
            <4> HIDE DEF step
            <4> QED BY <3>2, <4>2
        <3> QED BY <3>1, <3>2
    <2> HIDE DEF step
    <2> QED BY <1>3, <2>1
<1>5. least = F(least)
    <2> HIDE DEF F
    <2> QED BY <1>4
<1>6. Cheapest(S, next, toll) = least[N]
    BY DEF Cheapest, Extended, Ways, A
<1> HIDE DEF least
<1>7. least[0] = A /\ \A n \in Nat : least[n + 1] = step(least[n])
    <2>1. \A n \in Nat : n + 1 \in Nat /\ n + 1 # 0 /\ (n + 1) - 1 = n
        OBVIOUS
    <2> HIDE DEF step
    <2> QED BY <1>5, <2>1
<1>8. least \in [Nat -> Partials]
    <2> DEFINE T == {n \in Nat : least[n] \in Partials}
    <2>1. 0 \in T
        BY <1>2, <1>7
    <2>2. ASSUME NEW n \in Nat, n \in T PROVE n + 1 \in T
        <3>1. least[n + 1] = step(least[n]) /\ least[n] \in Partials
            BY <1>7, <2>2
        <3> HIDE DEF step
        <3> QED BY <1>1, <3>1
    <2>3. \A n \in Nat : n \in T
        <3> HIDE DEF T
        <3> QED BY <2>1, <2>2, NumberInduction
    <2>4. least = [n \in Nat |-> least[n]]
        <3> DEFINE val(n) == IF n = 0 THEN A ELSE step(least[n - 1])
        <3>1. least = [n \in Nat |-> val(n)]
            BY <1>5
        <3> HIDE DEF val
        <3> QED BY <3>1
    <2> QED BY <2>3, <2>4
<1>9. Rounds(least, S, next, toll)
    BY <1>7, <1>8 DEF Rounds, A
<1> QED BY <1>6, <1>9

LEMMA RoundFacts ==
    ASSUME Graph, NEW S \in SUBSET Blocks,
           NEW next, NEW toll, Weighed(next, toll),
           NEW d, Rounds(d, S, next, toll), NEW m \in Nat, NEW p \in Nat, p = m + 1
    PROVE  Lengthens(d[m], d[p], next, toll)
<1>1. d[m] \in Partials /\ d[p] = Extended(d[m], next, toll)
    BY DEF Rounds
<1> QED BY <1>1, ExtendedFacts

LEMMA LengthFacts ==
    ASSUME NEW d, NEW after, NEW next, NEW toll, Lengthens(d, after, next, toll)
    PROVE  /\ \A c \in DOMAIN d : d[c] \in Int /\ c \in Blocks
           /\ \A c \in DOMAIN after : after[c] \in Int /\ c \in Blocks
           /\ DOMAIN after = DOMAIN d \union UNION {next[b] : b \in DOMAIN d}
           /\ \A c \in DOMAIN d : c \in DOMAIN after /\ after[c] <= d[c]
           /\ \A b \in DOMAIN d : \A c \in next[b] :
                 c \in DOMAIN after /\ after[c] <= d[b] + toll[b][c]
           /\ \A c \in DOMAIN after :
                 \/ c \in DOMAIN d /\ after[c] = d[c]
                 \/ \E b \in DOMAIN d : c \in next[b] /\ after[c] = d[b] + toll[b][c]
<1>1. d \in Partials /\ after \in Partials
    BY DEF Lengthens
<1>2. /\ \A c \in DOMAIN d : d[c] \in Int /\ c \in Blocks
      /\ \A c \in DOMAIN after : after[c] \in Int /\ c \in Blocks
    BY <1>1, PartialFacts
<1> QED BY <1>2 DEF Lengthens

\* Later rounds reach more, and for less.
LEMMA RoundsImprove ==
    ASSUME Graph, NEW S \in SUBSET Blocks,
           NEW next, NEW toll, Weighed(next, toll),
           NEW d, Rounds(d, S, next, toll), NEW n \in Nat, NEW k \in Nat
    PROVE  \A c \in DOMAIN d[n] : c \in DOMAIN d[n + k] /\ d[n + k][c] <= d[n][c]
<1> DEFINE Later(m) == \A c \in DOMAIN d[n] : c \in DOMAIN d[m] /\ d[m][c] <= d[n][c]
           T == {j \in Nat : Later(n + j)}
<1>1. \A c \in DOMAIN d[n] : d[n][c] \in Int
    <2>1. n + 1 \in Nat
        OBVIOUS
    <2>2. Lengthens(d[n], d[n + 1], next, toll)
        BY <2>1, RoundFacts
    <2> QED BY <2>2, LengthFacts
<1>2. 0 \in T
    <2>1. n + 0 = n
        OBVIOUS
    <2> QED BY <1>1, <2>1
<1>3. ASSUME NEW j \in Nat, j \in T PROVE j + 1 \in T
    <2>1. PICK m \in Nat : m = n + j
        OBVIOUS
    <2>2. PICK p \in Nat : p = m + 1
        OBVIOUS
    <2>3. Later(m) /\ p = n + (j + 1)
        BY <1>3, <2>1, <2>2
    <2>4. \A c \in DOMAIN d[m] : /\ d[m][c] \in Int /\ c \in DOMAIN d[p]
                                /\ d[p][c] \in Int /\ d[p][c] <= d[m][c]
        <3>1. Lengthens(d[m], d[p], next, toll)
            BY <2>2, RoundFacts
        <3> QED BY <3>1, LengthFacts
    <2>5. Later(p)
        BY <1>1, <2>3, <2>4
    <2> QED BY <2>3, <2>5
<1>4. \A j \in Nat : j \in T
    <2> HIDE DEF T
    <2> QED BY <1>2, <1>3, NumberInduction
<1> QED BY <1>4

\* Round n reaches block c for the first time, or for less than before.
Improves(d, n, c) ==
    /\ c \in DOMAIN d[n]
    /\ n > 0 /\ c \in DOMAIN d[n - 1] => d[n][c] < d[n - 1][c]

\* Then it does so from a block that the round before reached for less.
LEMMA ImprovedFrom ==
    ASSUME Graph, NEW S \in SUBSET Blocks,
           NEW next, NEW toll, Weighed(next, toll),
           NEW d, Rounds(d, S, next, toll),
           NEW n \in Nat, NEW p \in Nat, p = n + 1, NEW c, Improves(d, p, c)
    PROVE  \E b \in Blocks : /\ Improves(d, n, b)
                             /\ c \in next[b]
                             /\ d[p][c] = d[n][b] + toll[b][c]
<1>1. c \in DOMAIN d[p] /\ (c \in DOMAIN d[n] => d[p][c] < d[n][c])
    <2>1. p > 0 /\ p - 1 = n
        OBVIOUS
    <2> QED BY <2>1 DEF Improves
<1>2. /\ \A x \in DOMAIN d[n] : d[n][x] \in Int /\ x \in Blocks
      /\ \A x \in DOMAIN d[p] : d[p][x] \in Int
      /\ \/ c \in DOMAIN d[n] /\ d[p][c] = d[n][c]
         \/ \E b \in DOMAIN d[n] : c \in next[b] /\ d[p][c] = d[n][b] + toll[b][c]
    <2>1. Lengthens(d[n], d[p], next, toll)
        BY RoundFacts
    <2>2. \A x \in DOMAIN d[n] : d[n][x] \in Int /\ x \in Blocks
        BY <2>1, LengthFacts
    <2>3. \A x \in DOMAIN d[p] : d[p][x] \in Int
        BY <2>1, LengthFacts
    <2>4. \A y \in DOMAIN d[p] :
             \/ y \in DOMAIN d[n] /\ d[p][y] = d[n][y]
             \/ \E b \in DOMAIN d[n] : y \in next[b] /\ d[p][y] = d[n][b] + toll[b][y]
        BY <2>1 DEF Lengthens
    <2> QED BY <1>1, <2>2, <2>3, <2>4
<1>3. PICK b \in DOMAIN d[n] : c \in next[b] /\ d[p][c] = d[n][b] + toll[b][c]
    BY <1>1, <1>2
<1>4. b \in Blocks
    BY <1>2
<1>5. Improves(d, n, b)
    <2> SUFFICES ASSUME n > 0, b \in DOMAIN d[n - 1], ~(d[n][b] < d[n - 1][b]) PROVE FALSE
        BY <1>3 DEF Improves
    <2>1. PICK o \in Nat : o = n - 1 /\ n = o + 1
        OBVIOUS
    <2>2. b \in DOMAIN d[o] /\ ~(d[n][b] < d[o][b])
        BY <2>1
    <2>3. /\ c \in DOMAIN d[n] /\ d[n][c] <= d[o][b] + toll[b][c]
          /\ d[n][b] <= d[o][b]
          /\ d[o][b] \in Int
        <3>1. Lengthens(d[o], d[n], next, toll)
            BY <2>1, RoundFacts
        <3>2. c \in next[b] /\ b \in DOMAIN d[o]
            BY <1>3, <2>2
        <3>3. \A x \in DOMAIN d[o] : d[o][x] \in Int /\ d[n][x] <= d[o][x]
            BY <3>1, LengthFacts
        <3>4. \A x \in DOMAIN d[o] : \A y \in next[x] :
                y \in DOMAIN d[n] /\ d[n][y] <= d[o][x] + toll[x][y]
            BY <3>1, LengthFacts
        <3> QED BY <3>2, <3>3, <3>4
    <2>4. toll[b][c] \in Int
        <3>1. next[b] \subseteq Blocks /\ (c \in Blocks => toll[b][c] \in Int)
            BY <1>4 DEF Weighed
        <3> QED BY <1>3, <3>1
    <2>5. d[n][b] \in Int /\ d[n][c] \in Int /\ d[p][c] \in Int
        BY <1>1, <1>2, <2>3
    <2>6. d[p][c] < d[n][c]
        BY <1>1, <2>3
    <2> QED BY <1>3, <2>2, <2>3, <2>4, <2>5, <2>6
<1> QED BY <1>3, <1>4, <1>5

\* The way along which round m came to block c.
Trace(f, d, m, next, toll) ==
    /\ f \in [0..m -> Blocks]
    /\ \A i \in 0..m : Improves(d, i, f[i])
    /\ \A i \in 0..(m - 1) : /\ f[i + 1] \in next[f[i]]
                             /\ d[i + 1][f[i + 1]] = d[i][f[i]] + toll[f[i]][f[i + 1]]

LEMMA TraceExists ==
    ASSUME Graph, NEW S \in SUBSET Blocks,
           NEW next, NEW toll, Weighed(next, toll),
           NEW d, Rounds(d, S, next, toll)
    PROVE  \A m \in Nat : \A c : Improves(d, m, c) => \E f : Trace(f, d, m, next, toll)
<1> DEFINE Traced(m, c) == \E f : Trace(f, d, m, next, toll) /\ f[m] = c
           T == {m \in Nat : \A c : Improves(d, m, c) => Traced(m, c)}
<1>1. \A m \in Nat : \A x \in DOMAIN d[m] : x \in Blocks
    BY PartialFacts DEF Rounds
<1>2. 0 \in T
    <2>1. ASSUME NEW c, Improves(d, 0, c) PROVE Traced(0, c)
        <3> DEFINE f == [i \in 0..0 |-> c]
        <3>1. c \in Blocks
            BY <1>1, <2>1 DEF Improves
        <3>2. f \in [0..0 -> Blocks] /\ f[0] = c /\ \A i \in 0..0 : i = 0
            BY <3>1
        <3>3. 0..(0 - 1) = {}
            OBVIOUS
        <3> HIDE DEF f
        <3>4. \A i \in 0..0 : Improves(d, i, f[i])
            BY <2>1, <3>2
        <3>5. Trace(f, d, 0, next, toll)
            BY <3>2, <3>3, <3>4 DEF Trace
        <3> QED BY <3>2, <3>5
    <2> QED BY <2>1
<1>3. ASSUME NEW m \in Nat, m \in T PROVE m + 1 \in T
    <2>1. ASSUME NEW c, Improves(d, m + 1, c) PROVE Traced(m + 1, c)
        <3>1. PICK b \in Blocks : /\ Improves(d, m, b)
                                  /\ c \in next[b]
                                  /\ d[m + 1][c] = d[m][b] + toll[b][c]
            <4>1. PICK p \in Nat : p = m + 1
                OBVIOUS
            <4>2. Improves(d, p, c)
                BY <2>1, <4>1
            <4>3. \E b \in Blocks : Improves(d, m, b) /\ c \in next[b] /\ d[p][c] = d[m][b] + toll[b][c]
                BY <4>1, <4>2, ImprovedFrom
            <4> QED BY <4>1, <4>3
        <3>2. PICK g : Trace(g, d, m, next, toll) /\ g[m] = b
            BY <1>3, <3>1
        <3> DEFINE f == [i \in 0..(m + 1) |-> IF i = m + 1 THEN c ELSE g[i]]
        <3>3. g \in [0..m -> Blocks] /\ c \in Blocks
            <4>1. next[b] \subseteq Blocks
                BY <3>1 DEF Weighed
            <4> QED BY <3>1, <3>2, <4>1 DEF Trace
        <3>a. m + 1 \in 0..(m + 1) /\ \A i \in 0..(m + 1) : i # m + 1 => i \in 0..m
            OBVIOUS
        <3>b. /\ f \in [0..(m + 1) -> Blocks]
              /\ f[m + 1] = c
            BY <3>3, <3>a
        <3>c. \A i \in 0..m : f[i] = g[i]
            <4>1. \A i \in 0..m : i \in 0..(m + 1) /\ i # m + 1
                OBVIOUS
            <4> QED BY <4>1
        <3>4. /\ f \in [0..(m + 1) -> Blocks]
              /\ f[m + 1] = c
              /\ \A i \in 0..m : f[i] = g[i]
              /\ 0..(m + 1) = (0..m) \union {m + 1}
              /\ (m + 1) - 1 = m
              /\ \A i \in 0..m : i = m \/ i \in 0..(m - 1)
              /\ \A i \in 0..(m - 1) : i \in 0..m /\ i + 1 \in 0..m
              /\ m \in 0..m
            <4> HIDE DEF f
            <4> QED BY <3>a, <3>b, <3>c
        <3> HIDE DEF f
        <3>5. \A i \in 0..(m + 1) : Improves(d, i, f[i])
            <4> TAKE i \in 0..(m + 1)
            <4>1. CASE i = m + 1
                BY <2>1, <3>4, <4>1
            <4>2. CASE i \in 0..m
                BY <3>2, <3>4, <4>2 DEF Trace
            <4> QED BY <3>4, <4>1, <4>2
        <3>6. \A i \in 0..((m + 1) - 1) : /\ f[i + 1] \in next[f[i]]
                                          /\ d[i + 1][f[i + 1]] = d[i][f[i]] + toll[f[i]][f[i + 1]]
            <4> TAKE i \in 0..((m + 1) - 1)
            <4>1. CASE i = m
                BY <3>1, <3>2, <3>4, <4>1
            <4>2. CASE i \in 0..(m - 1)
                BY <3>2, <3>4, <4>2 DEF Trace
            <4> QED BY <3>4, <4>1, <4>2
        <3>7. Trace(f, d, m + 1, next, toll)
            BY <3>4, <3>5, <3>6 DEF Trace
        <3> QED BY <3>4, <3>7
    <2> HIDE DEF Traced
    <2> QED BY <2>1
<1>4. \A m \in Nat : m \in T
    <2> HIDE DEF T
    <2> QED BY <1>2, <1>3, NumberInduction
<1> QED BY <1>4

LEMMA SomeRepeats ==
    ASSUME Graph, NEW m \in Nat, m > Cardinality(Blocks), NEW f \in [0..m -> Blocks]
    PROVE  \E i, j \in 0..m : i < j /\ f[i] = f[j]
<1>1. IsFiniteSet(0..m) /\ Cardinality(0..m) = m + 1
    BY FS_Interval
<1>2. IsFiniteSet(Blocks) /\ Cardinality(Blocks) \in Nat
    BY GraphFacts
<1>3. Cardinality(Blocks) < Cardinality(0..m)
    BY <1>1, <1>2
<1>4. \E x, y \in 0..m : x # y /\ f[x] = f[y]
    <2> DEFINE S == 0..m
    <2>1. IsFiniteSet(S) /\ Cardinality(Blocks) < Cardinality(S) /\ f \in [S -> Blocks]
        BY <1>1, <1>3
    <2>2. \E x, y \in S : x # y /\ f[x] = f[y]
        <3> HIDE DEF S
        <3> QED BY <1>2, <2>1, FS_PigeonHole
    <2> QED BY <2>2
<1>5. PICK x \in 0..m, y \in 0..m : x # y /\ f[x] = f[y]
    BY <1>4
<1> QED BY <1>5

\* Along a way, what is paid from one of its blocks on is at least what the cheapest
\* way from that block pays.
LEMMA TraceFrom ==
    ASSUME Graph, NEW S \in SUBSET Blocks, NEW next, NEW toll, Weighed(next, toll),
           NEW d, Rounds(d, S, next, toll), NEW m \in Nat,
           NEW f, Trace(f, d, m, next, toll), NEW i \in 0..m,
           NEW g, Rounds(g, {f[i]}, next, toll), NEW k \in Nat
    PROVE  i + k <= m => /\ f[i + k] \in DOMAIN g[k]
                         /\ g[k][f[i + k]] <= d[i + k][f[i + k]] - d[i][f[i]]
<1> DEFINE Paid(t, p) == /\ f[p] \in DOMAIN g[t]
                         /\ g[t][f[p]] <= d[p][f[p]] - d[i][f[i]]
           T == {t \in Nat : i + t <= m => Paid(t, i + t)}
<1>1. /\ f \in [0..m -> Blocks]
      /\ \A p \in 0..m : f[p] \in DOMAIN d[p]
      /\ \A p \in 0..(m - 1) : /\ f[p + 1] \in next[f[p]]
                               /\ d[p + 1][f[p + 1]] = d[p][f[p]] + toll[f[p]][f[p + 1]]
    BY DEF Trace, Improves
<1>2. \A p \in 0..m : d[p][f[p]] \in Int
    <2> TAKE p \in 0..m
    <2>1. d[p] \in Partials
        BY DEF Rounds
    <2> QED BY <1>1, <2>1, PartialFacts
<1>3. 0 \in T
    <2>1. i + 0 = i /\ f[i] \in {f[i]}
        OBVIOUS
    <2>2. g[0] = [b \in {f[i]} |-> 0]
        BY DEF Rounds
    <2>3. f[i] \in DOMAIN g[0] /\ g[0][f[i]] = 0
        BY <2>2
    <2>4. Paid(0, i)
        BY <1>2, <2>3
    <2> QED BY <2>1, <2>4
<1>4. ASSUME NEW t \in Nat, t \in T PROVE t + 1 \in T
    <2> SUFFICES ASSUME i + (t + 1) <= m PROVE Paid(t + 1, i + (t + 1))
        OBVIOUS
    <2>1. PICK p \in 0..(m - 1) : p = i + t
        OBVIOUS
    <2>2. PICK q \in 0..m : q = p + 1
        OBVIOUS
    <2>3. PICK u \in Nat : u = t + 1
        OBVIOUS
    <2>4. Paid(t, p) /\ p \in 0..m /\ i + (t + 1) = q
        BY <1>4, <2>1, <2>2
    <2>5. f[q] \in next[f[p]] /\ d[q][f[q]] = d[p][f[p]] + toll[f[p]][f[q]]
        BY <1>1, <2>2
    <2>6. f[i] \in Blocks /\ f[p] \in Blocks /\ f[q] \in Blocks
        BY <1>1, <2>4
    <2>7. Lengthens(g[t], g[u], next, toll)
        <3>1. {f[i]} \in SUBSET Blocks
            BY <2>6
        <3> QED BY <2>3, <3>1, RoundFacts
    <2>8. /\ f[q] \in DOMAIN g[u]
          /\ g[u][f[q]] <= g[t][f[p]] + toll[f[p]][f[q]]
        BY <2>4, <2>5, <2>7 DEF Lengthens
    <2>9. g[u][f[q]] \in Int /\ g[t][f[p]] \in Int
        BY <2>4, <2>7, <2>8, LengthFacts
    <2>10. toll[f[p]][f[q]] \in Int
        BY <2>6 DEF Weighed
    <2>11. d[i][f[i]] \in Int /\ d[p][f[p]] \in Int /\ d[q][f[q]] \in Int
        BY <1>2, <2>4
    <2>12. g[t][f[p]] <= d[p][f[p]] - d[i][f[i]]
        BY <2>4
    <2>13. Paid(u, q)
        BY <2>5, <2>8, <2>9, <2>10, <2>11, <2>12
    <2> QED BY <2>3, <2>4, <2>13
<1>5. \A t \in Nat : t \in T
    <2> HIDE DEF T
    <2> QED BY <1>3, <1>4, NumberInduction
<1> QED BY <1>5

\* No way around that leads back to its start pays less than nothing.
Gainless(next, toll) ==
    \A x \in Blocks : \A k \in DOMAIN Cheapest({x}, next, toll) :
        x \in next[k] => Cheapest({x}, next, toll)[k] + toll[k][x] >= 0

LEMMA RoundsEnd ==
    ASSUME Graph, NEW S \in SUBSET Blocks, NEW next, NEW toll, Weighed(next, toll),
           Gainless(next, toll),
           NEW d, Rounds(d, S, next, toll), NEW m \in Nat, m = Cardinality(Blocks) + 1, NEW c
    PROVE  ~Improves(d, m, c)
<1> SUFFICES ASSUME Improves(d, m, c) PROVE FALSE
    OBVIOUS
<1> DEFINE N == Cardinality(Blocks)
<1>1. N \in Nat /\ m > N
    BY GraphFacts
<1>2. PICK f : Trace(f, d, m, next, toll)
    BY TraceExists
<1>3. /\ f \in [0..m -> Blocks]
      /\ \A p \in 0..m : Improves(d, p, f[p])
      /\ \A p \in 0..(m - 1) : /\ f[p + 1] \in next[f[p]]
                               /\ d[p + 1][f[p + 1]] = d[p][f[p]] + toll[f[p]][f[p + 1]]
    BY <1>2 DEF Trace
<1>4. PICK i \in 0..m, j \in 0..m : i < j /\ f[i] = f[j]
    BY <1>1, <1>3, SomeRepeats
<1>5. PICK o \in 0..(m - 1) : o + 1 = j /\ i <= o /\ o \in 0..m /\ j > 0 /\ j - 1 = o
    BY <1>4
<1>6. PICK k \in Nat : i + k = o /\ k <= N
    BY <1>1, <1>5
<1>7. PICK x \in Blocks : x = f[i] /\ x = f[j]
    BY <1>3, <1>4
<1>8. PICK y \in Blocks : y = f[o]
    BY <1>3, <1>5
<1>9. PICK g : Rounds(g, {x}, next, toll) /\ Cheapest({x}, next, toll) = g[N]
    <2>1. {x} \in SUBSET Blocks
        OBVIOUS
    <2> QED BY <2>1, CheapestRounds
<1>10. y \in DOMAIN g[k] /\ g[k][y] <= d[o][y] - d[i][x]
    <2>1. Rounds(g, {f[i]}, next, toll)
        BY <1>7, <1>9
    <2>2. i + k <= m
        BY <1>5, <1>6
    <2>3. /\ f[i + k] \in DOMAIN g[k]
          /\ g[k][f[i + k]] <= d[i + k][f[i + k]] - d[i][f[i]]
        BY <1>2, <2>1, <2>2, TraceFrom
    <2> QED BY <1>6, <1>7, <1>8, <2>3
<1>11. y \in DOMAIN g[N] /\ g[N][y] <= g[k][y]
    <2>1. PICK l \in Nat : k + l = N
        BY <1>1, <1>6
    <2>2. \A b \in DOMAIN g[k] : b \in DOMAIN g[k + l] /\ g[k + l][b] <= g[k][b]
        BY <1>9, RoundsImprove
    <2> QED BY <1>10, <2>1, <2>2
<1>12. x \in next[y] /\ d[j][x] = d[o][y] + toll[y][x]
    BY <1>3, <1>5, <1>7, <1>8
<1>13. g[N][y] + toll[y][x] >= 0
    BY <1>9, <1>11, <1>12 DEF Gainless
<1>14. x \in DOMAIN d[i] /\ y \in DOMAIN d[o] /\ x \in DOMAIN d[j]
    <2>1. \A p \in 0..m : f[p] \in DOMAIN d[p]
        <3> TAKE p \in 0..m
        <3>1. Improves(d, p, f[p])
            BY <1>3
        <3> QED BY <3>1 DEF Improves
    <2>2. i \in 0..m /\ j \in 0..m /\ o \in 0..m
        BY <1>5
    <2>3. f[i] \in DOMAIN d[i]
        BY <2>1, <2>2
    <2>4. f[j] \in DOMAIN d[j]
        BY <2>1, <2>2
    <2>5. f[o] \in DOMAIN d[o]
        BY <2>1, <2>2
    <2> QED BY <1>7, <1>8, <2>3, <2>4, <2>5
<1>15. x \in DOMAIN d[o] /\ d[o][x] <= d[i][x]
    <2>1. \A b \in DOMAIN d[i] : b \in DOMAIN d[i + k] /\ d[i + k][b] <= d[i][b]
        <3>1. i \in Nat
            OBVIOUS
        <3> QED BY <3>1, RoundsImprove
    <2> QED BY <1>6, <1>14, <2>1
<1>16. d[j][x] < d[o][x]
    <2>1. Improves(d, j, x)
        BY <1>3, <1>7
    <2> QED BY <1>5, <1>15, <2>1 DEF Improves
<1>17. /\ d[i][x] \in Int /\ d[o][y] \in Int /\ d[o][x] \in Int /\ d[j][x] \in Int
       /\ g[k][y] \in Int /\ g[N][y] \in Int /\ toll[y][x] \in Int
    <2>1. \A n \in Nat : \A b \in DOMAIN d[n] : d[n][b] \in Int
        BY PartialFacts DEF Rounds
    <2>2. \A n \in Nat : \A b \in DOMAIN g[n] : g[n][b] \in Int
        BY <1>9, PartialFacts DEF Rounds
    <2>3. toll[y][x] \in Int
        BY DEF Weighed
    <2>4. i \in Nat /\ j \in Nat /\ o \in Nat
        BY <1>5
    <2> QED BY <1>1, <1>10, <1>11, <1>14, <1>15, <2>1, <2>2, <2>3, <2>4
<1> QED BY <1>10, <1>11, <1>12, <1>13, <1>15, <1>16, <1>17

\* What a walk from S has paid when it is at a block, at least.
Potential(paid, S, next, toll) ==
    /\ DOMAIN paid \subseteq Blocks
    /\ \A b \in DOMAIN paid : paid[b] \in Int
    /\ \A b \in S : b \in DOMAIN paid /\ paid[b] <= 0
    /\ \A b \in DOMAIN paid : \A c \in next[b] :
          c \in DOMAIN paid /\ paid[c] <= paid[b] + toll[b][c]

\* The search stops where no step makes a way cheaper.
LEMMA CheapestFacts ==
    ASSUME Graph, NEW S \in SUBSET Blocks, NEW next, NEW toll, Weighed(next, toll),
           Gainless(next, toll)
    PROVE  Potential(Cheapest(S, next, toll), S, next, toll)
<1> DEFINE N == Cardinality(Blocks)
<1>1. N \in Nat /\ 0 + N = N
    BY GraphFacts
<1>2. PICK d : Rounds(d, S, next, toll) /\ Cheapest(S, next, toll) = d[N]
    BY CheapestRounds
<1>3. PICK m \in Nat : m = N + 1
    BY <1>1
<1>4. Lengthens(d[N], d[m], next, toll)
    BY <1>1, <1>2, <1>3, RoundFacts
<1>5. /\ \A b \in DOMAIN d[N] : d[N][b] \in Int /\ b \in Blocks
      /\ \A b \in DOMAIN d[m] : d[m][b] \in Int
    BY <1>4, LengthFacts
<1>6. \A b \in S : b \in DOMAIN d[N] /\ d[N][b] <= 0
    <2>1. \A b \in DOMAIN d[0] : b \in DOMAIN d[0 + N] /\ d[0 + N][b] <= d[0][b]
        BY <1>1, <1>2, RoundsImprove
    <2>2. d[0] = [b \in S |-> 0]
        BY <1>2 DEF Rounds
    <2> HIDE DEF N
    <2> QED BY <1>1, <2>1, <2>2
<1>7. ASSUME NEW b \in DOMAIN d[N], NEW c \in next[b]
      PROVE  c \in DOMAIN d[N] /\ d[N][c] <= d[N][b] + toll[b][c]
    <2>1. c \in DOMAIN d[m] /\ d[m][c] <= d[N][b] + toll[b][c]
        BY <1>4, <1>7 DEF Lengthens
    <2>2. ~Improves(d, m, c)
        BY <1>2, <1>3, RoundsEnd
    <2>3. m > 0 /\ m - 1 = N
        BY <1>1, <1>3
    <2>4. c \in DOMAIN d[N] /\ ~(d[m][c] < d[N][c])
        BY <2>1, <2>2, <2>3 DEF Improves
    <2>5. d[m][c] \in Int /\ d[N][c] \in Int /\ d[N][b] \in Int /\ toll[b][c] \in Int
        <3>1. b \in Blocks /\ c \in Blocks
            BY <1>5, <1>7, <2>4
        <3>2. toll[b][c] \in Int
            BY <3>1 DEF Weighed
        <3> QED BY <1>5, <1>7, <2>1, <2>4, <3>2
    <2> QED BY <2>1, <2>4, <2>5
<1> HIDE DEF N
<1> QED BY <1>2, <1>5, <1>6, <1>7 DEF Potential

\* Nothing pays less than nothing where no step does.
LEMMA NothingIsGained ==
    ASSUME Graph, NEW S \in SUBSET Blocks, NEW next, NEW toll, Weighed(next, toll),
           \A b, c \in Blocks : toll[b][c] >= 0
    PROVE  \A b \in DOMAIN Cheapest(S, next, toll) : Cheapest(S, next, toll)[b] >= 0
<1> DEFINE N == Cardinality(Blocks)
<1>1. N \in Nat
    BY GraphFacts
<1>2. PICK d : Rounds(d, S, next, toll) /\ Cheapest(S, next, toll) = d[N]
    BY CheapestRounds
<1> DEFINE T == {n \in Nat : \A b \in DOMAIN d[n] : d[n][b] >= 0}
<1>3. 0 \in T
    <2>1. d[0] = [b \in S |-> 0]
        BY <1>2 DEF Rounds
    <2> QED BY <2>1
<1>4. ASSUME NEW n \in Nat, n \in T PROVE n + 1 \in T
    <2>1. PICK p \in Nat : p = n + 1
        OBVIOUS
    <2>2. Lengthens(d[n], d[p], next, toll)
        BY <1>2, <2>1, RoundFacts
    <2>3. ASSUME NEW c \in DOMAIN d[p] PROVE d[p][c] >= 0
        <3>1. CASE c \in DOMAIN d[n] /\ d[p][c] = d[n][c]
            BY <1>4, <3>1
        <3>2. CASE \E b \in DOMAIN d[n] : c \in next[b] /\ d[p][c] = d[n][b] + toll[b][c]
            <4>1. PICK b \in DOMAIN d[n] : c \in next[b] /\ d[p][c] = d[n][b] + toll[b][c]
                BY <3>2
            <4>2. d[n][b] >= 0 /\ d[n][b] \in Int /\ b \in Blocks /\ c \in Blocks
                BY <1>4, <2>2, LengthFacts
            <4>3. toll[b][c] \in Int /\ toll[b][c] >= 0
                BY <4>2 DEF Weighed
            <4> QED BY <4>1, <4>2, <4>3
        <3> QED BY <2>2, <3>1, <3>2 DEF Lengthens
    <2> QED BY <2>1, <2>3
<1>5. \A n \in Nat : n \in T
    <2> HIDE DEF T
    <2> QED BY <1>3, <1>4, NumberInduction
<1> QED BY <1>1, <1>2, <1>5

LEMMA TollsAreGainless ==
    ASSUME Graph, NEW next, NEW toll, Weighed(next, toll),
           \A b, c \in Blocks : toll[b][c] >= 0
    PROVE  Gainless(next, toll)
<1> SUFFICES ASSUME NEW x \in Blocks, NEW k \in DOMAIN Cheapest({x}, next, toll), x \in next[k]
             PROVE  Cheapest({x}, next, toll)[k] + toll[k][x] >= 0
    BY DEF Gainless
<1>1. PICK d : Rounds(d, {x}, next, toll) /\ Cheapest({x}, next, toll) = d[Cardinality(Blocks)]
    BY CheapestRounds
<1>2. k \in Blocks /\ Cheapest({x}, next, toll)[k] \in Int
    <2>1. d[Cardinality(Blocks)] \in Partials
        BY <1>1, GraphFacts DEF Rounds
    <2> QED BY <1>1, <2>1, PartialFacts
<1>3. Cheapest({x}, next, toll)[k] >= 0
    BY NothingIsGained
<1>4. toll[k][x] \in Int /\ toll[k][x] >= 0
    BY <1>2 DEF Weighed
<1> QED BY <1>2, <1>3, <1>4

-----------------------------------------------------------------------------
(* Charges.                                                                *)

IsCost(c) == c \in [least : Nat, most : Nat \union {Unbounded}]

LEMMA PlusFacts ==
    \A a, b : IsCost(a) /\ IsCost(b) =>
        /\ IsCost(Plus(a, b))
        /\ Plus(a, b).least = a.least + b.least
        /\ Plus(a, b).most # Unbounded =>
              a.most # Unbounded /\ b.most # Unbounded /\ Plus(a, b).most = a.most + b.most
<1> SUFFICES ASSUME NEW a, NEW b, IsCost(a), IsCost(b)
             PROVE  /\ IsCost(Plus(a, b))
                    /\ Plus(a, b).least = a.least + b.least
                    /\ Plus(a, b).most # Unbounded =>
                          /\ a.most # Unbounded /\ b.most # Unbounded
                          /\ Plus(a, b).most = a.most + b.most
    OBVIOUS
<1>1. /\ a.least \in Nat /\ b.least \in Nat
      /\ a.most \in Nat \union {-1} /\ b.most \in Nat \union {-1}
    BY DEF IsCost, Unbounded
<1> QED BY <1>1 DEF IsCost, Unbounded, Plus, Cost

\* A block executes something, and everything costs something.
LEMMA BlockCostFacts ==
    ASSUME IsProgram(prog), prog \in Programs, NEW b \in All
    PROVE  /\ IsCost(BlockCost(b))
           /\ BlockCost(b).least >= 1
           /\ BlockCost(b).most # Unbounded => BlockCost(b).least <= BlockCost(b).most
<1> DEFINE N == Len(prog[b])
           D == {c \in [least : Nat, most : Nat \union {Unbounded}] :
                    c.most # Unbounded => c.least <= c.most}
           G == [x \in (1..N) \X D |-> Plus(x[2], OpCost(prog[b][x[1]]))]
           F(f) == [i \in 0..N |-> IF i = 0 THEN Free ELSE Plus(f[i - 1], OpCost(prog[b][i]))]
           paid == CHOOSE f : f = F(f)
<1>1. N \in Nat \ {0} /\ b \in DOMAIN prog /\ DOMAIN prog[b] = 1..N
    BY ProgramFacts
<1>2. \A i \in 1..N : /\ OpCost(prog[b][i]) \in D
                      /\ OpCost(prog[b][i]).least >= 1
    <2> TAKE i \in 1..N
    <2>1. i \in DOMAIN prog[b]
        BY <1>1
    <2> DEFINE cost == OpCost(prog[b][i])
    <2>2. /\ cost \in [least : Nat \ {0}, most : Nat \union {Unbounded}]
          /\ cost.most # Unbounded => cost.least <= cost.most
        BY <1>1, <2>1, ChargesAreCosts
    <2> HIDE DEF cost
    <2>3. cost \in D /\ cost.least >= 1
        BY <2>2 DEF Unbounded
    <2> QED BY <2>3 DEF cost
<1>3. \A c, o \in D : Plus(c, o) \in D /\ Plus(c, o).least = c.least + o.least
    <2> TAKE c, o \in D
    <2>1. IsCost(c) /\ IsCost(o)
        BY DEF IsCost
    <2>2. /\ IsCost(Plus(c, o))
          /\ Plus(c, o).least = c.least + o.least
          /\ Plus(c, o).most # Unbounded =>
                c.most # Unbounded /\ o.most # Unbounded /\ Plus(c, o).most = c.most + o.most
        BY <2>1, PlusFacts
    <2>3. /\ c.least \in Nat /\ o.least \in Nat
          /\ c.most # Unbounded => c.most \in Nat /\ c.least <= c.most
          /\ o.most # Unbounded => o.most \in Nat /\ o.least <= o.most
        OBVIOUS
    <2>4. Plus(c, o).most # Unbounded => Plus(c, o).least <= Plus(c, o).most
        BY <2>2, <2>3
    <2> QED BY <2>2, <2>4 DEF IsCost
<1>4. Free \in D
    BY DEF Free, Cost
<1>5. PICK f \in [0..N -> D] : StepByStep(f, Free, N, G)
    <2>1. G \in [(1..N) \X D -> D]
        <3>1. \A x \in (1..N) \X D : Plus(x[2], OpCost(prog[b][x[1]])) \in D
            <4> TAKE x \in (1..N) \X D
            <4>1. x[1] \in 1..N /\ x[2] \in D
                OBVIOUS
            <4> HIDE DEF D, N
            <4> QED BY <1>2, <1>3, <4>1
        <3> HIDE DEF D, N
        <3> QED BY <3>1
    <2> HIDE DEF G, D, N
    <2> QED BY <1>1, <1>4, <2>1, RecursionUpTo
<1>6. f = F(f)
    <2>1. f[0] = Free /\ \A n \in 1..N : f[n] = G[<<n, f[n - 1]>>]
        BY <1>5 DEF StepByStep
    <2>2. ASSUME NEW i \in 0..N PROVE f[i] = F(f)[i]
        <3>1. CASE i = 0
            BY <2>1, <3>1
        <3>2. CASE i # 0
            <4>1. i \in 1..N /\ i - 1 \in 0..N
                BY <1>1, <3>2
            <4>2. f[i - 1] \in D
                <5> HIDE DEF D, N
                <5> QED BY <1>5, <4>1
            <4>3. <<i, f[i - 1]>> \in (1..N) \X D
                <5> HIDE DEF D, N
                <5> QED BY <4>1, <4>2
            <4>4. G[<<i, f[i - 1]>>] = Plus(f[i - 1], OpCost(prog[b][i]))
                <5> HIDE DEF D, N
                <5> QED BY <4>3
            <4> HIDE DEF G, D
            <4> QED BY <2>1, <3>2, <4>1, <4>4
        <3> QED BY <3>1, <3>2
    <2> HIDE DEF D, N
    <2> QED BY <1>5, <2>2
<1>7. paid = F(paid)
    <2> HIDE DEF F
    <2> QED BY <1>6
<1>8. BlockCost(b) = paid[N]
    BY DEF BlockCost
<1> HIDE DEF paid
<1> DEFINE T == {n \in Nat : n \in 1..N => paid[n] \in D /\ paid[n].least >= 1}
<1>9. paid[0] = Free /\ \A n \in 1..N : paid[n] = Plus(paid[n - 1], OpCost(prog[b][n]))
    <2>1. 0 \in 0..N /\ \A n \in 1..N : n \in 0..N /\ n # 0
        BY <1>1
    <2> HIDE DEF N
    <2> QED BY <1>7, <2>1
<1>10. \A n \in Nat : n \in T
    <2>1. 0 \in T
        OBVIOUS
    <2>2. ASSUME NEW n \in Nat, n \in T PROVE n + 1 \in T
        <3> SUFFICES ASSUME n + 1 \in 1..N PROVE paid[n + 1] \in D /\ paid[n + 1].least >= 1
            OBVIOUS
        <3>1. PICK p \in 1..N : p = n + 1 /\ p - 1 = n
            OBVIOUS
        <3>2. paid[p] = Plus(paid[n], OpCost(prog[b][p]))
            BY <1>9, <3>1
        <3>3. paid[n] \in D
            <4>1. CASE n = 0
                BY <1>4, <1>9, <4>1
            <4>2. CASE n # 0
                <5>1. n \in 1..N
                    BY <1>1, <3>1, <4>2
                <5> QED BY <2>2, <5>1
            <4> QED BY <4>1, <4>2
        <3> DEFINE o == OpCost(prog[b][p])
        <3>4. o \in D /\ o.least >= 1
            BY <1>2
        <3>5. paid[p] \in D /\ paid[p].least = paid[n].least + o.least
            <4> HIDE DEF D, o
            <4>1. Plus(paid[n], o) \in D /\ Plus(paid[n], o).least = paid[n].least + o.least
                BY <1>3, <3>3, <3>4
            <4> QED BY <3>2, <4>1 DEF o
        <3>6. paid[n].least \in Nat /\ o.least \in Nat
            <4> HIDE DEF o
            <4> QED BY <3>3, <3>4
        <3>7. paid[p].least >= 1
            <4> HIDE DEF D, o
            <4> QED BY <3>4, <3>5, <3>6
        <3> QED BY <3>1, <3>5, <3>7
    <2> HIDE DEF T
    <2> QED BY <2>1, <2>2, NumberInduction
<1>11. N \in 1..N
    BY <1>1
<1>12. paid[N] \in D /\ paid[N].least >= 1
    <2> HIDE DEF D
    <2> QED BY <1>1, <1>10, <1>11
<1>13. BlockCost(b) \in D /\ BlockCost(b).least >= 1
    <2> HIDE DEF D
    <2> QED BY <1>8, <1>12
<1> QED BY <1>13 DEF IsCost

ChargeTypes ==
    /\ DOMAIN charges \subseteq Entries
    /\ \A e \in DOMAIN charges : IsCost(charges[e])

LEMMA KnownFacts ==
    ASSUME ChargeTypes, NEW e
    PROVE  IsCost(Known(e))
BY DEF ChargeTypes, Known, Unknown, Cost, IsCost

LEMMA ThroughFacts ==
    ASSUME Graph, ChargeTypes, NEW b \in Blocks
    PROVE  /\ IsCost(BlockCost(b)) /\ BlockCost(b).least >= 1
           /\ BlockCost(b).most # Unbounded => BlockCost(b).least <= BlockCost(b).most
           /\ IsCost(Through(b))
           /\ b \notin Callsubs => Through(b) = BlockCost(b)
           /\ b \in Callsubs =>
                 /\ Through(b).least = BlockCost(b).least + Known(CallTarget(b)).least
                 /\ Through(b).most # Unbounded =>
                       /\ BlockCost(b).most # Unbounded
                       /\ Known(CallTarget(b)).most # Unbounded
                       /\ Through(b).most = BlockCost(b).most + Known(CallTarget(b)).most
<1>1. b \in All /\ IsProgram(prog) /\ prog \in Programs
    BY GraphFacts DEF Graph
<1>2. /\ IsCost(BlockCost(b)) /\ BlockCost(b).least >= 1
      /\ BlockCost(b).most # Unbounded => BlockCost(b).least <= BlockCost(b).most
    BY <1>1, BlockCostFacts
<1>3. CASE b \notin Callsubs
    <2>1. Through(b) = BlockCost(b)
        BY <1>3 DEF Through, Callsubs
    <2> QED BY <1>2, <1>3, <2>1
<1>4. CASE b \in Callsubs
    <2>1. Through(b) = Plus(BlockCost(b), Known(CallTarget(b)))
        BY <1>4 DEF Through, Callsubs
    <2>2. IsCost(Known(CallTarget(b)))
        BY KnownFacts
    <2> QED BY <1>2, <1>4, <2>1, <2>2, PlusFacts
<1> QED BY <1>3, <1>4

LEMMA ChargeFacts ==
    ASSUME Graph, ChargeTypes
    PROVE  /\ Charge \in [Blocks -> [Blocks -> Int]]
           /\ \A b, c \in Blocks : Charge[b][c] >= 0
           /\ \A b, c \in Blocks : Charge[b][c] = Through(b).least
<1>1. \A b \in Blocks : Through(b).least \in Nat
    BY ThroughFacts DEF IsCost
<1>2. \A b, c \in Blocks : Charge[b][c] = Through(b).least
    BY DEF Charge
<1> QED BY <1>1, <1>2 DEF Charge

-----------------------------------------------------------------------------
(* What a routine charges.                                                 *)

\* The search stays where its steps lead.
LEMMA CheapestWithin ==
    ASSUME Graph, NEW S \in SUBSET Blocks, NEW next, NEW toll, Weighed(next, toll),
           NEW K, S \subseteq K, \A b \in K \cap Blocks : next[b] \subseteq K
    PROVE  DOMAIN Cheapest(S, next, toll) \subseteq K
<1>1. PICK d : Rounds(d, S, next, toll) /\ Cheapest(S, next, toll) = d[Cardinality(Blocks)]
    BY CheapestRounds
<1> DEFINE T == {n \in Nat : DOMAIN d[n] \subseteq K}
<1>2. 0 \in T
    <2>1. d[0] = [b \in S |-> 0]
        BY <1>1 DEF Rounds
    <2> QED BY <2>1
<1>3. ASSUME NEW n \in Nat, n \in T PROVE n + 1 \in T
    <2>1. PICK p \in Nat : p = n + 1
        OBVIOUS
    <2>2. Lengthens(d[n], d[p], next, toll)
        BY <1>1, <2>1, RoundFacts
    <2>3. /\ DOMAIN d[p] = DOMAIN d[n] \union UNION {next[b] : b \in DOMAIN d[n]}
          /\ \A b \in DOMAIN d[n] : b \in Blocks
        <3>1. DOMAIN d[p] = DOMAIN d[n] \union UNION {next[b] : b \in DOMAIN d[n]}
            BY <2>2 DEF Lengthens
        <3>2. \A b \in DOMAIN d[n] : b \in Blocks
            BY <2>2, LengthFacts
        <3> QED BY <3>1, <3>2
    <2>4. \A b \in DOMAIN d[n] : next[b] \subseteq K
        BY <1>3, <2>3
    <2> QED BY <1>3, <2>1, <2>3, <2>4
<1>4. \A n \in Nat : n \in T
    <2> HIDE DEF T
    <2> QED BY <1>2, <1>3, NumberInduction
<1> QED BY <1>1, <1>4, GraphFacts

LEMMA RouteFacts ==
    ASSUME Graph, IdentifiedTypes, phase # "identify", NEW e \in Entries
    PROVE  /\ Routes(e) \in [Blocks -> SUBSET Blocks]
           /\ \A b \in Blocks : Routes(e)[b] = BodyFlow(e, b) /\ BodyFlow(e, b) \subseteq bodies[e]
           /\ bodies[e] \subseteq Blocks /\ e \in bodies[e] /\ e \in Blocks
<1>1. bodies[e] \subseteq Blocks /\ e \in bodies[e]
    BY DEF IdentifiedTypes
<1>2. \A b : BodyFlow(e, b) \subseteq bodies[e]
    BY DEF BodyFlow
<1> QED BY <1>1, <1>2 DEF Routes

LEMMA CanReturnFacts ==
    ASSUME Graph, IdentifiedTypes, phase # "identify", NEW e \in Entries
    PROVE  /\ CanReturn(e) \subseteq Blocks
           /\ bodies[e] \cap Retsubs \subseteq CanReturn(e)
           /\ \A b \in bodies[e] : \A c \in BodyFlow(e, b) : c \in CanReturn(e) => b \in CanReturn(e)
           /\ \A r \in Retsubs : r \in Closure({e}, Routes(e)) => e \in CanReturn(e)
<1>1. /\ Routes(e) \in [Blocks -> SUBSET Blocks]
      /\ \A b \in Blocks : Routes(e)[b] = BodyFlow(e, b)
      /\ bodies[e] \subseteq Blocks /\ e \in bodies[e]
    BY RouteFacts
<1>2. IsProgram(prog) /\ Blocks \subseteq All
    BY GraphFacts
<1> DEFINE next == Routes(e)
<1>3. ASSUME NEW b \in Blocks
      PROVE  /\ b \in Closure({b}, next)
             /\ \A k \in Closure({b}, next) : next[k] \subseteq Closure({b}, next)
             /\ \A K : b \in K /\ (\A k \in K \cap Blocks : next[k] \subseteq K) => Closure({b}, next) \subseteq K
    <2> DEFINE S == {b}
    <2>1. S \in SUBSET Blocks /\ next \in [Blocks -> SUBSET Blocks] /\ Blocks \in SUBSET All
        BY <1>1, <1>2
    <2> HIDE DEF S, next
    <2>2. /\ S \subseteq Closure(S, next)
          /\ \A k \in Closure(S, next) : next[k] \subseteq Closure(S, next)
          /\ \A K : /\ S \subseteq K
                    /\ \A k \in K \cap Blocks : next[k] \subseteq K
                    => Closure(S, next) \subseteq K
        BY <1>2, <2>1, ClosureIn
    <2> QED BY <2>2 DEF S
<1>4. ASSUME NEW b \in bodies[e], NEW c \in BodyFlow(e, b), c \in CanReturn(e) PROVE b \in CanReturn(e)
    <2>1. b \in Blocks /\ c \in next[b] /\ c \in Blocks
        BY <1>1, <1>4
    <2>2. c \in Closure({b}, next)
        BY <1>3, <2>1
    <2>3. Closure({c}, next) \subseteq Closure({b}, next)
        <3> DEFINE K == Closure({b}, next)
        <3>1. c \in K /\ \A k \in K \cap Blocks : next[k] \subseteq K
            BY <1>3, <2>1, <2>2
        <3> HIDE DEF K, next
        <3>2. Closure({c}, next) \subseteq K
            BY <1>3, <2>1, <3>1
        <3> QED BY <3>2 DEF K
    <2> QED BY <1>4, <2>3 DEF CanReturn
<1>5. bodies[e] \cap Retsubs \subseteq CanReturn(e)
    <2>1. \A b \in bodies[e] : b \in Closure({b}, Routes(e))
        BY <1>1, <1>3
    <2> QED BY <2>1 DEF CanReturn
<1> QED BY <1>1, <1>4, <1>5 DEF CanReturn

\* Steps inside e, and what they charge.
LEMMA RoutesAreWeighed ==
    ASSUME Graph, IdentifiedTypes, phase # "identify", ChargeTypes, NEW e \in Entries
    PROVE  Weighed(Routes(e), Charge) /\ Gainless(Routes(e), Charge)
<1>1. Weighed(Routes(e), Charge)
    BY RouteFacts, ChargeFacts DEF Weighed
<1> QED BY <1>1, ChargeFacts, TollsAreGainless

Before0(e)  == Cheapest({e}, Routes(e), Charge)
Returns(e)  == DOMAIN Before0(e) \cap Retsubs
Counted(e)  == Returns(e) # {} /\ Acyclic(CanReturn(e), Routes(e))
                 /\ \A b \in CanReturn(e) : Through(b).most # Unbounded

LEMMA LeastOfReturns ==
    ASSUME Graph, IdentifiedTypes, phase # "identify", ChargeTypes, NEW e \in Entries
    PROVE  /\ Potential(Before0(e), {e}, Routes(e), Charge)
           /\ \A b \in DOMAIN Before0(e) : Before0(e)[b] >= 0
           /\ RoutineCost(e).least \in Nat
           /\ \A r \in Returns(e) : RoutineCost(e).least <= Before0(e)[r] + BlockCost(r).least
           /\ RoutineCost(e).most = IF Counted(e) THEN Dearest(e) ELSE Unbounded
           /\ Returns(e) # {} => e \in CanReturn(e)
<1> DEFINE before == Before0(e)
           paths == CanReturn(e)
           S == {e}
           total(r) == before[r] + Through(r).least
           sums == {total(r) : r \in Returns(e)}
<1>1. e \in Blocks /\ S \in SUBSET Blocks
    BY RouteFacts
<1>2. Weighed(Routes(e), Charge) /\ Gainless(Routes(e), Charge)
    BY RoutesAreWeighed
<1>3. before = Cheapest(S, Routes(e), Charge)
    BY DEF Before0
<1>4. Potential(before, S, Routes(e), Charge)
    <2> HIDE DEF before, S
    <2> QED BY <1>1, <1>2, <1>3, CheapestFacts
<1>5. \A b \in DOMAIN before : before[b] >= 0 /\ before[b] \in Int /\ b \in Blocks
    <2>1. \A b, c \in Blocks : Charge[b][c] >= 0
        BY ChargeFacts
    <2>2. \A b \in DOMAIN before : before[b] >= 0
        <3> HIDE DEF before, S
        <3> QED BY <1>1, <1>2, <1>3, <2>1, NothingIsGained
    <2> QED BY <1>4, <2>2 DEF Potential
<1>6. \A r \in Returns(e) : total(r) \in Nat /\ total(r) = before[r] + BlockCost(r).least
    <2> TAKE r \in Returns(e)
    <2>1. r \in Blocks /\ r \in Retsubs /\ before[r] \in Nat
        BY <1>5 DEF Returns
    <2>2. r \notin Callsubs
        BY <2>1 DEF Retsubs, Callsubs
    <2>3. Through(r) = BlockCost(r) /\ Through(r).least \in Nat
        BY <2>1, <2>2, ThroughFacts DEF IsCost
    <2> QED BY <2>1, <2>3
<1>7. RoutineCost(e) = IF Returns(e) = {} THEN Unknown
                       ELSE Cost(Min(sums), IF /\ Acyclic(paths, Routes(e))
                                               /\ \A b \in paths : Through(b).most # Unbounded
                                            THEN Dearest(e) ELSE Unbounded)
    BY DEF RoutineCost, Returns, Before0
<1>8. RoutineCost(e).most = IF Counted(e) THEN Dearest(e) ELSE Unbounded
    BY <1>7 DEF Counted, Cost, Unknown
<1>9. CASE Returns(e) = {}
    <2>1. RoutineCost(e).least = 0
        BY <1>7, <1>9 DEF Unknown, Cost
    <2> HIDE DEF before
    <2> QED BY <1>4, <1>5, <1>8, <1>9, <2>1 DEF before
<1>10. CASE Returns(e) # {}
    <2>1. IsFiniteSet(Returns(e))
        BY <1>5, GraphFacts, FS_Subset DEF Returns
    <2>2. sums \in SUBSET Int /\ IsFiniteSet(sums) /\ sums # {}
        <3> DEFINE f == [r \in Returns(e) |-> total(r)]
        <3>1. sums = {f[r] : r \in Returns(e)}
            OBVIOUS
        <3>2. IsFiniteSet({f[r] : r \in Returns(e)})
            <4> HIDE DEF f
            <4> QED BY <2>1, ImageIsFinite
        <3>3. sums \in SUBSET Int
            <4> HIDE DEF total
            <4> QED BY <1>6
        <3>4. sums # {}
            <4> HIDE DEF total
            <4> QED BY <1>10
        <3> QED BY <3>1, <3>2, <3>3, <3>4
    <2>3. Min(sums) \in sums /\ \A y \in sums : Min(sums) <= y
        <3> HIDE DEF sums
        <3> QED BY <2>2, MinFacts
    <2>4. RoutineCost(e).least = Min(sums)
        BY <1>7, <1>10 DEF Cost
    <2>5. RoutineCost(e).least \in Nat
        <3> HIDE DEF total
        <3> QED BY <1>6, <2>3, <2>4
    <2>6. \A r \in Returns(e) : RoutineCost(e).least <= before[r] + BlockCost(r).least
        <3> TAKE r \in Returns(e)
        <3>1. total(r) \in sums
            OBVIOUS
        <3> HIDE DEF total, sums
        <3> QED BY <1>6, <2>3, <2>4, <3>1
    <2>7. e \in CanReturn(e)
        <3>1. PICK r \in Retsubs : r \in DOMAIN before
            BY <1>10 DEF Returns
        <3> DEFINE K == Closure(S, Routes(e))
        <3>2. S \subseteq K /\ \A b \in K : Routes(e)[b] \subseteq K
            <4>1. IsProgram(prog) /\ Blocks \in SUBSET All /\ Routes(e) \in [Blocks -> SUBSET Blocks]
                BY GraphFacts, RouteFacts
            <4> HIDE DEF S
            <4> QED BY <1>1, <4>1, ClosureIn
        <3>3. DOMAIN before \subseteq K
            <4> HIDE DEF K, S, before
            <4> QED BY <1>1, <1>2, <1>3, <3>2, CheapestWithin
        <3>4. r \in Closure({e}, Routes(e))
            BY <3>1, <3>3
        <3> QED BY <3>1, <3>4, CanReturnFacts
    <2> HIDE DEF before
    <2> QED BY <1>4, <1>5, <1>8, <2>5, <2>6, <2>7 DEF before
<1> QED BY <1>9, <1>10

\* Where no cycle is, each block on the way has fewer after it than before it, and as
\* many rounds as there are blocks find the dearest way.
LEMMA DearestFacts ==
    ASSUME Graph, IdentifiedTypes, phase # "identify", ChargeTypes, NEW e \in Entries,
           Acyclic(CanReturn(e), Routes(e)), e \in CanReturn(e),
           \A b \in CanReturn(e) : Through(b).most # Unbounded
    PROVE  \E m \in [CanReturn(e) -> Nat] :
               /\ m[e] = Dearest(e)
               /\ \A b \in CanReturn(e) :
                     /\ Through(b).most <= m[b]
                     /\ \A c \in CanReturn(e) \cap BodyFlow(e, b) : Through(b).most + m[c] <= m[b]
<1> DEFINE S == CanReturn(e)
           N == Cardinality(S)
           D == [S -> Nat]
           Best(m, b) == Max({0} \union {m[c] : c \in S \cap BodyFlow(e, b)})
           step(m) == [b \in S |-> Through(b).most + Best(m, b)]
           G == [m \in D |-> step(m)]
           A == [b \in S |-> 0]
           F(f) == [n \in Nat |-> IF n = 0 THEN A ELSE step(f[n - 1])]
           most == CHOOSE f : f = F(f)
<1>1. S \subseteq Blocks /\ IsFiniteSet(S) /\ N \in Nat /\ IsFiniteSet(Blocks)
    <2>1. S \subseteq Blocks
        BY CanReturnFacts
    <2>2. IsFiniteSet(S) /\ IsFiniteSet(Blocks)
        BY <2>1, GraphFacts, FS_Subset
    <2> QED BY <2>1, <2>2, FS_CardinalityType
<1>2. \A b \in S : Through(b).most \in Nat
    <2> TAKE b \in S
    <2>1. IsCost(Through(b)) /\ Through(b).most # Unbounded
        BY <1>1, ThroughFacts
    <2> QED BY <2>1 DEF IsCost
<1>3. ASSUME NEW m \in D, NEW b \in S
      PROVE  /\ Best(m, b) \in Nat
             /\ \A c \in S \cap BodyFlow(e, b) : m[c] <= Best(m, b)
    <2> DEFINE next == S \cap BodyFlow(e, b)
               Z == {m[c] : c \in next}
               V == {0} \union Z
    <2>1. IsFiniteSet(Z)
        <3>1. IsFiniteSet(next)
            BY <1>1, FS_Subset
        <3> HIDE DEF next
        <3> QED BY <3>1, ImageIsFinite
    <2>2. IsFiniteSet(V) /\ V \in SUBSET Nat /\ V # {}
        <3>1. \A c \in next : m[c] \in Nat
            BY <1>3
        <3>2. Z \in SUBSET Nat
            <4> HIDE DEF next
            <4> QED BY <3>1
        <3>3. IsFiniteSet({0} \union Z)
            <4> HIDE DEF Z
            <4> QED BY <2>1, FS_Singleton, FS_Union
        <3> HIDE DEF Z
        <3> QED BY <3>2, <3>3
    <2>3. Max(V) \in V /\ \A y \in V : y <= Max(V)
        <3>1. V \in SUBSET Int
            <4> HIDE DEF V
            <4> QED BY <2>2
        <3> HIDE DEF V
        <3> QED BY <2>2, <3>1, MaxFacts
    <2>4. Best(m, b) = Max(V)
        OBVIOUS
    <2>5. \A c \in next : m[c] \in V
        OBVIOUS
    <2> HIDE DEF V, Best
    <2> QED BY <2>2, <2>3, <2>4, <2>5
<1>4. ASSUME NEW m \in D PROVE step(m) \in D /\ \A b \in S : step(m)[b] = Through(b).most + Best(m, b)
    <2>1. \A b \in S : Through(b).most + Best(m, b) \in Nat
        <3> HIDE DEF Best, S, D
        <3> QED BY <1>2, <1>3, <1>4
    <2> HIDE DEF Best, S
    <2> QED BY <2>1
<1>5. A \in D
    OBVIOUS
<1>6. PICK f \in [Nat -> D] : f[0] = A /\ \A n \in Nat : f[n + 1] = G[f[n]]
    <2>1. G \in [D -> D]
        <3> HIDE DEF step, D
        <3> QED BY <1>4
    <2> HIDE DEF A, G, D
    <2>2. \E f \in [Nat -> D] : Iterates(f, A, G)
        BY <1>5, <2>1, IterationExists
    <2> QED BY <2>2 DEF Iterates
<1> HIDE DEF A
<1>7. f = F(f)
    <2>1. ASSUME NEW n \in Nat PROVE f[n] = F(f)[n]
        <3>1. CASE n = 0
            BY <1>6, <3>1
        <3>2. CASE n # 0
            <4>1. n - 1 \in Nat /\ (n - 1) + 1 = n
                BY <3>2
            <4>2. f[n] = G[f[n - 1]] /\ f[n - 1] \in D
                BY <1>6, <4>1
            <4> HIDE DEF step, D
            <4> QED BY <3>2, <4>2
        <3> QED BY <3>1, <3>2
    <2> HIDE DEF step, D
    <2> QED BY <1>6, <2>1
<1>8. most = F(most)
    <2> HIDE DEF F
    <2> QED BY <1>7
<1>9. Dearest(e) = most[N][e]
    BY DEF Dearest, A
<1> HIDE DEF most
<1>10. most[0] = A /\ \A n \in Nat : most[n + 1] = step(most[n])
    <2>1. \A n \in Nat : n + 1 \in Nat /\ n + 1 # 0 /\ (n + 1) - 1 = n
        OBVIOUS
    <2> HIDE DEF step
    <2> QED BY <1>8, <2>1
<1>11. \A n \in Nat : most[n] \in D
    <2> DEFINE T == {n \in Nat : most[n] \in D}
    <2>1. 0 \in T
        BY <1>5, <1>10
    <2>2. ASSUME NEW n \in Nat, n \in T PROVE n + 1 \in T
        <3> HIDE DEF step, D
        <3> QED BY <1>4, <1>10, <2>2
    <2>3. \A n \in Nat : n \in T
        <3> HIDE DEF T
        <3> QED BY <2>1, <2>2, NumberInduction
    <2> QED BY <2>3
<1> DEFINE next == [k \in Blocks |-> S \cap Routes(e)[k]]
           reach(b) == Closure(S \cap Routes(e)[b], next)
           rank(b) == Cardinality(reach(b))
<1>12. \A b \in S : Routes(e)[b] = BodyFlow(e, b)
    BY <1>1, RouteFacts
<1>13. ASSUME NEW b \in S
       PROVE  /\ reach(b) \subseteq S
              /\ b \notin reach(b)
              /\ \A c \in S \cap BodyFlow(e, b) : c \in reach(b) /\ reach(c) \subseteq reach(b)
    <2>1. IsProgram(prog) /\ Blocks \in SUBSET All /\ next \in [Blocks -> SUBSET Blocks]
        BY <1>1, GraphFacts
    <2>2. ASSUME NEW k \in S
          PROVE  /\ S \cap Routes(e)[k] \subseteq reach(k)
                 /\ \A j \in reach(k) : next[j] \subseteq reach(k)
                 /\ reach(k) \subseteq Blocks
                 /\ \A K : /\ S \cap Routes(e)[k] \subseteq K
                           /\ \A j \in K \cap Blocks : next[j] \subseteq K
                           => reach(k) \subseteq K
        <3> DEFINE I == S \cap Routes(e)[k]
        <3>1. I \in SUBSET Blocks
            BY <1>1
        <3>2. reach(k) = Closure(I, next)
            OBVIOUS
        <3> HIDE DEF I, next, reach
        <3>3. /\ Closure(I, next) \subseteq Blocks
              /\ I \subseteq Closure(I, next)
              /\ \A j \in Closure(I, next) : next[j] \subseteq Closure(I, next)
              /\ \A K : /\ I \subseteq K
                        /\ \A j \in K \cap Blocks : next[j] \subseteq K
                        => Closure(I, next) \subseteq K
            BY <2>1, <3>1, ClosureIn
        <3> QED BY <3>2, <3>3 DEF I
    <2>3. \A k \in Blocks : next[k] = S \cap Routes(e)[k]
        OBVIOUS
    <2>4. b \notin reach(b)
        BY DEF Acyclic
    <2> HIDE DEF next, reach, S
    <2>5. reach(b) \subseteq S
        <3>1. /\ S \cap Routes(e)[b] \subseteq S
              /\ \A j \in S \cap Blocks : next[j] \subseteq S
            BY <2>3
        <3> QED BY <2>2, <3>1
    <2>6. ASSUME NEW c \in S \cap BodyFlow(e, b) PROVE c \in reach(b) /\ reach(c) \subseteq reach(b)
        <3>1. c \in reach(b)
            BY <1>12, <2>2
        <3>2. S \cap Routes(e)[c] \subseteq reach(b)
            BY <1>1, <2>2, <2>3, <3>1
        <3>3. \A j \in reach(b) \cap Blocks : next[j] \subseteq reach(b)
            BY <2>2
        <3> QED BY <2>2, <3>1, <3>2, <3>3
    <2> QED BY <2>4, <2>5, <2>6
<1> HIDE DEF reach, next
<1>14. \A b \in S : rank(b) \in Nat /\ rank(b) < N
    <2> TAKE b \in S
    <2>1. reach(b) \in SUBSET S /\ reach(b) # S
        BY <1>13
    <2>2. /\ IsFiniteSet(reach(b))
          /\ Cardinality(reach(b)) <= N
          /\ N = Cardinality(reach(b)) => S = reach(b)
        <3> HIDE DEF S
        <3> QED BY <1>1, <2>1, FS_Subset
    <2>3. rank(b) \in Nat
        BY <2>2, FS_CardinalityType
    <2>4. rank(b) <= N /\ rank(b) # N
        BY <2>1, <2>2
    <2>5. \A x, y \in Nat : x <= y /\ x # y => x < y
        OBVIOUS
    <2> HIDE DEF S, N, rank
    <2> QED BY <1>1, <2>3, <2>4, <2>5
<1>15. \A b \in S : \A c \in S \cap BodyFlow(e, b) : rank(c) < rank(b)
    <2> TAKE b \in S
    <2> TAKE c \in S \cap BodyFlow(e, b)
    <2>1. reach(c) \in SUBSET reach(b) /\ reach(c) # reach(b) /\ IsFiniteSet(reach(b))
        BY <1>1, <1>13, FS_Subset
    <2>2. /\ Cardinality(reach(c)) <= Cardinality(reach(b))
          /\ Cardinality(reach(b)) = Cardinality(reach(c)) => reach(b) = reach(c)
        BY <2>1, FS_Subset
    <2>3. rank(b) \in Nat /\ rank(c) \in Nat
        BY <1>14
    <2>4. rank(c) <= rank(b) /\ rank(c) # rank(b)
        BY <2>1, <2>2
    <2>5. \A x, y \in Nat : x <= y /\ x # y => x < y
        OBVIOUS
    <2> HIDE DEF rank
    <2> QED BY <2>3, <2>4, <2>5
<1> HIDE DEF rank
<1> DEFINE Settles(n) == \A b \in S : rank(b) < n => most[n + 1][b] = most[n][b]
           T == {n \in Nat : Settles(n)}
<1>16. \A n \in Nat : n \in T
    <2>1. 0 \in T
        <3>1. \A b \in S : ~(rank(b) < 0)
            BY <1>14
        <3> QED BY <3>1
    <2>2. ASSUME NEW n \in Nat, n \in T PROVE n + 1 \in T
        <3>1. PICK p \in Nat : p = n + 1
            OBVIOUS
        <3>2. ASSUME NEW b \in S, rank(b) < p PROVE most[p + 1][b] = most[p][b]
            <4>1. \A c \in S \cap BodyFlow(e, b) : most[p][c] = most[n][c]
                <5> TAKE c \in S \cap BodyFlow(e, b)
                <5>1. rank(c) < n
                    <6>1. rank(c) < rank(b) /\ rank(c) \in Nat /\ rank(b) \in Nat
                        BY <1>14, <1>15
                    <6> QED BY <3>1, <3>2, <6>1
                <5> QED BY <2>2, <3>1, <5>1
            <4>2. {most[p][c] : c \in S \cap BodyFlow(e, b)} = {most[n][c] : c \in S \cap BodyFlow(e, b)}
                <5> DEFINE I == S \cap BodyFlow(e, b)
                <5> HIDE DEF I
                <5>1. \A c \in I : most[p][c] = most[n][c]
                    BY <4>1 DEF I
                <5>2. {most[p][c] : c \in I} = {most[n][c] : c \in I}
                    BY <5>1
                <5> QED BY <5>2 DEF I
            <4>3. Best(most[p], b) = Best(most[n], b)
                BY <4>2
            <4>4. most[p + 1] = step(most[p]) /\ most[p] = step(most[n])
                <5> HIDE DEF step
                <5> QED BY <1>10, <3>1
            <4>5. most[p] \in D /\ most[n] \in D
                BY <1>11
            <4> HIDE DEF step, Best, D, S
            <4> QED BY <1>4, <3>2, <4>3, <4>4, <4>5
        <3> HIDE DEF S
        <3> QED BY <3>1, <3>2
    <2> HIDE DEF T
    <2> QED BY <2>1, <2>2, NumberInduction
<1> DEFINE m == most[N]
<1>17. m \in D /\ \A b \in S : m[b] = Through(b).most + Best(m, b)
    <2>1. m \in D /\ most[N + 1] = step(m)
        <3> HIDE DEF step, D, N
        <3> QED BY <1>1, <1>10, <1>11
    <2>2. \A b \in S : most[N + 1][b] = m[b]
        <3> HIDE DEF S, N
        <3> QED BY <1>1, <1>14, <1>16 DEF N
    <2> HIDE DEF m, step, Best, D, S
    <2> QED BY <1>4, <2>1, <2>2
<1>18. m[e] = Dearest(e)
    BY <1>9
<1>19. \A b \in S : /\ Through(b).most <= m[b]
                    /\ \A c \in S \cap BodyFlow(e, b) : Through(b).most + m[c] <= m[b]
    <2> TAKE b \in S
    <2>1. /\ Best(m, b) \in Nat
          /\ \A c \in S \cap BodyFlow(e, b) : m[c] <= Best(m, b)
        <3> HIDE DEF m, Best, S, D
        <3> QED BY <1>3, <1>17
    <2>2. Through(b).most \in Nat /\ m[b] = Through(b).most + Best(m, b)
        <3> HIDE DEF m, Best, S, D
        <3> QED BY <1>2, <1>17
    <2>3. \A c \in S : m[c] \in Nat
        BY <1>17
    <2> HIDE DEF m, Best
    <2> QED BY <2>1, <2>2, <2>3
<1> HIDE DEF m
<1> QED BY <1>17, <1>18, <1>19

\* What a walk of routine e has paid at a block, at least: p bounds it, and with the
\* return so does cost.
Cheap(p, e, cost) ==
    /\ e \in DOMAIN p /\ p[e] <= 0
    /\ \A b \in DOMAIN p : b \in Blocks /\ p[b] \in Int
    /\ \A b \in DOMAIN p \cap Extent(e) : \A c \in Onward(b) :
          c \in DOMAIN p /\ p[c] <= p[b] + Through(b).least
    /\ \A r \in DOMAIN p \cap Retsubs \cap Extent(e) : cost.least <= p[r] + BlockCost(r).least

\* What a walk of e that returns pays from a block on, at most: m bounds it.
Dear(m, e, cost) ==
    /\ e \in DOMAIN m /\ m[e] <= cost.most
    /\ \A b \in DOMAIN m : /\ b \in Blocks /\ m[b] \in Int
                           /\ Through(b).most # Unbounded /\ Through(b).most <= m[b]
    /\ \A b \in Extent(e) : \A c \in Onward(b) \cap DOMAIN m :
          b \in DOMAIN m /\ Through(b).most + m[c] <= m[b]
    /\ Retsubs \cap Extent(e) \subseteq DOMAIN m

Sound(e, cost) ==
    /\ \E p : Cheap(p, e, cost)
    /\ cost.most # Unbounded => \E m : Dear(m, e, cost)

\* The walk of a routine follows its body.
LEMMA OnwardInBody ==
    ASSUME ContinuationsInv, phase # "identify", Attributed, NEW e \in Entries, NEW b \in Extent(e)
    PROVE  /\ b \in Blocks /\ b \in bodies[e]
           /\ Onward(b) \subseteq BodyFlow(e, b)
<1>1. Graph /\ e \in Blocks /\ Extent(e) \subseteq Blocks
    BY EntriesAreBlocks, ExtentFacts DEF ContinuationsInv
<1>2. b \in Blocks /\ b \in bodies[e] /\ Onward(b) \subseteq bodies[e]
    <2>1. Extent(e) \subseteq bodies[e]
        BY DEF ContinuationsInv
    <2>2. Onward(b) \subseteq Extent(e)
        BY <1>1, ExtentFacts
    <2> QED BY <1>1, <2>1, <2>2
<1>3. IsProgram(prog) /\ b \in All
    BY <1>1, <1>2, GraphFacts
<1>4. CASE b \in Callsubs
    <2>1. conts[b] = IF b \in Stuck \/ Following(b) = {} THEN 0 ELSE b + 1
        BY <1>4 DEF ContinuationsInv, Exact
    <2>2. BodyFlow(e, b) = bodies[e] \cap {conts[b]}
        BY <1>4 DEF BodyFlow, Callsubs
    <2>3. Onward(b) \subseteq {conts[b]}
        <3>1. CASE b \in Stuck
            BY <1>1, <1>4, <3>1, StuckFacts DEF Attributed
        <3>2. CASE b \notin Stuck
            <4>1. Onward(b) = Following(b)
                BY <1>1, <1>4, <3>2, StuckFacts DEF Attributed
            <4>2. Following(b) = {} \/ Following(b) = {b + 1}
                BY <1>3, FlowFacts
            <4> QED BY <2>1, <3>2, <4>1, <4>2
        <3> QED BY <3>1, <3>2
    <2> QED BY <1>2, <2>2, <2>3
<1>5. CASE b \in Retsubs
    <2>1. Onward(b) = {}
        BY <1>1, <1>3, <1>5, OnwardFacts
    <2> QED BY <1>2, <2>1
<1>6. CASE b \notin Callsubs /\ b \notin Retsubs
    <2>1. Onward(b) = succ[b]
        BY <1>1, <1>2, <1>3, <1>6, OnwardFacts
    <2>2. End(b) # "callsub" /\ End(b) # "retsub"
        BY <1>2, <1>6 DEF Callsubs, Retsubs
    <2>3. BodyFlow(e, b) = bodies[e] \cap succ[b]
        BY <2>2 DEF BodyFlow
    <2> QED BY <1>2, <2>1, <2>3
<1> QED BY <1>2, <1>4, <1>5, <1>6

LEMMA RoutineCostFacts ==
    ASSUME ContinuationsInv, phase # "identify", ChargeTypes, NEW e \in Entries
    PROVE  /\ IsCost(RoutineCost(e))
           /\ Attributed => Sound(e, RoutineCost(e))
<1> DEFINE cost == RoutineCost(e)
           before == Before0(e)
<1>1. Graph /\ IdentifiedTypes
    BY DEF ContinuationsInv
<1>2. /\ Potential(before, {e}, Routes(e), Charge)
      /\ \A b \in DOMAIN before : before[b] >= 0
      /\ cost.least \in Nat
      /\ \A r \in Returns(e) : cost.least <= before[r] + BlockCost(r).least
      /\ cost.most = IF Counted(e) THEN Dearest(e) ELSE Unbounded
      /\ Returns(e) # {} => e \in CanReturn(e)
    BY <1>1, LeastOfReturns
<1>3. ASSUME Counted(e)
      PROVE  \E m \in [CanReturn(e) -> Nat] :
               /\ m[e] = Dearest(e)
               /\ \A b \in CanReturn(e) :
                     /\ Through(b).most <= m[b]
                     /\ \A c \in CanReturn(e) \cap BodyFlow(e, b) : Through(b).most + m[c] <= m[b]
    BY <1>1, <1>2, <1>3, DearestFacts DEF Counted
<1>4. cost.most \in Nat \union {Unbounded}
    <2>1. CASE Counted(e)
        <3>1. PICK m \in [CanReturn(e) -> Nat] : m[e] = Dearest(e)
            BY <1>3, <2>1
        <3>2. e \in CanReturn(e)
            BY <1>2, <2>1 DEF Counted
        <3> QED BY <1>2, <2>1, <3>1, <3>2
    <2>2. CASE ~Counted(e)
        BY <1>2, <2>2
    <2> QED BY <2>1, <2>2
<1>5. IsCost(cost)
    <2>1. \E l, m : cost = Cost(l, m)
        BY DEF RoutineCost, Unknown
    <2>2. PICK l, m : cost = Cost(l, m)
        BY <2>1
    <2> HIDE DEF cost
    <2> QED BY <1>2, <1>4, <2>2 DEF IsCost, Cost
<1>6. ASSUME Attributed PROVE Cheap(before, e, cost)
    <2>1. /\ e \in DOMAIN before /\ before[e] <= 0
          /\ \A b \in DOMAIN before : b \in Blocks /\ before[b] \in Int
        <3> HIDE DEF before
        <3> QED BY <1>2 DEF Potential
    <2>2. ASSUME NEW b \in DOMAIN before \cap Extent(e), NEW c \in Onward(b)
          PROVE  c \in DOMAIN before /\ before[c] <= before[b] + Through(b).least
        <3>1. b \in Blocks /\ c \in BodyFlow(e, b)
            BY <1>6, <2>2, OnwardInBody
        <3>2. Routes(e)[b] = BodyFlow(e, b)
            BY <1>1, <3>1, RouteFacts
        <3>3. c \in DOMAIN before /\ before[c] <= before[b] + Charge[b][c]
            <4> HIDE DEF before
            <4> QED BY <1>2, <2>2, <3>1, <3>2 DEF Potential
        <3>4. c \in Blocks
            BY <2>1, <3>3
        <3>5. Charge[b][c] = Through(b).least
            BY <1>1, <3>1, <3>4, ChargeFacts
        <3> QED BY <3>3, <3>5
    <2>3. \A r \in DOMAIN before \cap Retsubs \cap Extent(e) : cost.least <= before[r] + BlockCost(r).least
        BY <1>2 DEF Returns
    <2> HIDE DEF before, cost
    <2> QED BY <2>1, <2>2, <2>3 DEF Cheap
<1>7. ASSUME Attributed, cost.most # Unbounded PROVE \E m : Dear(m, e, cost)
    <2>1. Counted(e) /\ cost.most = Dearest(e)
        BY <1>2, <1>7
    <2>2. PICK m \in [CanReturn(e) -> Nat] :
               /\ m[e] = Dearest(e)
               /\ \A b \in CanReturn(e) :
                     /\ Through(b).most <= m[b]
                     /\ \A c \in CanReturn(e) \cap BodyFlow(e, b) : Through(b).most + m[c] <= m[b]
        BY <1>3, <2>1
    <2>3. /\ e \in CanReturn(e) /\ CanReturn(e) \subseteq Blocks
          /\ \A b \in CanReturn(e) : Through(b).most # Unbounded
        BY <1>1, <1>2, <2>1, CanReturnFacts DEF Counted
    <2>4. m[e] <= cost.most
        <3>1. m[e] \in Nat /\ m[e] = cost.most
            BY <2>1, <2>2, <2>3
        <3> QED BY <3>1
    <2>5. \A b \in DOMAIN m : /\ b \in Blocks /\ m[b] \in Int
                              /\ Through(b).most # Unbounded /\ Through(b).most <= m[b]
        BY <2>2, <2>3
    <2>6. ASSUME NEW b \in Extent(e), NEW c \in Onward(b) \cap DOMAIN m
          PROVE  b \in DOMAIN m /\ Through(b).most + m[c] <= m[b]
        <3>1. b \in bodies[e] /\ c \in BodyFlow(e, b)
            BY <1>7, OnwardInBody
        <3>2. c \in CanReturn(e)
            BY <2>2
        <3>3. b \in CanReturn(e)
            BY <1>1, <3>1, <3>2, CanReturnFacts
        <3> QED BY <2>2, <3>1, <3>2, <3>3
    <2>7. Retsubs \cap Extent(e) \subseteq DOMAIN m
        <3>1. \A r \in Extent(e) : r \in bodies[e]
            BY <1>7, OnwardInBody
        <3> QED BY <1>1, <2>2, <3>1, CanReturnFacts
    <2>8. Dear(m, e, cost)
        <3> HIDE DEF cost
        <3> QED BY <2>2, <2>3, <2>4, <2>5, <2>6, <2>7 DEF Dear
    <2> QED BY <2>8
<1> QED BY <1>5, <1>6, <1>7 DEF Sound

-----------------------------------------------------------------------------
(* Summaries are kept: one that was asked for later only makes more known.  *)

Grown == \A e \in DOMAIN charges : e \in DOMAIN charges' /\ charges'[e] = charges[e]

LEMMA ThroughGrows ==
    ASSUME Graph, ChargeTypes, ChargeTypes', UNCHANGED program, Grown, NEW b \in Blocks
    PROVE  /\ BlockCost(b)' = BlockCost(b)
           /\ Through(b).least \in Nat /\ Through(b)'.least \in Nat
           /\ Through(b).least <= Through(b)'.least
           /\ Through(b).most # Unbounded => Through(b)'.most = Through(b).most
<1>1. /\ BlockCost(b)' = BlockCost(b) /\ End(b)' = End(b)
      /\ CallTarget(b)' = CallTarget(b) /\ Entries' = Entries
    BY SameText, SameProgram DEF program
<1> DEFINE t == CallTarget(b)
           now == IF t \in DOMAIN charges' THEN charges'[t] ELSE Unknown
           own == BlockCost(b)
<1>2. IsCost(own) /\ IsCost(Known(t)) /\ IsCost(Unknown)
    BY ThroughFacts, KnownFacts DEF IsCost, Unknown, Cost
<1>3. IsCost(now)
    BY <1>2 DEF ChargeTypes
<1>4. Through(b)' = IF End(b) = "callsub" THEN Plus(own, now) ELSE own
    BY <1>1 DEF Through, Known
<1>5. Through(b) = IF End(b) = "callsub" THEN Plus(own, Known(t)) ELSE own
    BY DEF Through
<1>6. CASE End(b) # "callsub"
    <2>1. Through(b)' = own /\ Through(b) = own
        BY <1>4, <1>5, <1>6
    <2>2. own.least \in Nat
        BY <1>2 DEF IsCost
    <2> HIDE DEF own
    <2> QED BY <1>1, <2>1, <2>2 DEF own
<1>7. CASE End(b) = "callsub" /\ t \in DOMAIN charges
    <2>1. now = Known(t)
        BY <1>7 DEF Grown, Known
    <2>2. Through(b)' = Plus(own, Known(t)) /\ Through(b) = Plus(own, Known(t))
        BY <1>4, <1>5, <1>7, <2>1
    <2>3. Plus(own, Known(t)).least \in Nat
        BY <1>2, PlusFacts DEF IsCost
    <2> HIDE DEF own, t
    <2> QED BY <1>1, <2>2, <2>3 DEF own
<1>8. CASE End(b) = "callsub" /\ t \notin DOMAIN charges
    <2>1. Through(b)' = Plus(own, now) /\ Through(b) = Plus(own, Unknown)
        BY <1>4, <1>5, <1>8 DEF Known
    <2>2. Unknown.least = 0 /\ Unknown.most = Unbounded
        BY DEF Unknown, Cost
    <2>3. Plus(own, Unknown).most = Unbounded
        BY <2>2 DEF Plus, Cost
    <2>4. /\ Plus(own, Unknown).least = own.least + 0
          /\ Plus(own, now).least = own.least + now.least
        <3> HIDE DEF own, now
        <3> QED BY <1>2, <1>3, <2>2, PlusFacts
    <2>5. own.least \in Nat /\ now.least \in Nat
        <3> HIDE DEF own, now
        <3> QED BY <1>2, <1>3 DEF IsCost
    <2> HIDE DEF own, now, t
    <2> QED BY <1>1, <2>1, <2>3, <2>4, <2>5 DEF own
<1> QED BY <1>6, <1>7, <1>8

LEMMA SoundGrows ==
    ASSUME Graph, ChargeTypes, ChargeTypes', UNCHANGED program, Grown,
           NEW e, NEW cost, Sound(e, cost)
    PROVE  Sound(e, cost)'
<1>1. /\ Blocks' = Blocks /\ Retsubs' = Retsubs
      /\ \A b : Onward(b)' = Onward(b)
      /\ Extent(e)' = Extent(e)
    BY SameProgram
<1>2. \A b \in Blocks :
           /\ BlockCost(b)' = BlockCost(b)
           /\ Through(b).least \in Nat /\ Through(b)'.least \in Nat
           /\ Through(b).least <= Through(b)'.least
           /\ Through(b).most # Unbounded => Through(b)'.most = Through(b).most
    BY ThroughGrows
<1>3. ASSUME NEW p, Cheap(p, e, cost) PROVE Cheap(p, e, cost)'
    <2>1. /\ e \in DOMAIN p /\ p[e] <= 0
          /\ \A b \in DOMAIN p : b \in Blocks /\ p[b] \in Int
        BY <1>3 DEF Cheap
    <2>2. ASSUME NEW b \in DOMAIN p \cap Extent(e), NEW c \in Onward(b)
          PROVE  c \in DOMAIN p /\ p[c] <= p[b] + Through(b)'.least
        <3>1. c \in DOMAIN p /\ p[c] <= p[b] + Through(b).least
            BY <1>3, <2>2 DEF Cheap
        <3>2. p[c] \in Int /\ p[b] \in Int /\ b \in Blocks
            BY <2>1, <3>1
        <3> QED BY <1>2, <3>1, <3>2
    <2>3. \A r \in DOMAIN p \cap Retsubs \cap Extent(e) : cost.least <= p[r] + BlockCost(r)'.least
        BY <1>2, <1>3, <2>1 DEF Cheap
    <2> QED BY <1>1, <2>1, <2>2, <2>3 DEF Cheap
<1>4. ASSUME NEW m, Dear(m, e, cost) PROVE Dear(m, e, cost)'
    <2>1. /\ e \in DOMAIN m /\ m[e] <= cost.most
          /\ \A b \in DOMAIN m : b \in Blocks /\ m[b] \in Int
          /\ Retsubs \cap Extent(e) \subseteq DOMAIN m
        BY <1>4 DEF Dear
    <2>2. \A b \in DOMAIN m : /\ Through(b)'.most = Through(b).most
                              /\ Through(b)'.most # Unbounded
                              /\ Through(b)'.most <= m[b]
        BY <1>2, <1>4, <2>1 DEF Dear
    <2>3. ASSUME NEW b \in Extent(e), NEW c \in Onward(b) \cap DOMAIN m
          PROVE  b \in DOMAIN m /\ Through(b)'.most + m[c] <= m[b]
        <3>1. b \in DOMAIN m /\ Through(b).most + m[c] <= m[b]
            BY <1>4, <2>3 DEF Dear
        <3> QED BY <2>2, <3>1
    <2>4. Unbounded' = Unbounded
        BY DEF Unbounded
    <2> QED BY <1>1, <2>1, <2>2, <2>3, <2>4 DEF Dear
<1> QED BY <1>3, <1>4 DEF Sound

-----------------------------------------------------------------------------
(* The invariant of the analysis.                                          *)

CostsInv ==
    /\ ContinuationsInv
    /\ phase \in {"identify", "identified", "analysed", "running"}
    /\ ChargeTypes
    /\ asking \in Seq(Entries)
    /\ \A i, j \in DOMAIN asking : asking[i] = asking[j] => i = j
    /\ \A i \in DOMAIN asking : asking[i] \notin DOMAIN charges
    /\ Attributed => \A e \in DOMAIN charges : Sound(e, charges[e])

LEMMA EndOfSeq ==
    \A S, s : s \in Seq(S) /\ s # <<>> =>
        /\ Len(s) \in Nat \ {0} /\ Len(s) \in 1..Len(s) /\ Len(s) \in DOMAIN s
        /\ Last(s) = s[Len(s)] /\ Last(s) \in S
        /\ Front(s) \in Seq(S) /\ Len(Front(s)) = Len(s) - 1
        /\ DOMAIN Front(s) = 1..(Len(s) - 1)
        /\ \A i \in 1..(Len(s) - 1) : Front(s)[i] = s[i]
<1> SUFFICES ASSUME NEW S, NEW s \in Seq(S), s # <<>>
             PROVE  /\ Len(s) \in Nat \ {0} /\ Len(s) \in 1..Len(s) /\ Len(s) \in DOMAIN s
                    /\ Last(s) = s[Len(s)] /\ Last(s) \in S
                    /\ Front(s) \in Seq(S) /\ Len(Front(s)) = Len(s) - 1
                    /\ DOMAIN Front(s) = 1..(Len(s) - 1)
                    /\ \A i \in 1..(Len(s) - 1) : Front(s)[i] = s[i]
    OBVIOUS
<1>1. Len(s) \in Nat /\ DOMAIN s = 1..Len(s)
    OBVIOUS
<1>2. Len(s) # 0
    OBVIOUS
<1>3. Len(s) \in 1..Len(s)
    BY <1>1, <1>2
<1>4. s[Len(s)] \in S
    BY <1>1, <1>3
<1>5. Front(s) \in Seq(S) /\ Len(Front(s)) = Len(s) - 1
    BY <1>1, <1>2 DEF Front
<1>6. DOMAIN Front(s) = 1..(Len(s) - 1)
    BY <1>5
<1>7. \A i \in 1..(Len(s) - 1) : Front(s)[i] = s[i]
    BY <1>1, <1>2 DEF Front
<1> QED BY <1>1, <1>2, <1>3, <1>4, <1>5, <1>6, <1>7 DEF Last

LEMMA CostsStay ==
    ASSUME CostsInv, UNCHANGED <<program, identified, costing>>,
           phase' \in {"identify", "identified", "analysed", "running"},
           phase' = "identify" <=> phase = "identify"
    PROVE  CostsInv'
<1>1. UNCHANGED program /\ asking' = asking /\ charges' = charges
    BY DEF costing
<1>2. ContinuationsInv'
    BY ContinuationsStay DEF CostsInv
<1>3. /\ Entries' = Entries /\ (Attributed <=> Attributed')
    BY <1>1, SameProgram
<1>4. ChargeTypes'
    BY <1>1, <1>3 DEF CostsInv, ChargeTypes, IsCost, Unbounded
<1>5. ASSUME Attributed', NEW e \in DOMAIN charges' PROVE Sound(e, charges[e])'
    <2> DEFINE cost == charges[e]
    <2>1. Sound(e, cost)
        BY <1>1, <1>3, <1>5 DEF CostsInv
    <2>2. cost' = cost
        BY <1>1
    <2>3. Graph /\ ChargeTypes /\ Grown
        BY <1>1 DEF CostsInv, ContinuationsInv, Grown
    <2>4. PICK k : k = cost
        OBVIOUS
    <2>5. Sound(e, k)'
        BY <1>1, <1>4, <2>1, <2>3, <2>4, SoundGrows
    <2> QED BY <2>2, <2>4, <2>5
<1> QED BY <1>1, <1>2, <1>3, <1>4, <1>5 DEF CostsInv

LEMMA AskKeeps == CostsInv /\ Ask => CostsInv'
<1> SUFFICES ASSUME CostsInv, Ask PROVE CostsInv'
    OBVIOUS
<1>1. /\ phase = "identified" /\ phase' = phase
      /\ UNCHANGED <<program, identified>> /\ UNCHANGED program /\ charges' = charges
    BY DEF Ask
<1>2. PICK e : /\ e \in (IF asking = <<>> THEN Entries ELSE Callees(Innermost)) \ Asked
               /\ asking' = Append(asking, e)
    BY DEF Ask
<1>3. e \in Entries
    <2>1. \A i : Callees(i) \subseteq Entries
        BY DEF Callees, CallsIn, Entries
    <2> QED BY <1>2, <2>1
<1>4. /\ asking \in Seq(Entries)
      /\ \A i, j \in DOMAIN asking : asking[i] = asking[j] => i = j
      /\ \A i \in DOMAIN asking : asking[i] \notin DOMAIN charges
    BY DEF CostsInv
<1>5. e \notin DOMAIN charges /\ \A i \in DOMAIN asking : asking[i] # e
    BY <1>2 DEF Asked, Range
<1>6. /\ asking' \in Seq(Entries)
      /\ DOMAIN asking' = DOMAIN asking \union {Len(asking) + 1}
      /\ Len(asking) + 1 \notin DOMAIN asking
      /\ asking'[Len(asking) + 1] = e
      /\ \A i \in DOMAIN asking : asking'[i] = asking[i]
    BY <1>2, <1>3, <1>4
<1>7. /\ \A i, j \in DOMAIN asking' : asking'[i] = asking'[j] => i = j
      /\ \A i \in DOMAIN asking' : asking'[i] \notin DOMAIN charges
    BY <1>4, <1>5, <1>6
<1>8. ContinuationsInv'
    BY <1>1, ContinuationsStay DEF CostsInv
<1>9. Entries' = Entries /\ (Attributed <=> Attributed')
    BY <1>1, SameProgram
<1>10. ChargeTypes'
    BY <1>1, <1>9 DEF CostsInv, ChargeTypes, IsCost, Unbounded
<1>11. ASSUME Attributed', NEW k \in DOMAIN charges' PROVE Sound(k, charges[k])'
    <2>1. PICK cost : cost = charges[k]
        OBVIOUS
    <2>2. Sound(k, cost)
        BY <1>1, <1>9, <1>11, <2>1 DEF CostsInv
    <2>3. Graph /\ ChargeTypes /\ Grown
        BY <1>1 DEF CostsInv, ContinuationsInv, Grown
    <2>4. Sound(k, cost)'
        BY <1>1, <1>10, <2>2, <2>3, SoundGrows
    <2> QED BY <1>1, <2>1, <2>4
<1> QED BY <1>1, <1>6, <1>7, <1>8, <1>9, <1>10, <1>11 DEF CostsInv

LEMMA SummariseKeeps == CostsInv /\ Summarise => CostsInv'
<1> SUFFICES ASSUME CostsInv, Summarise PROVE CostsInv'
    OBVIOUS
<1> DEFINE last == Innermost
           new == RoutineCost(last)
<1>1. /\ phase = "identified" /\ phase' = phase /\ asking # <<>> /\ asking' = Front(asking)
      /\ UNCHANGED <<program, identified>> /\ UNCHANGED program
      /\ charges' = [e \in DOMAIN charges \union {last} |-> IF e = last THEN new ELSE charges[e]]
    <2>1. charges' = [e \in DOMAIN charges \union {last} |-> IF e = last THEN RoutineCost(e) ELSE charges[e]]
        BY DEF Summarise
    <2>2. \A e : (IF e = last THEN RoutineCost(e) ELSE charges[e]) = (IF e = last THEN new ELSE charges[e])
        OBVIOUS
    <2>3. charges' = [e \in DOMAIN charges \union {last} |-> IF e = last THEN new ELSE charges[e]]
        <3> HIDE DEF new, last
        <3> QED BY <2>1, <2>2
    <2> HIDE DEF new, last
    <2> QED BY <2>3 DEF Summarise
<1>2. /\ asking \in Seq(Entries)
      /\ \A i, j \in DOMAIN asking : asking[i] = asking[j] => i = j
      /\ \A i \in DOMAIN asking : asking[i] \notin DOMAIN charges
      /\ ContinuationsInv /\ ChargeTypes /\ Graph
    BY DEF CostsInv, ContinuationsInv
<1> DEFINE n == Len(asking)
<1>3. /\ n \in Nat \ {0} /\ n \in DOMAIN asking /\ DOMAIN asking = 1..n
      /\ last = asking[n] /\ last \in Entries
      /\ asking' \in Seq(Entries)
      /\ DOMAIN asking' = 1..(n - 1)
      /\ \A i \in 1..(n - 1) : asking'[i] = asking[i]
    BY <1>1, <1>2, EndOfSeq DEF Innermost
<1>4. last \notin DOMAIN charges
    BY <1>2, <1>3
<1>5. IsCost(new) /\ (Attributed => Sound(last, new))
    <2> HIDE DEF last
    <2> QED BY <1>1, <1>2, <1>3, RoutineCostFacts
<1> HIDE DEF new, last, n
<1>6. /\ DOMAIN charges' = DOMAIN charges \union {last}
      /\ charges'[last] = new
      /\ \A e \in DOMAIN charges : charges'[e] = charges[e]
    BY <1>1, <1>4
<1>7. /\ \A i, j \in DOMAIN asking' : asking'[i] = asking'[j] => i = j
      /\ \A i \in DOMAIN asking' : asking'[i] \notin DOMAIN charges'
    <2>1. \A i \in 1..(n - 1) : i \in DOMAIN asking /\ i # n
        BY <1>3
    <2>2. \A i \in 1..(n - 1) : asking[i] # last
        BY <1>2, <1>3, <2>1
    <2> QED BY <1>2, <1>3, <1>6, <2>1, <2>2
<1>8. ContinuationsInv'
    BY <1>1, ContinuationsStay DEF CostsInv
<1>9. Entries' = Entries /\ (Attributed <=> Attributed')
    BY <1>1, SameProgram
<1>10. ChargeTypes'
    <2>1. \A c : IsCost(c)' <=> IsCost(c)
        BY DEF IsCost, Unbounded
    <2>2. \A e \in DOMAIN charges' : IsCost(charges'[e])
        BY <1>2, <1>5, <1>6 DEF ChargeTypes
    <2>3. DOMAIN charges' \subseteq Entries
        BY <1>2, <1>3, <1>6 DEF ChargeTypes
    <2> QED BY <1>9, <2>1, <2>2, <2>3 DEF ChargeTypes
<1>11. Grown
    BY <1>6 DEF Grown
<1>12. ASSUME Attributed', NEW e \in DOMAIN charges' PROVE Sound(e, charges[e])'
    <2>1. PICK cost : cost = charges'[e]
        OBVIOUS
    <2>2. Sound(e, cost)
        <3>1. CASE e = last
            BY <1>5, <1>6, <1>9, <1>12, <2>1, <3>1
        <3>2. CASE e \in DOMAIN charges
            BY <1>6, <1>9, <1>12, <2>1, <3>2 DEF CostsInv
        <3> QED BY <1>6, <3>1, <3>2
    <2>3. Sound(e, cost)'
        BY <1>1, <1>2, <1>10, <1>11, <2>2, SoundGrows
    <2> QED BY <2>1, <2>3
<1> QED BY <1>1, <1>3, <1>7, <1>8, <1>9, <1>10, <1>12 DEF CostsInv

-----------------------------------------------------------------------------
(* The least paid on the way.                                              *)

LEMMA RoutineFlowFacts ==
    ASSUME Graph, IdentifiedTypes, NEW b \in Blocks
    PROVE  RoutineFlow(b) \subseteq Blocks
<1>1. succ[b] \subseteq Blocks
    BY GraphFacts
<1>2. CASE End(b) = "callsub"
    <2>1. conts[b] \in Blocks \union {0}
        BY <1>2 DEF IdentifiedTypes, Callsubs
    <2>2. RoutineFlow(b) = {conts[b]} \ {0}
        BY <1>2 DEF RoutineFlow
    <2> QED BY <2>1, <2>2
<1>3. CASE End(b) = "retsub"
    <2>1. RoutineFlow(b) = {}
        BY <1>3 DEF RoutineFlow
    <2> QED BY <2>1
<1>4. CASE End(b) \notin {"callsub", "retsub"}
    <2>1. RoutineFlow(b) = succ[b]
        BY <1>4 DEF RoutineFlow
    <2> QED BY <1>1, <2>1
<1> QED BY <1>2, <1>3, <1>4

\* What has been paid when a block is reached, at least: its minimum without its own
\* charge.
Ahead(b, min) == min[b] - Through(b).least

\* A step of the program is paid for.
MinimumSound(min) ==
    /\ 1 \in DOMAIN min /\ Ahead(1, min) <= 0
    /\ \A b \in DOMAIN min : b \in Blocks /\ min[b] \in Int
    /\ \A b \in DOMAIN min : \A c \in succ[b] :
          c \in DOMAIN min /\ Ahead(c, min) <= Ahead(b, min) + BlockCost(b).least

LEMMA MinimumFacts ==
    ASSUME Graph, IdentifiedTypes, ChargeTypes
    PROVE  MinimumSound(MinimumCosts)
<1> DEFINE S == {Earliest(Blocks)}
           next == [b \in Blocks |-> succ[b] \union RoutineFlow(b)]
           toll == [b \in Blocks |-> [c \in Blocks |-> Toll(b, c)]]
           paid == Cheapest(S, next, toll)
           min == [b \in DOMAIN paid |-> paid[b] + Through(b).least]
<1>1. S = {1} /\ 1 \in Blocks /\ S \in SUBSET Blocks
    BY FirstBlock, GraphFacts
<1>2. \A b \in Blocks : BlockCost(b).least \in Nat /\ Through(b).least \in Nat
    BY ThroughFacts DEF IsCost
<1>3. \A b, c \in Blocks : Toll(b, c) \in Nat
    BY <1>2 DEF Toll
<1>4. \A b \in Blocks : \A c \in succ[b] : c \in Blocks /\ Toll(b, c) = BlockCost(b).least
    BY GraphFacts DEF Toll
<1>5. Weighed(next, toll)
    <2>1. next \in [Blocks -> SUBSET Blocks]
        BY GraphFacts, RoutineFlowFacts
    <2>2. toll \in [Blocks -> [Blocks -> Int]]
        BY <1>3
    <2> HIDE DEF next, toll
    <2> QED BY <2>1, <2>2 DEF Weighed
<1>6. \A b, c \in Blocks : toll[b][c] >= 0 /\ toll[b][c] = Toll(b, c)
    BY <1>3
<1>7. Gainless(next, toll)
    <2> HIDE DEF next, toll
    <2> QED BY <1>5, <1>6, TollsAreGainless
<1>8. Potential(paid, S, next, toll)
    <2> HIDE DEF next, toll, S
    <2> QED BY <1>1, <1>5, <1>7, CheapestFacts
<1>9. MinimumCosts = min
    BY DEF MinimumCosts
<1>10. \A b \in Blocks : succ[b] \subseteq next[b]
    OBVIOUS
<1> HIDE DEF next, toll, paid
<1>11. /\ \A b \in DOMAIN paid : b \in Blocks /\ paid[b] \in Int
       /\ 1 \in DOMAIN paid /\ paid[1] <= 0
       /\ \A b \in DOMAIN paid : \A c \in succ[b] :
             c \in DOMAIN paid /\ paid[c] <= paid[b] + BlockCost(b).least
    <2>1. \A b \in DOMAIN paid : b \in Blocks /\ paid[b] \in Int
        BY <1>8 DEF Potential
    <2>2. 1 \in DOMAIN paid /\ paid[1] <= 0
        BY <1>1, <1>8 DEF Potential
    <2>3. ASSUME NEW b \in DOMAIN paid, NEW c \in succ[b]
          PROVE  c \in DOMAIN paid /\ paid[c] <= paid[b] + BlockCost(b).least
        <3>1. b \in Blocks /\ c \in next[b]
            BY <1>10, <2>1, <2>3
        <3>2. c \in DOMAIN paid /\ paid[c] <= paid[b] + toll[b][c]
            BY <1>8, <3>1 DEF Potential
        <3>3. toll[b][c] = BlockCost(b).least
            BY <1>4, <1>6, <2>3, <3>1
        <3> QED BY <3>2, <3>3
    <2> QED BY <2>1, <2>2, <2>3
<1>12. DOMAIN min = DOMAIN paid /\ \A b \in DOMAIN paid : min[b] = paid[b] + Through(b).least
    OBVIOUS
<1> HIDE DEF min
<1>13. \A b \in DOMAIN min : b \in Blocks /\ min[b] \in Int /\ Ahead(b, min) = paid[b]
    BY <1>2, <1>11, <1>12 DEF Ahead
<1>14. MinimumSound(min)
    <2>1. 1 \in DOMAIN min /\ Ahead(1, min) <= 0
        BY <1>11, <1>12, <1>13
    <2>2. ASSUME NEW b \in DOMAIN min, NEW c \in succ[b]
          PROVE  c \in DOMAIN min /\ Ahead(c, min) <= Ahead(b, min) + BlockCost(b).least
        <3>1. c \in DOMAIN paid /\ paid[c] <= paid[b] + BlockCost(b).least
            BY <1>11, <1>12, <2>2
        <3> QED BY <1>12, <1>13, <3>1
    <2> QED BY <1>13, <2>1, <2>2 DEF MinimumSound
<1> QED BY <1>9, <1>14

-----------------------------------------------------------------------------
(* The reports.                                                            *)

ReportsInv ==
    phase \in {"analysed", "running"} =>
        /\ Entries \subseteq DOMAIN charges
        /\ MinimumSound(minimum)

LEMMA SameCosts ==
    ASSUME UNCHANGED program, charges' = charges
    PROVE  /\ \A b : Through(b)' = Through(b)
           /\ \A b : BlockCost(b)' = BlockCost(b)
           /\ \A min : MinimumSound(min)' <=> MinimumSound(min)
<1>1. /\ \A b : BlockCost(b)' = BlockCost(b) /\ End(b)' = End(b)
      /\ \A b : CallTarget(b)' = CallTarget(b)
      /\ Blocks' = Blocks /\ succ' = succ
    BY SameText, SameProgram DEF program
<1>2. \A e : Known(e)' = Known(e)
    BY DEF Known, Unknown, Cost, Unbounded
<1>3. \A b : Through(b)' = Through(b)
    <2> TAKE b
    <2>1. \A x, y : Plus(x, y)' = Plus(x, y)
        BY DEF Plus, Cost, Unbounded
    <2>2. Known(CallTarget(b))' = Known(CallTarget(b))
        BY <1>1, <1>2 DEF Known
    <2> QED BY <1>1, <2>1, <2>2 DEF Through
<1>4. \A b, min : Ahead(b, min)' = Ahead(b, min)
    BY <1>3 DEF Ahead
<1> QED BY <1>1, <1>3, <1>4 DEF MinimumSound

LEMMA AnalyseFacts == CostsInv /\ Analyse => CostsInv' /\ ReportsInv'
<1> SUFFICES ASSUME CostsInv, Analyse PROVE CostsInv' /\ ReportsInv'
    OBVIOUS
<1>1. /\ phase = "identified" /\ phase' = "analysed" /\ Entries \subseteq DOMAIN charges
      /\ minimum' = MinimumCosts
      /\ UNCHANGED <<program, identified, costing>> /\ UNCHANGED program /\ charges' = charges
    BY DEF Analyse, costing
<1>2. CostsInv'
    BY <1>1, CostsStay
<1>3. MinimumSound(MinimumCosts)
    BY MinimumFacts DEF CostsInv, ContinuationsInv
<1>4. PICK min : min = MinimumCosts
    OBVIOUS
<1>5. MinimumSound(min)'
    BY <1>1, <1>3, <1>4, SameCosts
<1>6. MinimumSound(minimum)'
    BY <1>1, <1>4, <1>5 DEF MinimumSound, Ahead
<1> QED BY <1>1, <1>2, <1>6, SameProgram DEF ReportsInv

-----------------------------------------------------------------------------
(* What a call has paid so far.                                            *)

\* charge is one that the block may make.
Charged(b, charge) ==
    /\ charge \in Nat
    /\ BlockCost(b).least <= charge
    /\ BlockCost(b).most # Unbounded => charge <= BlockCost(b).most

LEMMA ExecuteFacts ==
    ASSUME Graph, at \in Blocks, spent \in Nat, Execute
    PROVE  /\ HeightAfter(at) # -1
           /\ spent' <= Credit /\ spent' \in Nat
           /\ \E charge \in Nat : Charged(at, charge) /\ spent' = spent + charge
<1> DEFINE cost == BlockCost(at)
           most == IF cost.most = Unbounded THEN cost.least + MaxExcess ELSE cost.most
           V == {most, Credit - spent}
<1>1. at \in All /\ IsProgram(prog) /\ prog \in Programs
    BY GraphFacts DEF Graph
<1>2. cost.least \in Nat /\ most \in Int /\ (cost.most # Unbounded => most = cost.most) /\ Credit - spent \in Int
    BY <1>1, BlockCostFacts, BoundsAreNat, CeilingsAreNat DEF IsCost, Unbounded
<1>3. IsFiniteSet(V) /\ V \in SUBSET Int /\ V # {}
    <2>1. IsFiniteSet({most} \union {Credit - spent})
        BY FS_Singleton, FS_Union
    <2>2. V = {most} \union {Credit - spent}
        OBVIOUS
    <2> HIDE DEF most
    <2> QED BY <1>2, <2>1, <2>2
<1>4. Min(V) \in Int /\ \A y \in V : Min(V) <= y
    <2> HIDE DEF V
    <2> QED BY <1>3, MinFacts
<1>5. most \in V /\ Credit - spent \in V
    OBVIOUS
<1>6. PICK charge \in Charges(at) : spent' = spent + charge
    BY DEF Execute
<1>7. Charges(at) = cost.least .. Min(V)
    BY DEF Charges
<1> HIDE DEF V, most, cost
<1>8. charge \in Int /\ cost.least <= charge /\ charge <= most /\ charge <= Credit - spent
    BY <1>2, <1>4, <1>5, <1>6, <1>7
<1>9. charge \in Nat /\ Charged(at, charge)
    BY <1>2, <1>8 DEF Charged, cost
<1>10. spent' <= Credit /\ spent' \in Nat
    <2>1. Credit \in Nat
        BY CeilingsAreNat
    <2> QED BY <1>6, <1>8, <1>9, <2>1
<1> QED BY <1>6, <1>9, <1>10 DEF Execute

\* A call to e has paid this much when control is at b and own of b is paid.
Between(e, b, own, paid) ==
    /\ b \in Extent(e) /\ paid \in Int
    /\ \A p : Cheap(p, e, charges[e]) => b \in DOMAIN p /\ p[b] + own.least <= paid
    /\ charges[e].most # Unbounded =>
          \A m : Dear(m, e, charges[e]) /\ b \in DOMAIN m =>
              paid + m[b] <= charges[e].most + own.most

LEMMA BetweenStart ==
    ASSUME Graph, ChargeTypes, NEW e \in Entries, e \in DOMAIN charges
    PROVE  Between(e, e, Free, 0)
<1>1. e \in Extent(e)
    BY EntriesAreBlocks, ExtentFacts
<1>2. Free.least = 0 /\ Free.most = 0
    BY DEF Free, Cost
<1>3. \A p : Cheap(p, e, charges[e]) => e \in DOMAIN p /\ p[e] \in Int /\ p[e] <= 0
    BY DEF Cheap
<1>4. \A m : Dear(m, e, charges[e]) => m[e] \in Int /\ m[e] <= charges[e].most
    BY DEF Dear
<1>5. charges[e].most # Unbounded => charges[e].most \in Int
    BY DEF ChargeTypes, IsCost
<1> QED BY <1>1, <1>2, <1>3, <1>4, <1>5 DEF Between

LEMMA BetweenStep ==
    ASSUME Graph, ChargeTypes, NEW e \in Entries, e \in DOMAIN charges,
           NEW b, NEW paid, Between(e, b, Free, paid), b \notin Callsubs,
           NEW c \in Onward(b), NEW charge, Charged(b, charge)
    PROVE  Between(e, c, Free, paid + charge)
<1>1. b \in Extent(e) /\ b \in Blocks /\ c \in Extent(e) /\ paid \in Int /\ charge \in Nat
    BY EntriesAreBlocks, ExtentFacts DEF Between, Charged
<1>2. Through(b) = BlockCost(b) /\ BlockCost(b).least \in Nat
    BY <1>1, ThroughFacts DEF IsCost
<1>3. Free.least = 0 /\ Free.most = 0
    BY DEF Free, Cost
<1>4. ASSUME NEW p, Cheap(p, e, charges[e]) PROVE c \in DOMAIN p /\ p[c] + 0 <= paid + charge
    <2>1. b \in DOMAIN p /\ p[b] + 0 <= paid
        BY <1>3, <1>4 DEF Between
    <2>2. c \in DOMAIN p /\ p[c] <= p[b] + BlockCost(b).least
        BY <1>1, <1>2, <1>4, <2>1 DEF Cheap
    <2>3. p[b] \in Int /\ p[c] \in Int
        BY <1>4, <2>1, <2>2 DEF Cheap
    <2> QED BY <1>1, <1>2, <2>1, <2>2, <2>3 DEF Charged
<1>5. ASSUME charges[e].most # Unbounded, NEW m, Dear(m, e, charges[e]), c \in DOMAIN m
      PROVE  paid + charge + m[c] <= charges[e].most + 0
    <2>1. b \in DOMAIN m /\ BlockCost(b).most + m[c] <= m[b] /\ BlockCost(b).most # Unbounded
        BY <1>1, <1>2, <1>5 DEF Dear
    <2>2. paid + m[b] <= charges[e].most + 0
        BY <1>3, <1>5, <2>1 DEF Between
    <2>3. m[b] \in Int /\ m[c] \in Int
        BY <1>5, <2>1 DEF Dear
    <2>4. charges[e].most \in Int /\ BlockCost(b).most \in Int
        BY <1>1, <1>5, ThroughFacts, <2>1 DEF ChargeTypes, IsCost
    <2>5. charge <= BlockCost(b).most
        BY <2>1 DEF Charged
    <2> QED BY <1>1, <2>1, <2>2, <2>3, <2>4, <2>5
<1> QED BY <1>1, <1>3, <1>4, <1>5 DEF Between

LEMMA BetweenCall ==
    ASSUME Graph, ChargeTypes, NEW e \in Entries, e \in DOMAIN charges,
           NEW b \in Callsubs, NEW paid, Between(e, b, Free, paid),
           NEW charge, Charged(b, charge)
    PROVE  Between(e, b, BlockCost(b), paid + charge)
<1>1. b \in Extent(e) /\ b \in Blocks /\ paid \in Int /\ charge \in Nat
    BY EntriesAreBlocks, ExtentFacts DEF Between, Charged
<1>2. /\ BlockCost(b).least \in Nat
      /\ Through(b).most # Unbounded => BlockCost(b).most # Unbounded
    BY <1>1, ThroughFacts DEF IsCost
<1>3. Free.least = 0 /\ Free.most = 0
    BY DEF Free, Cost
<1>4. ASSUME NEW p, Cheap(p, e, charges[e]) PROVE b \in DOMAIN p /\ p[b] + BlockCost(b).least <= paid + charge
    <2>1. b \in DOMAIN p /\ p[b] + 0 <= paid
        BY <1>3, <1>4 DEF Between
    <2>2. p[b] \in Int
        BY <1>4, <2>1 DEF Cheap
    <2> QED BY <1>1, <1>2, <2>1, <2>2 DEF Charged
<1>5. ASSUME charges[e].most # Unbounded, NEW m, Dear(m, e, charges[e]), b \in DOMAIN m
      PROVE  paid + charge + m[b] <= charges[e].most + BlockCost(b).most
    <2>1. BlockCost(b).most # Unbounded /\ m[b] \in Int
        BY <1>2, <1>5 DEF Dear
    <2>2. paid + m[b] <= charges[e].most + 0
        BY <1>3, <1>5 DEF Between
    <2>3. charges[e].most \in Int /\ BlockCost(b).most \in Int
        BY <1>1, <1>5, ThroughFacts, <2>1 DEF ChargeTypes, IsCost
    <2>4. charge <= BlockCost(b).most
        BY <2>1 DEF Charged
    <2> QED BY <1>1, <2>1, <2>2, <2>3, <2>4
<1> QED BY <1>1, <1>4, <1>5 DEF Between

LEMMA BetweenBack ==
    ASSUME Graph, ChargeTypes, NEW e \in Entries, e \in DOMAIN charges,
           NEW b \in Callsubs, NEW paid, Between(e, b, BlockCost(b), paid),
           CallTarget(b) \in DOMAIN charges,
           NEW c \in Onward(b), NEW more \in Nat,
           charges[CallTarget(b)].least <= more,
           charges[CallTarget(b)].most # Unbounded => more <= charges[CallTarget(b)].most
    PROVE  Between(e, c, Free, paid + more)
<1>1. b \in Extent(e) /\ b \in Blocks /\ c \in Extent(e) /\ paid \in Int
    BY EntriesAreBlocks, ExtentFacts DEF Between
<1> DEFINE own == BlockCost(b)
           callee == charges[CallTarget(b)]
<1>2. Known(CallTarget(b)) = callee
    BY DEF Known
<1>3. /\ own.least \in Nat /\ callee.least \in Nat
      /\ Through(b).least = own.least + callee.least
      /\ own.most \in Nat \union {Unbounded} /\ callee.most \in Nat \union {Unbounded}
      /\ Through(b).most # Unbounded =>
             /\ own.most # Unbounded /\ callee.most # Unbounded
             /\ Through(b).most = own.most + callee.most
    BY <1>1, <1>2, ThroughFacts DEF IsCost, ChargeTypes
<1>4. Free.least = 0 /\ Free.most = 0
    BY DEF Free, Cost
<1>a. charges[e].most \in Nat \union {Unbounded}
    BY DEF ChargeTypes, IsCost
<1>b. /\ callee.least <= more
      /\ callee.most # Unbounded => more <= callee.most
    OBVIOUS
<1>c. Between(e, b, own, paid)
    OBVIOUS
<1> HIDE DEF own, callee
<1>5. ASSUME NEW p, Cheap(p, e, charges[e]) PROVE c \in DOMAIN p /\ p[c] + 0 <= paid + more
    <2>1. b \in DOMAIN p /\ p[b] + own.least <= paid
        BY <1>5, <1>c DEF Between
    <2>2. c \in DOMAIN p /\ p[c] <= p[b] + Through(b).least
        BY <1>1, <1>5, <2>1 DEF Cheap
    <2>3. p[b] \in Int /\ p[c] \in Int
        BY <1>5, <2>1, <2>2 DEF Cheap
    <2> QED BY <1>1, <1>3, <1>b, <2>1, <2>2, <2>3
<1>6. ASSUME charges[e].most # Unbounded, NEW m, Dear(m, e, charges[e]), c \in DOMAIN m
      PROVE  paid + more + m[c] <= charges[e].most + 0
    <2>1. b \in DOMAIN m /\ Through(b).most + m[c] <= m[b] /\ Through(b).most # Unbounded
        BY <1>1, <1>6 DEF Dear
    <2>2. paid + m[b] <= charges[e].most + own.most
        BY <1>6, <1>c, <2>1 DEF Between
    <2>3. m[b] \in Int /\ m[c] \in Int
        BY <1>6, <2>1 DEF Dear
    <2>4. charges[e].most \in Int /\ own.most \in Int /\ callee.most \in Int /\ more <= callee.most
        BY <1>3, <1>6, <1>a, <1>b, <2>1
    <2> QED BY <1>1, <1>3, <2>1, <2>2, <2>3, <2>4
<1> QED BY <1>1, <1>4, <1>5, <1>6 DEF Between

LEMMA BetweenEnd ==
    ASSUME Graph, ChargeTypes, NEW e \in Entries, e \in DOMAIN charges, Sound(e, charges[e]),
           NEW b \in Retsubs, NEW paid, Between(e, b, Free, paid),
           NEW charge, Charged(b, charge)
    PROVE  /\ charges[e].least <= paid + charge
           /\ charges[e].most # Unbounded => paid + charge <= charges[e].most
<1>1. b \in Extent(e) /\ b \in Blocks /\ b \notin Callsubs /\ paid \in Int /\ charge \in Nat
    BY EntriesAreBlocks, ExtentFacts DEF Between, Charged, Retsubs, Callsubs
<1>2. Through(b) = BlockCost(b) /\ BlockCost(b).least \in Nat
    BY <1>1, ThroughFacts DEF IsCost
<1>3. Free.least = 0 /\ Free.most = 0
    BY DEF Free, Cost
<1>4. charges[e].least <= paid + charge
    <2>1. PICK p : Cheap(p, e, charges[e])
        BY DEF Sound
    <2>2. b \in DOMAIN p /\ p[b] + 0 <= paid
        BY <1>3, <2>1 DEF Between
    <2>3. charges[e].least <= p[b] + BlockCost(b).least /\ p[b] \in Int
        BY <1>1, <2>1, <2>2 DEF Cheap
    <2>4. charges[e].least \in Nat
        BY DEF ChargeTypes, IsCost
    <2> QED BY <1>1, <1>2, <2>2, <2>3, <2>4 DEF Charged
<1>5. ASSUME charges[e].most # Unbounded PROVE paid + charge <= charges[e].most
    <2>1. PICK m : Dear(m, e, charges[e])
        BY <1>5 DEF Sound
    <2>2. b \in DOMAIN m /\ BlockCost(b).most # Unbounded /\ BlockCost(b).most <= m[b] /\ m[b] \in Int
        BY <1>1, <1>2, <2>1 DEF Dear
    <2>3. paid + m[b] <= charges[e].most + 0
        BY <1>3, <1>5, <2>1, <2>2 DEF Between
    <2>4. charges[e].most \in Int /\ BlockCost(b).most \in Int
        BY <1>1, <1>5, ThroughFacts, <2>2 DEF ChargeTypes, IsCost
    <2>5. charge <= BlockCost(b).most
        BY <2>2 DEF Charged
    <2> QED BY <1>1, <2>2, <2>3, <2>4, <2>5
<1> QED BY <1>4, <1>5

\* The record of a call, when control is at b in it, own of b is paid and run has been
\* spent.
FrameOk(f, b, own, run) ==
    /\ f.call \in DOMAIN minimum
    /\ Ahead(f.call, minimum) + BlockCost(f.call).least <= f.spent
    /\ b \in Ends(f.call)
    /\ Attributed => Between(CallTarget(f.call), b, own, run - f.spent)

LEMMA SameFrames ==
    ASSUME UNCHANGED program, charges' = charges, minimum' = minimum
    PROVE  /\ \A f, b, own, run : FrameOk(f, b, own, run)' <=> FrameOk(f, b, own, run)
           /\ \A b : BlockCost(b)' = BlockCost(b)
<1>1. /\ \A b : Through(b)' = Through(b)
      /\ \A b : BlockCost(b)' = BlockCost(b)
    BY SameCosts
<1>2. /\ \A b : Ahead(b, minimum)' = Ahead(b, minimum)
    BY <1>1 DEF Ahead
<1>3. /\ Blocks' = Blocks /\ Retsubs' = Retsubs /\ (Attributed <=> Attributed')
      /\ \A b : Onward(b)' = Onward(b)
      /\ \A e : Extent(e)' = Extent(e)
      /\ \A c : CallTarget(c)' = CallTarget(c)
      /\ \A c : Ends(c)' = Ends(c)
    BY SameProgram
<1>4. Unbounded' = Unbounded
    BY DEF Unbounded
<1>5. \A p, e, cost : Cheap(p, e, cost)' <=> Cheap(p, e, cost)
    BY <1>1, <1>3 DEF Cheap
<1>6. \A m, e, cost : Dear(m, e, cost)' <=> Dear(m, e, cost)
    BY <1>1, <1>3, <1>4 DEF Dear
<1>7. \A e, b, own, paid : Between(e, b, own, paid)' <=> Between(e, b, own, paid)
    <2> TAKE e, b, own, paid
    <2>1. \A p : Cheap(p, e, charges[e])' <=> Cheap(p, e, charges[e])
        BY <1>1, <1>3 DEF Cheap
    <2>2. \A m : Dear(m, e, charges[e])' <=> Dear(m, e, charges[e])
        BY <1>1, <1>3, <1>4 DEF Dear
    <2> QED BY <1>3, <1>4, <2>1, <2>2 DEF Between
<1>8. \A f, b, own, run : FrameOk(f, b, own, run)' <=> FrameOk(f, b, own, run)
    <2> TAKE f, b, own, run
    <2>1. Between(CallTarget(f.call), b, own, run - f.spent)' <=> Between(CallTarget(f.call), b, own, run - f.spent)
        <3>1. PICK e : e = CallTarget(f.call)
            OBVIOUS
        <3>2. CallTarget(f.call)' = e
            BY <1>3, <3>1
        <3>3. PICK paid : paid = run - f.spent
            OBVIOUS
        <3>4. Between(e, b, own, paid)' <=> Between(e, b, own, paid)
            BY <1>7
        <3>5. Between(CallTarget(f.call), b, own, run - f.spent)' <=> Between(e, b, own, paid)'
            BY <3>2, <3>3 DEF Between, Cheap, Dear
        <3> QED BY <3>1, <3>3, <3>4, <3>5
    <2>2. Ahead(f.call, minimum)' = Ahead(f.call, minimum)
        BY <1>2
    <2> QED BY <1>1, <1>3, <2>1, <2>2 DEF FrameOk
<1> QED BY <1>1, <1>8

-----------------------------------------------------------------------------
(* The machine.                                                            *)

Stay  == [met : BOOLEAN, laps : Nat]
Frame == [call : Callsubs, height : Int, spent : Nat, stay : Stay]

MachineTypes ==
    /\ at \in Blocks /\ height \in Int /\ spent \in Nat
    /\ frames \in Seq(Frame)
    /\ stay \in Stay /\ laps \in Nat

\* One operation.
Lifted(h, o) == IF h < o.pops \/ h + o.pushes - o.pops > MaxStack THEN -1 ELSE h + o.pushes - o.pops

LEMMA HeightSteps ==
    ASSUME IsProgram(prog), NEW b \in All, height \in Int
    PROVE  \E run : /\ run[0] = height /\ HeightAfter(b) = run[Len(prog[b])]
                    /\ \A n \in 1..Len(prog[b]) : run[n] = Lifted(run[n - 1], prog[b][n])
                    /\ \A n \in 0..Len(prog[b]) : run[n] \in Int
<1> DEFINE N == Len(prog[b])
           After(h, o) == IF h < o.pops \/ h + o.pushes - o.pops > MaxStack
                          THEN -1 ELSE h + o.pushes - o.pops
           G == [x \in (1..N) \X Int |-> After(x[2], prog[b][x[1]])]
           F(f) == [i \in 0..N |-> IF i = 0 THEN height ELSE After(f[i - 1], prog[b][i])]
           run == CHOOSE f : f = F(f)
<1>1. N \in Nat \ {0} /\ \A i \in 1..N : prog[b][i] \in Op
    BY ProgramFacts
<1>2. \A h \in Int, o \in Op : After(h, o) \in Int
    BY CeilingsAreNat DEF Op
<1>3. PICK f \in [0..N -> Int] : StepByStep(f, height, N, G)
    <2>1. G \in [(1..N) \X Int -> Int]
        <3>1. \A x \in (1..N) \X Int : After(x[2], prog[b][x[1]]) \in Int
            <4> TAKE x \in (1..N) \X Int
            <4>1. x[1] \in 1..N /\ x[2] \in Int
                OBVIOUS
            <4> HIDE DEF After, N
            <4> QED BY <1>1, <1>2, <4>1
        <3> HIDE DEF After, N
        <3> QED BY <3>1
    <2> HIDE DEF G, N
    <2> QED BY <1>1, <2>1, RecursionUpTo
<1>4. f = F(f)
    <2>1. f[0] = height /\ \A n \in 1..N : f[n] = G[<<n, f[n - 1]>>]
        BY <1>3 DEF StepByStep
    <2>2. ASSUME NEW i \in 0..N PROVE f[i] = F(f)[i]
        <3>1. CASE i = 0
            BY <2>1, <3>1
        <3>2. CASE i # 0
            <4>1. i \in 1..N /\ i - 1 \in 0..N
                BY <1>1, <3>2
            <4>2. f[i - 1] \in Int
                <5> HIDE DEF N
                <5> QED BY <1>3, <4>1
            <4>3. <<i, f[i - 1]>> \in (1..N) \X Int
                BY <4>1, <4>2
            <4>4. G[<<i, f[i - 1]>>] = After(f[i - 1], prog[b][i])
                <5> HIDE DEF After, N
                <5> QED BY <4>3
            <4> HIDE DEF G, After
            <4> QED BY <2>1, <3>2, <4>1, <4>4
        <3> QED BY <3>1, <3>2
    <2> HIDE DEF N, After
    <2> QED BY <1>3, <2>2
<1>5. run = F(run)
    <2> HIDE DEF F
    <2> QED BY <1>4
<1>6. HeightAfter(b) = run[N]
    BY DEF HeightAfter
<1> HIDE DEF run
<1>7. run[0] = height /\ \A n \in 1..N : run[n] = After(run[n - 1], prog[b][n])
    <2>1. 0 \in 0..N /\ \A n \in 1..N : n \in 0..N /\ n # 0
        BY <1>1
    <2> HIDE DEF N, After
    <2> QED BY <1>5, <2>1
<1> DEFINE T == {n \in Nat : n <= N => run[n] \in Int}
<1>8. \A n \in Nat : n \in T
    <2>1. 0 \in T
        BY <1>7
    <2>2. ASSUME NEW n \in Nat, n \in T PROVE n + 1 \in T
        <3> SUFFICES ASSUME n + 1 <= N PROVE run[n + 1] \in Int
            OBVIOUS
        <3>1. n + 1 \in 1..N /\ (n + 1) - 1 = n /\ n <= N
            BY <1>1
        <3>2. run[n] \in Int
            BY <2>2, <3>1
        <3> HIDE DEF After, N
        <3> QED BY <1>1, <1>2, <1>7, <3>1, <3>2
    <2> HIDE DEF T
    <2> QED BY <2>1, <2>2, NumberInduction
<1>9. \A n \in 1..N : run[n] = Lifted(run[n - 1], prog[b][n])
    BY <1>7 DEF Lifted
<1>10. \A n \in 0..N : run[n] \in Int
    <2> HIDE DEF N
    <2> QED BY <1>1, <1>8
<1> QED BY <1>6, <1>7, <1>9, <1>10

LEMMA HeightFacts ==
    ASSUME IsProgram(prog), NEW b \in All, height \in Int
    PROVE  HeightAfter(b) \in Int
<1>1. Len(prog[b]) \in 0..Len(prog[b])
    BY ProgramFacts
<1> QED BY <1>1, HeightSteps

\* The record f of call i; control is at b since, own of b is paid, run is spent.
Snapshot(i, f, b, own, run) ==
    /\ f = frames[i]
    /\ \/ i = Len(frames) /\ b = at /\ own = Free /\ run = spent
       \/ /\ i < Len(frames)
          /\ b = frames[i + 1].call /\ own = BlockCost(b) /\ run = frames[i + 1].spent

FramesOk ==
    \A i \in 1..Len(frames) : \A f, b, own, run :
        Snapshot(i, f, b, own, run) => FrameOk(f, b, own, run)

RunInv ==
    phase = "running" =>
        /\ at \in DOMAIN minimum /\ Ahead(at, minimum) <= spent
        /\ FramesOk

IdleInv == phase # "running" => at = 1 /\ height = 0 /\ spent = 0 /\ frames = <<>> /\ laps = 0

BudgetInv == CostsInv /\ ReportsInv /\ MachineTypes /\ IdleInv /\ RunInv

\* What the lemmas on a running machine need.
Ready == BudgetInv /\ phase = "running"

LEMMA ReadyFacts ==
    ASSUME Ready
    PROVE  /\ Graph /\ IdentifiedTypes /\ ChargeTypes /\ MinimumSound(minimum)
           /\ IsProgram(prog) /\ Blocks \subseteq All
           /\ Entries \subseteq DOMAIN charges
           /\ Attributed => \A e \in DOMAIN charges : Sound(e, charges[e])
           /\ at \in Blocks /\ at \in DOMAIN minimum /\ Ahead(at, minimum) <= spent
           /\ spent \in Nat /\ frames \in Seq(Frame) /\ FramesOk
           /\ \A b \in DOMAIN minimum : Ahead(b, minimum) \in Int
<1>1. /\ Graph /\ IdentifiedTypes /\ ChargeTypes /\ MinimumSound(minimum)
      /\ Entries \subseteq DOMAIN charges
      /\ Attributed => \A e \in DOMAIN charges : Sound(e, charges[e])
      /\ at \in Blocks /\ at \in DOMAIN minimum /\ Ahead(at, minimum) <= spent
      /\ spent \in Nat /\ frames \in Seq(Frame) /\ FramesOk
    BY DEF Ready, BudgetInv, CostsInv, ContinuationsInv, ReportsInv, MachineTypes, RunInv
<1>2. \A b \in DOMAIN minimum : b \in Blocks /\ minimum[b] \in Int
    BY <1>1 DEF MinimumSound
<1>3. \A b \in Blocks : Through(b).least \in Int
    BY <1>1, ThroughFacts DEF IsCost
<1> QED BY <1>1, <1>2, <1>3, GraphFacts DEF Ahead

LEMMA FrameStep ==
    ASSUME Ready, NEW f \in Frame, NEW b \in Blocks, b \notin Callsubs, b \notin Retsubs,
           NEW run \in Nat, FrameOk(f, b, Free, run), NEW c \in Flow(b),
           NEW charge, Charged(b, charge)
    PROVE  FrameOk(f, c, Free, run + charge)
<1>1. f.call \in Callsubs /\ f.call \in Blocks /\ f.call \in All /\ End(f.call) = "callsub" /\ f.spent \in Nat
    BY ReadyFacts, EntriesAreBlocks DEF Frame, Callsubs
<1>2. c \in Ends(f.call)
    BY <1>1, ReadyFacts, EndsFacts DEF FrameOk
<1>3. ASSUME Attributed PROVE Between(CallTarget(f.call), c, Free, (run + charge) - f.spent)
    <2> DEFINE e == CallTarget(f.call)
    <2>1. e \in Entries /\ e \in DOMAIN charges
        BY <1>1, ReadyFacts DEF Entries
    <2>2. c \in Onward(b)
        BY ReadyFacts, OnwardFacts
    <2>3. PICK paid : paid = run - f.spent
        OBVIOUS
    <2>4. Between(e, b, Free, paid)
        BY <1>3, <2>3 DEF FrameOk
    <2> HIDE DEF e
    <2>5. Between(e, c, Free, paid + charge)
        BY <2>1, <2>2, <2>4, ReadyFacts, BetweenStep
    <2>6. paid + charge = (run + charge) - f.spent
        BY <1>1, <2>3 DEF Charged
    <2> QED BY <2>5, <2>6 DEF e
<1> QED BY <1>2, <1>3 DEF FrameOk

LEMMA FrameCall ==
    ASSUME Ready, NEW f \in Frame, NEW b \in Callsubs,
           NEW run \in Nat, FrameOk(f, b, Free, run),
           NEW charge, Charged(b, charge)
    PROVE  FrameOk(f, b, BlockCost(b), run + charge)
<1>1. f.call \in Callsubs /\ f.spent \in Nat
    BY DEF Frame
<1>2. ASSUME Attributed PROVE Between(CallTarget(f.call), b, BlockCost(b), (run + charge) - f.spent)
    <2> DEFINE e == CallTarget(f.call)
    <2>1. e \in Entries /\ e \in DOMAIN charges
        BY <1>1, ReadyFacts DEF Entries
    <2>2. PICK paid : paid = run - f.spent
        OBVIOUS
    <2>3. Between(e, b, Free, paid)
        BY <1>2, <2>2 DEF FrameOk
    <2> HIDE DEF e
    <2>4. Between(e, b, BlockCost(b), paid + charge)
        BY <2>1, <2>3, ReadyFacts, BetweenCall
    <2>5. paid + charge = (run + charge) - f.spent
        BY <1>1, <2>2 DEF Charged
    <2> QED BY <2>4, <2>5 DEF e
<1> QED BY <1>2 DEF FrameOk

LEMMA FrameEnter ==
    ASSUME Ready, NEW f \in Frame, f.call \in DOMAIN minimum,
           Ahead(f.call, minimum) + BlockCost(f.call).least <= f.spent
    PROVE  FrameOk(f, Last1(f.call).to, Free, f.spent)
<1>1. f.call \in Callsubs /\ f.call \in Blocks /\ f.call \in All /\ End(f.call) = "callsub" /\ f.spent \in Nat
    BY ReadyFacts, EntriesAreBlocks DEF Frame, Callsubs
<1>2. Last1(f.call).to \in Ends(f.call)
    BY <1>1, ReadyFacts, EndsFacts
<1>3. CallTarget(f.call) = Last1(f.call).to /\ CallTarget(f.call) \in Entries
    BY <1>1, ReadyFacts, SuccFacts
<1>4. Between(CallTarget(f.call), CallTarget(f.call), Free, 0)
    BY <1>3, ReadyFacts, BetweenStart
<1>5. f.spent - f.spent = 0
    BY <1>1
<1> QED BY <1>2, <1>3, <1>4, <1>5 DEF FrameOk

\* What a call that returns has paid.
LEMMA CallPaid ==
    ASSUME Ready, Attributed, NEW g \in Frame, NEW r \in Retsubs, NEW run \in Nat,
           FrameOk(g, r, Free, run), NEW charge, Charged(r, charge)
    PROVE  /\ charges[CallTarget(g.call)].least <= (run + charge) - g.spent
           /\ charges[CallTarget(g.call)].most # Unbounded =>
                  (run + charge) - g.spent <= charges[CallTarget(g.call)].most
           /\ (run + charge) - g.spent \in Nat
           /\ CallTarget(g.call) \in DOMAIN charges
           /\ Onward(g.call) = Following(g.call)
<1> DEFINE e == CallTarget(g.call)
<1>1. g.call \in Callsubs /\ g.spent \in Nat
    BY DEF Frame
<1>2. e \in Entries /\ e \in DOMAIN charges
    BY <1>1, ReadyFacts DEF Entries
<1>3. PICK paid : paid = run - g.spent
    OBVIOUS
<1>4. Between(e, r, Free, paid)
    BY <1>3 DEF FrameOk
<1>5. paid + charge = (run + charge) - g.spent
    BY <1>1, <1>3 DEF Charged
<1>6. Onward(g.call) = Following(g.call)
    <2>1. r \in Extent(CallTarget(g.call))
        BY <1>4 DEF Between
    <2>2. g.call \notin Stuck
        BY <2>1 DEF Stuck
    <2> QED BY <1>1, <2>2, ReadyFacts, StuckFacts DEF Attributed
<1> HIDE DEF e
<1>7. /\ charges[e].least <= paid + charge
      /\ charges[e].most # Unbounded => paid + charge <= charges[e].most
    BY <1>2, <1>4, ReadyFacts, BetweenEnd
<1>8. paid + charge \in Nat
    <2>1. charges[e].least \in Nat
        BY <1>2, ReadyFacts DEF ChargeTypes, IsCost
    <2>2. paid + charge \in Int
        BY <1>1, <1>3 DEF Charged
    <2> QED BY <1>7, <2>1, <2>2
<1> QED BY <1>2, <1>5, <1>6, <1>7, <1>8 DEF e

LEMMA FrameBack ==
    ASSUME Ready, NEW f \in Frame, NEW g \in Frame, NEW r \in Retsubs, NEW run \in Nat,
           FrameOk(f, g.call, BlockCost(g.call), g.spent), FrameOk(g, r, Free, run),
           NEW charge, Charged(r, charge), NEW t \in Following(g.call)
    PROVE  FrameOk(f, t, Free, run + charge)
<1>1. /\ f.call \in Callsubs /\ f.call \in Blocks /\ f.call \in All /\ End(f.call) = "callsub"
      /\ g.call \in Callsubs /\ g.call \in Blocks /\ g.call \in All /\ End(g.call) = "callsub"
      /\ f.spent \in Nat /\ g.spent \in Nat
    BY ReadyFacts, EntriesAreBlocks DEF Frame, Callsubs
<1>2. t \in Ends(f.call)
    <2>1. t \in Flow(g.call)
        BY <1>1 DEF Flow
    <2>2. g.call \in Ends(f.call)
        BY DEF FrameOk
    <2> QED BY <1>1, <2>1, <2>2, ReadyFacts, EndsFacts
<1>3. ASSUME Attributed PROVE Between(CallTarget(f.call), t, Free, (run + charge) - f.spent)
    <2> DEFINE e == CallTarget(f.call)
    <2>1. e \in Entries /\ e \in DOMAIN charges
        BY <1>1, ReadyFacts DEF Entries
    <2>2. PICK more : more = (run + charge) - g.spent
        OBVIOUS
    <2>3. /\ charges[CallTarget(g.call)].least <= more
          /\ charges[CallTarget(g.call)].most # Unbounded => more <= charges[CallTarget(g.call)].most
          /\ more \in Nat
          /\ CallTarget(g.call) \in DOMAIN charges
          /\ t \in Onward(g.call)
        BY <1>3, <2>2, CallPaid
    <2>4. PICK paid : paid = g.spent - f.spent
        OBVIOUS
    <2>5. Between(e, g.call, BlockCost(g.call), paid)
        BY <1>3, <2>4 DEF FrameOk
    <2> HIDE DEF e
    <2>6. Between(e, t, Free, paid + more)
        BY <1>1, <2>1, <2>3, <2>5, ReadyFacts, BetweenBack
    <2>7. paid + more = (run + charge) - f.spent
        BY <1>1, <2>2, <2>4 DEF Charged
    <2> QED BY <2>6, <2>7 DEF e
<1> QED BY <1>2, <1>3 DEF FrameOk

-----------------------------------------------------------------------------
(* The analysis keeps the invariant.                                       *)

LEMMA InitBudget == Init => BudgetInv
<1> SUFFICES ASSUME Init PROVE BudgetInv
    OBVIOUS
<1>1. /\ InitIdentify /\ phase = "identify"
      /\ asking = <<>> /\ charges = <<>>
      /\ at = Earliest(Blocks) /\ height = 0 /\ spent = 0 /\ frames = <<>>
      /\ stay = [met |-> FALSE, laps |-> 0] /\ laps = 0
    BY DEF Init, InitAnalysis, InitMachine, InitIdentify
<1>2. ContinuationsInv
    BY <1>1, InitContinuations
<1>3. at = 1 /\ at \in Blocks
    BY <1>1, <1>2, FirstBlock, GraphFacts DEF ContinuationsInv
<1>4. DOMAIN charges = {} /\ asking \in Seq(Entries) /\ DOMAIN asking = {}
    BY <1>1
<1>5. CostsInv
    BY <1>1, <1>2, <1>4 DEF CostsInv, ChargeTypes
<1>6. MachineTypes
    BY <1>1, <1>3 DEF MachineTypes, Stay
<1> QED BY <1>1, <1>3, <1>5, <1>6 DEF BudgetInv, ReportsInv, IdleInv, RunInv

LEMMA RefineCosts == CostsInv /\ Refine /\ UNCHANGED costing => CostsInv'
<1> SUFFICES ASSUME CostsInv, Refine, UNCHANGED costing PROVE CostsInv'
    OBVIOUS
<1>1. UNCHANGED program /\ asking' = asking /\ charges' = charges /\ phase' \in {"identify", "identified"}
    BY RefineFacts DEF costing
<1>2. ContinuationsInv'
    BY RefineKeeps DEF CostsInv
<1>3. /\ Entries' = Entries /\ (Attributed <=> Attributed')
    BY <1>1, SameProgram
<1>4. ChargeTypes'
    BY <1>1, <1>3 DEF CostsInv, ChargeTypes, IsCost, Unbounded
<1>5. ASSUME Attributed', NEW e \in DOMAIN charges' PROVE Sound(e, charges[e])'
    <2>1. PICK cost : cost = charges[e]
        OBVIOUS
    <2>2. Sound(e, cost)
        BY <1>1, <1>3, <1>5, <2>1 DEF CostsInv
    <2>3. Graph /\ ChargeTypes /\ Grown
        BY <1>1 DEF CostsInv, ContinuationsInv, Grown
    <2>4. Sound(e, cost)'
        BY <1>1, <1>4, <2>2, <2>3, SoundGrows
    <2> QED BY <1>1, <2>1, <2>4
<1> QED BY <1>1, <1>2, <1>3, <1>4, <1>5 DEF CostsInv

LEMMA SameMachine ==
    ASSUME MachineTypes, UNCHANGED program, UNCHANGED machine, stay' \in Stay, laps' \in Nat
    PROVE  MachineTypes'
<1>1. Blocks' = Blocks /\ Callsubs' = Callsubs
    BY SameProgram
<1> QED BY <1>1 DEF MachineTypes, machine, Frame, Stay

LEMMA AnalysisKeeps == BudgetInv /\ Analysis /\ UNCHANGED <<machine, watcher>> => BudgetInv'
<1> SUFFICES ASSUME BudgetInv, Analysis, UNCHANGED <<machine, watcher>> PROVE BudgetInv'
    OBVIOUS
<1>1. /\ phase # "running" /\ phase' # "running" /\ UNCHANGED program
      /\ CostsInv' /\ ReportsInv'
    <2>1. CASE Refine /\ UNCHANGED <<costing, reports>>
        BY <2>1, RefineFacts, RefineCosts DEF BudgetInv, ReportsInv
    <2>2. CASE Ask /\ UNCHANGED reports
        BY <2>2, AskKeeps DEF BudgetInv, ReportsInv, Ask
    <2>3. CASE Summarise /\ UNCHANGED reports
        BY <2>3, SummariseKeeps DEF BudgetInv, ReportsInv, Summarise
    <2>4. CASE Analyse
        BY <2>4, AnalyseFacts DEF BudgetInv, Analyse
    <2> QED BY <2>1, <2>2, <2>3, <2>4 DEF Analysis
<1>2. MachineTypes'
    BY <1>1, SameMachine DEF BudgetInv, MachineTypes, watcher
<1>3. IdleInv' /\ RunInv'
    BY <1>1 DEF BudgetInv, IdleInv, RunInv, machine, watcher
<1> QED BY <1>1, <1>2, <1>3 DEF BudgetInv

\* What the reports say does not depend on the machine.
LEMMA ReportsStay ==
    ASSUME BudgetInv, UNCHANGED <<program, identified, costing, reports>>,
           phase \in {"analysed", "running"}, phase' \in {"analysed", "running"}
    PROVE  CostsInv' /\ ReportsInv'
<1>1. UNCHANGED program /\ charges' = charges /\ minimum' = minimum
    BY DEF costing, reports
<1>2. CostsInv'
    BY CostsStay DEF BudgetInv
<1>3. PICK min : min = minimum
    OBVIOUS
<1>4. MinimumSound(min)
    BY <1>3 DEF BudgetInv, ReportsInv
<1>5. MinimumSound(min)'
    BY <1>1, <1>4, SameCosts
<1>6. MinimumSound(minimum)'
    BY <1>1, <1>3, <1>5 DEF MinimumSound, Ahead
<1> QED BY <1>1, <1>2, <1>6, SameProgram DEF BudgetInv, ReportsInv

LEMMA WatchKeeps == BudgetInv /\ Watch => BudgetInv'
<1> SUFFICES ASSUME BudgetInv, Watch PROVE BudgetInv'
    OBVIOUS
<1>1. /\ phase = "analysed" /\ phase' = "running"
      /\ UNCHANGED <<program, identified, costing, reports>> /\ UNCHANGED machine
      /\ UNCHANGED program /\ charges' = charges /\ minimum' = minimum
      /\ laps' = laps /\ stay' = [met |-> at = watch'.block, laps |-> 0]
      /\ at' = at /\ spent' = spent /\ frames' = frames
    BY DEF Watch, machine, costing, reports
<1>2. CostsInv' /\ ReportsInv'
    BY <1>1, ReportsStay
<1>3. MachineTypes'
    <2>1. stay' \in Stay /\ laps' \in Nat
        BY <1>1 DEF Stay, BudgetInv, MachineTypes
    <2> QED BY <1>1, <2>1, SameMachine DEF BudgetInv
<1>4. at = 1 /\ spent = 0 /\ frames = <<>> /\ MinimumSound(minimum)
    BY <1>1 DEF BudgetInv, IdleInv, ReportsInv
<1>5. at' \in DOMAIN minimum' /\ Ahead(at, minimum)' <= spent'
    <2>1. Through(at)' = Through(at)
        <3>1. PICK b : b = at
            OBVIOUS
        <3>2. Through(b)' = Through(b)
            BY <1>1, SameCosts
        <3>3. Through(at)' = Through(b)'
            BY <1>1, <3>1 DEF Through, BlockCost, End, Known, CallTarget, Last1
        <3> QED BY <3>1, <3>2, <3>3
    <2> QED BY <1>1, <1>4, <2>1 DEF MinimumSound, Ahead
<1>6. FramesOk'
    BY <1>1, <1>4 DEF FramesOk
<1> QED BY <1>1, <1>2, <1>3, <1>5, <1>6 DEF BudgetInv, IdleInv, RunInv

-----------------------------------------------------------------------------
(* The machine keeps the invariant.                                        *)

\* The records of the calls are right where control goes, own is paid there and run
\* is spent.
LEMMA ReadFrame ==
    ASSUME Ready, NEW i \in 1..Len(frames)
    PROVE  /\ frames[i] \in Frame
           /\ i = Len(frames) => FrameOk(frames[i], at, Free, spent)
           /\ i < Len(frames) => FrameOk(frames[i], frames[i + 1].call,
                                         BlockCost(frames[i + 1].call), frames[i + 1].spent)
<1>1. FramesOk /\ frames \in Seq(Frame)
    BY ReadyFacts
<1>2. frames[i] \in Frame
    BY <1>1
<1>3. ASSUME i = Len(frames) PROVE FrameOk(frames[i], at, Free, spent)
    <2>1. Snapshot(i, frames[i], at, Free, spent)
        BY <1>3 DEF Snapshot
    <2> QED BY <1>1, <2>1 DEF FramesOk
<1>4. ASSUME i < Len(frames)
      PROVE  FrameOk(frames[i], frames[i + 1].call,
                     BlockCost(frames[i + 1].call), frames[i + 1].spent)
    <2>1. Snapshot(i, frames[i], frames[i + 1].call, BlockCost(frames[i + 1].call), frames[i + 1].spent)
        BY <1>4 DEF Snapshot
    <2> QED BY <1>1, <2>1 DEF FramesOk
<1> QED BY <1>2, <1>3, <1>4


LEMMA StandFacts ==
    ASSUME Ready, UNCHANGED <<program, phase, identified, costing, reports>>
    PROVE  /\ CostsInv' /\ ReportsInv' /\ IdleInv'
           /\ Blocks' = Blocks /\ Callsubs' = Callsubs /\ Frame' = Frame /\ minimum' = minimum
           /\ \A b : BlockCost(b)' = BlockCost(b)
           /\ \A b : Ahead(b, minimum)' = Ahead(b, minimum)
           /\ \A f, b, own, run : FrameOk(f, b, own, run)' <=> FrameOk(f, b, own, run)
<1>1. phase = "running" /\ phase' = "running" /\ BudgetInv
    BY DEF Ready
<1>2. UNCHANGED program /\ charges' = charges /\ minimum' = minimum
    BY DEF costing, reports
<1>3. Blocks' = Blocks /\ Callsubs' = Callsubs
    BY <1>2, SameProgram
<1>4. \A b : Ahead(b, minimum)' = Ahead(b, minimum)
    BY <1>2, SameCosts DEF Ahead
<1> QED BY <1>1, <1>2, <1>3, <1>4, ReportsStay, SameFrames DEF IdleInv, Frame, Stay

LEMMA WayFacts ==
    ASSUME Ready, NEW c \in succ[at], NEW charge, Charged(at, charge)
    PROVE  /\ c \in Blocks /\ c \in DOMAIN minimum
           /\ Ahead(c, minimum) <= spent + charge
           /\ Ahead(at, minimum) + BlockCost(at).least <= spent + charge
<1>1. /\ at \in Blocks /\ at \in DOMAIN minimum /\ Ahead(at, minimum) <= spent /\ spent \in Nat
      /\ \A b \in DOMAIN minimum : Ahead(b, minimum) \in Int
      /\ Graph /\ MinimumSound(minimum) /\ ChargeTypes
    BY ReadyFacts
<1>2. BlockCost(at).least \in Nat
    BY <1>1, ThroughFacts DEF IsCost
<1>3. c \in DOMAIN minimum /\ c \in Blocks /\ Ahead(c, minimum) <= Ahead(at, minimum) + BlockCost(at).least
    BY <1>1 DEF MinimumSound
<1> QED BY <1>1, <1>2, <1>3 DEF Charged

LEMMA MoveFacts ==
    ASSUME NEW s \in Stay, NEW b, NEW c, laps \in Nat, Move(b, c, s)
    PROVE  stay' \in Stay /\ laps' \in Nat
<1> DEFINE inside == {b, c} \subseteq watch.loop.shape.body
           turn   == IF inside /\ s.met /\ c = watch.block THEN 1 ELSE 0
<1>1. turn \in Nat /\ s.met \in BOOLEAN /\ s.laps \in Nat
    BY DEF Stay
<1>2. /\ laps' = laps + turn
      /\ stay' = IF inside THEN [met |-> s.met \/ c = watch.block, laps |-> s.laps + turn]
                 ELSE Arrived(c)
    BY DEF Move
<1>3. Arrived(c) \in Stay
    BY DEF Arrived, Stay
<1>4. [met |-> s.met \/ c = watch.block, laps |-> s.laps + turn] \in Stay
    <2>1. s.laps + turn \in Nat /\ (s.met \/ c = watch.block) \in BOOLEAN
        BY <1>1
    <2> HIDE DEF turn
    <2> QED BY <2>1 DEF Stay
<1> HIDE DEF turn, inside
<1> QED BY <1>1, <1>2, <1>3, <1>4

LEMMA RunningFacts ==
    ASSUME Ready, Execute
    PROVE  /\ at \in All /\ HeightAfter(at) \in Int /\ HeightAfter(at) # -1
           /\ spent' \in Nat /\ spent' <= Credit
           /\ \E charge \in Nat : Charged(at, charge) /\ spent' = spent + charge
<1>1. Graph /\ at \in Blocks /\ spent \in Nat /\ IsProgram(prog) /\ Blocks \subseteq All
    BY ReadyFacts
<1>2. height \in Int
    BY DEF Ready, BudgetInv, MachineTypes
<1> QED BY <1>1, <1>2, ExecuteFacts, HeightFacts

Proceed(fr, b, run) ==
    \A i \in 1..Len(fr) :
        /\ i = Len(fr) => FrameOk(fr[i], b, Free, run)
        /\ i < Len(fr) => FrameOk(fr[i], fr[i + 1].call, BlockCost(fr[i + 1].call), fr[i + 1].spent)

\* Where control goes, the invariant is kept if it is in the places that change.
LEMMA OperateKeeps ==
    ASSUME Ready, UNCHANGED <<program, phase, identified, costing, reports>>,
           NEW fr \in Seq(Frame), frames' = fr, NEW b \in succ[at], at' = b,
           NEW charge, Charged(at, charge), NEW run \in Nat, run = spent + charge, spent' = run,
           Proceed(fr, b, run),
           height' \in Int, stay' \in Stay, laps' \in Nat
    PROVE  BudgetInv'
<1>1. /\ CostsInv' /\ ReportsInv' /\ IdleInv'
      /\ Blocks' = Blocks /\ Callsubs' = Callsubs /\ Frame' = Frame /\ minimum' = minimum
      /\ \A c : BlockCost(c)' = BlockCost(c)
      /\ \A c : Ahead(c, minimum)' = Ahead(c, minimum)
      /\ \A f, c, own, r : FrameOk(f, c, own, r)' <=> FrameOk(f, c, own, r)
    BY StandFacts
<1>2. b \in Blocks /\ b \in DOMAIN minimum /\ Ahead(b, minimum) <= run
    BY WayFacts
<1>3. MachineTypes'
    BY <1>1, <1>2 DEF MachineTypes, Stay
<1>4. at' \in DOMAIN minimum' /\ Ahead(at, minimum)' <= spent'
    <2>1. Ahead(b, minimum)' = Ahead(b, minimum)
        BY <1>1
    <2>2. Ahead(at, minimum)' = Ahead(b, minimum)'
        BY DEF Ahead, Through, BlockCost, End, Known, CallTarget, Last1
    <2> QED BY <1>1, <1>2, <2>1, <2>2
<1>5. FramesOk'
    <2> SUFFICES ASSUME NEW i \in 1..Len(fr), NEW f, NEW c, NEW own, NEW r,
                        Snapshot(i, f, c, own, r)'
                 PROVE  FrameOk(f, c, own, r)'
        BY DEF FramesOk
    <2>1. /\ f = fr[i]
          /\ \/ i = Len(fr) /\ c = b /\ own = Free /\ r = run
             \/ i < Len(fr) /\ c = fr[i + 1].call /\ own = BlockCost(c)' /\ r = fr[i + 1].spent
        BY DEF Snapshot
    <2>2. BlockCost(c)' = BlockCost(c)
        BY <1>1
    <2>3. FrameOk(f, c, own, r)
        BY <2>1, <2>2 DEF Proceed
    <2> QED BY <1>1, <2>3
<1> QED BY <1>1, <1>3, <1>4, <1>5 DEF BudgetInv, RunInv, Ready

LEMMA StepKeeps ==
    ASSUME Ready, UNCHANGED <<program, phase, identified, costing, reports>>, Step
    PROVE  BudgetInv'
<1>1. /\ End(at) \notin {"callsub", "retsub"} /\ Execute
      /\ height' = HeightAfter(at) /\ at' \in Flow(at)
      /\ Move(at, at', stay) /\ frames' = frames
    BY DEF Step
<1>2. PICK charge \in Nat : Charged(at, charge) /\ spent' = spent + charge
    BY <1>1, RunningFacts
<1>3. PICK b : b = at'
    OBVIOUS
<1>4. /\ Graph /\ at \in Blocks /\ frames \in Seq(Frame) /\ spent \in Nat
      /\ succ[at] = Flow(at) /\ at \notin Callsubs /\ at \notin Retsubs
    BY <1>1, ReadyFacts, SuccFacts DEF Callsubs, Retsubs
<1>5. Proceed(frames, b, spent + charge)
    <2> SUFFICES ASSUME NEW i \in 1..Len(frames)
                 PROVE  /\ i = Len(frames) => FrameOk(frames[i], b, Free, spent + charge)
                        /\ i < Len(frames) => FrameOk(frames[i], frames[i + 1].call,
                                                BlockCost(frames[i + 1].call), frames[i + 1].spent)
        BY DEF Proceed
    <2>1. ASSUME i = Len(frames) PROVE FrameOk(frames[i], b, Free, spent + charge)
        BY <1>1, <1>2, <1>3, <1>4, <2>1, ReadFrame, FrameStep
    <2> QED BY <2>1, ReadFrame
<1>6. stay' \in Stay /\ laps' \in Nat
    <2>1. stay \in Stay /\ laps \in Nat
        BY DEF Ready, BudgetInv, MachineTypes
    <2> QED BY <1>1, <2>1, MoveFacts
<1>7. height' \in Int /\ spent + charge \in Nat
    BY <1>1, <1>2, <1>4, RunningFacts
<1>8. PICK run \in Nat : run = spent + charge
    BY <1>7
<1>9. PICK fr \in Seq(Frame) : fr = frames
    BY <1>4
<1> QED BY <1>1, <1>2, <1>3, <1>4, <1>5, <1>6, <1>7, <1>8, <1>9, OperateKeeps

LEMMA CallKeeps ==
    ASSUME Ready, UNCHANGED <<program, phase, identified, costing, reports>>, Call
    PROVE  BudgetInv'
<1>1. /\ End(at) = "callsub" /\ Execute
      /\ height' = HeightAfter(at) /\ at' = Last1(at).to
      /\ frames' = Append(frames, [call |-> at, height |-> height', spent |-> spent', stay |-> stay])
      /\ stay' = Arrived(at') /\ laps' = laps
    BY DEF Call
<1>2. PICK charge \in Nat : Charged(at, charge) /\ spent' = spent + charge
    BY <1>1, RunningFacts
<1>3. PICK b : b = at'
    OBVIOUS
<1>4. /\ Graph /\ at \in Blocks /\ at \in DOMAIN minimum /\ frames \in Seq(Frame) /\ spent \in Nat
      /\ at \in Callsubs /\ succ[at] = {b} /\ b \in succ[at]
    BY <1>1, <1>3, ReadyFacts, SuccFacts DEF Callsubs
<1>5. height' \in Int /\ spent + charge \in Nat
    BY <1>1, <1>2, <1>4, RunningFacts
<1>6. PICK run \in Nat : run = spent + charge
    BY <1>5
<1>7. stay \in Stay /\ stay' \in Stay /\ laps' \in Nat
    BY <1>1 DEF Ready, BudgetInv, MachineTypes, Arrived, Stay
<1>8. PICK new : new = [call |-> at, height |-> height', spent |-> run, stay |-> stay]
    OBVIOUS
<1>9. new \in Frame /\ new.call = at /\ new.spent = run
    BY <1>4, <1>5, <1>7, <1>8 DEF Frame
<1>10. PICK fr \in Seq(Frame) : fr = Append(frames, new)
    <2>1. frames \in Seq(Frame) /\ new \in Frame
        BY <1>4, <1>9
    <2>2. Append(frames, new) \in Seq(Frame)
        BY <2>1
    <2> QED BY <2>2
<1>11. /\ Len(fr) = Len(frames) + 1 /\ Len(frames) \in Nat
       /\ fr[Len(fr)] = new
       /\ \A i \in 1..Len(frames) : fr[i] = frames[i]
    BY <1>4, <1>9, <1>10
<1>12. FrameOk(new, b, Free, run)
    <2>1. Ahead(at, minimum) + BlockCost(at).least <= run
        BY <1>2, <1>4, <1>6, WayFacts
    <2> QED BY <1>1, <1>3, <1>4, <1>9, <2>1, FrameEnter
<1>13. Proceed(fr, b, run)
    <2> SUFFICES ASSUME NEW i \in 1..Len(fr)
                 PROVE  /\ i = Len(fr) => FrameOk(fr[i], b, Free, run)
                        /\ i < Len(fr) => FrameOk(fr[i], fr[i + 1].call,
                                                BlockCost(fr[i + 1].call), fr[i + 1].spent)
        BY DEF Proceed
    <2>1. ASSUME i = Len(fr) PROVE FrameOk(fr[i], b, Free, run)
        BY <1>11, <1>12, <2>1
    <2>2. ASSUME i = Len(frames)
          PROVE  FrameOk(fr[i], fr[i + 1].call, BlockCost(fr[i + 1].call), fr[i + 1].spent)
        <3>1. i \in 1..Len(frames) /\ fr[i] = frames[i] /\ fr[i + 1] = new
            BY <1>11, <2>2
        <3>2. frames[i] \in Frame /\ FrameOk(frames[i], at, Free, spent)
            BY <2>2, <3>1, ReadFrame
        <3>3. FrameOk(frames[i], at, BlockCost(at), spent + charge)
            BY <1>2, <1>4, <3>2, FrameCall
        <3> QED BY <1>6, <1>9, <3>1, <3>3
    <2>3. ASSUME i < Len(frames)
          PROVE  FrameOk(fr[i], fr[i + 1].call, BlockCost(fr[i + 1].call), fr[i + 1].spent)
        <3>1. i \in 1..Len(frames) /\ fr[i] = frames[i] /\ fr[i + 1] = frames[i + 1]
            BY <1>11, <2>3
        <3> QED BY <2>3, <3>1, ReadFrame
    <2>4. i = Len(fr) \/ i = Len(frames) \/ i < Len(frames)
        BY <1>11
    <2> QED BY <1>11, <2>1, <2>2, <2>3, <2>4
<1> QED BY <1>1, <1>2, <1>3, <1>4, <1>5, <1>6, <1>7, <1>8, <1>10, <1>13, OperateKeeps

\* What a return finds.
LEMMA ReturnFacts ==
    ASSUME Ready, Return
    PROVE  /\ frames # <<>> /\ Len(frames) \in 1..Len(frames)
           /\ Last(frames) = frames[Len(frames)] /\ Last(frames) \in Frame
           /\ at \in Retsubs /\ FrameOk(Last(frames), at, Free, spent)
           /\ Following(Last(frames).call) \subseteq succ[at]
           /\ Front(frames) \in Seq(Frame) /\ Len(Front(frames)) = Len(frames) - 1
           /\ \A i \in 1..(Len(frames) - 1) : Front(frames)[i] = frames[i]
           /\ \E charge \in Nat : Charged(at, charge) /\ spent' = spent + charge
<1>1. End(at) = "retsub" /\ frames # <<>> /\ Execute
    BY DEF Return
<1>2. Graph /\ at \in Blocks /\ frames \in Seq(Frame) /\ at \in Retsubs
    BY <1>1, ReadyFacts DEF Retsubs
<1>3. /\ Len(frames) \in 1..Len(frames)
      /\ Last(frames) = frames[Len(frames)] /\ Last(frames) \in Frame
      /\ Front(frames) \in Seq(Frame) /\ Len(Front(frames)) = Len(frames) - 1
      /\ \A i \in 1..(Len(frames) - 1) : Front(frames)[i] = frames[i]
    BY <1>1, <1>2, EndOfSeq
<1>4. FrameOk(Last(frames), at, Free, spent)
    BY <1>3, ReadFrame
<1>5. Following(Last(frames).call) \subseteq succ[at]
    <2>1. Last(frames).call \in Callsubs /\ at \in Ends(Last(frames).call)
        BY <1>3, <1>4 DEF Frame, FrameOk
    <2> QED BY <1>2, <2>1, SuccFacts
<1> QED BY <1>1, <1>2, <1>3, <1>4, <1>5, RunningFacts

LEMMA ReturnKeeps ==
    ASSUME Ready, UNCHANGED <<program, phase, identified, costing, reports>>, Return
    PROVE  BudgetInv'
<1> DEFINE g == Last(frames)
           proto == Proto(Last1(g.call).to)
<1>1. /\ End(at) = "retsub" /\ frames # <<>> /\ Execute
      /\ height' = IF proto = <<>> THEN HeightAfter(at) ELSE g.height - proto[1] + proto[2]
      /\ at' \in Following(g.call)
      /\ Move(g.call, at', g.stay)
      /\ frames' = Front(frames)
    BY DEF Return
<1>2. /\ Len(frames) \in 1..Len(frames)
      /\ g = frames[Len(frames)] /\ g \in Frame
      /\ at \in Retsubs /\ FrameOk(g, at, Free, spent)
      /\ Following(g.call) \subseteq succ[at]
      /\ Front(frames) \in Seq(Frame) /\ Len(Front(frames)) = Len(frames) - 1
      /\ \A i \in 1..(Len(frames) - 1) : Front(frames)[i] = frames[i]
    BY ReturnFacts
<1>3. PICK charge \in Nat : Charged(at, charge) /\ spent' = spent + charge
    BY ReturnFacts
<1>4. PICK b : b = at'
    OBVIOUS
<1>5. spent \in Nat /\ spent + charge \in Nat /\ Graph /\ at \in Blocks /\ Len(frames) \in Nat
    BY <1>2, <1>3, ReadyFacts
<1>6. height' \in Int
    <2>1. HeightAfter(at) \in Int /\ g.height \in Int
        BY <1>1, <1>2, RunningFacts DEF Frame
    <2>2. proto # <<>> => proto[1] \in Int /\ proto[2] \in Int
        <3>1. g.call \in Blocks /\ Last1(g.call).to \in Blocks
            BY <1>2, <1>5, SuccFacts, EntriesAreBlocks DEF Frame
        <3>2. Last1(g.call).to \in All /\ IsProgram(prog)
            BY <3>1, ReadyFacts
        <3>3. PICK t \in All : t = Last1(g.call).to
            BY <3>2
        <3>4. 1 \in 1..Len(prog[t]) /\ prog[t][1] \in Op
            BY <3>2, ProgramFacts
        <3>5. Head(prog[t]) = prog[t][1]
            OBVIOUS
        <3>6. Head(prog[t]).imm \in Int /\ Head(prog[t]).rets \in Int
            BY <3>4, <3>5 DEF Op
        <3> QED BY <3>3, <3>6 DEF Proto
    <2> HIDE DEF proto, g
    <2> QED BY <1>1, <2>1, <2>2
<1> HIDE DEF g, proto
<1>7. stay' \in Stay /\ laps' \in Nat
    <2>1. g.stay \in Stay /\ laps \in Nat
        BY <1>2 DEF Ready, BudgetInv, MachineTypes, Frame
    <2> QED BY <1>1, <2>1, MoveFacts
<1>8. PICK run \in Nat : run = spent + charge
    BY <1>5
<1>9. PICK fr \in Seq(Frame) : fr = Front(frames)
    BY <1>2
<1>10. Proceed(fr, b, run)
    <2> SUFFICES ASSUME NEW i \in 1..Len(fr)
                 PROVE  /\ i = Len(fr) => FrameOk(fr[i], b, Free, run)
                        /\ i < Len(fr) => FrameOk(fr[i], fr[i + 1].call,
                                                BlockCost(fr[i + 1].call), fr[i + 1].spent)
        BY DEF Proceed
    <2>1. i \in 1..Len(frames) /\ i < Len(frames) /\ fr[i] = frames[i]
        BY <1>2, <1>5, <1>9
    <2>2. /\ frames[i] \in Frame
          /\ FrameOk(frames[i], frames[i + 1].call, BlockCost(frames[i + 1].call), frames[i + 1].spent)
        BY <2>1, ReadFrame
    <2>3. ASSUME i = Len(fr) PROVE FrameOk(fr[i], b, Free, run)
        <3>1. i + 1 = Len(frames) /\ frames[i + 1] = g
            BY <1>2, <1>5, <1>9, <2>3
        <3>2. FrameOk(frames[i], g.call, BlockCost(g.call), g.spent)
            BY <2>2, <3>1
        <3>3. b \in Following(g.call)
            BY <1>1, <1>4
        <3>4. FrameOk(frames[i], b, Free, spent + charge)
            BY <1>2, <1>3, <1>5, <2>2, <3>2, <3>3, FrameBack
        <3> QED BY <1>8, <2>1, <3>4
    <2>4. i < Len(fr) => fr[i + 1] = frames[i + 1]
        BY <1>2, <1>5, <1>9
    <2> QED BY <2>1, <2>2, <2>3, <2>4
<1>11. b \in succ[at]
    BY <1>1, <1>2, <1>4
<1> QED BY <1>1, <1>3, <1>4, <1>6, <1>7, <1>8, <1>9, <1>10, <1>11, OperateKeeps

-----------------------------------------------------------------------------
(* The theorems.                                                           *)

LEMMA NextBudget == BudgetInv /\ [Next]_vars => BudgetInv'
<1> SUFFICES ASSUME BudgetInv, [Next]_vars PROVE BudgetInv'
    OBVIOUS
<1>1. CASE Analysis /\ UNCHANGED <<machine, watcher>>
    BY <1>1, AnalysisKeeps
<1>2. CASE Watch
    BY <1>2, WatchKeeps
<1>3. CASE Operate
    <2>1. Ready /\ UNCHANGED <<program, phase, identified, costing, reports>> /\ (Step \/ Call \/ Return)
        BY <1>3 DEF Operate, Ready
    <2> QED BY <2>1, StepKeeps, CallKeeps, ReturnKeeps
<1>4. CASE UNCHANGED vars
    <2>1. /\ UNCHANGED <<program, identified, costing, reports>> /\ phase' = phase
          /\ UNCHANGED program /\ UNCHANGED machine
          /\ at' = at /\ height' = height /\ spent' = spent /\ frames' = frames
          /\ stay' = stay /\ laps' = laps
        BY <1>4 DEF vars, machine, watcher
    <2>2. MachineTypes'
        BY <2>1, SameMachine DEF BudgetInv, MachineTypes
    <2>3. CASE phase \notin {"analysed", "running"}
        <3>1. CostsInv'
            BY <2>1, CostsStay DEF BudgetInv, CostsInv
        <3> QED BY <2>1, <2>2, <2>3, <3>1 DEF BudgetInv, ReportsInv, IdleInv, RunInv
    <2>4. CASE phase = "analysed"
        <3>1. CostsInv' /\ ReportsInv'
            BY <2>1, <2>4, ReportsStay
        <3> QED BY <2>1, <2>2, <2>4, <3>1 DEF BudgetInv, IdleInv, RunInv
    <2>5. CASE phase = "running"
        <3>1. Ready
            BY <2>5 DEF Ready
        <3>2. /\ CostsInv' /\ ReportsInv' /\ IdleInv'
              /\ minimum' = minimum
              /\ \A b : BlockCost(b)' = BlockCost(b)
              /\ \A b : Ahead(b, minimum)' = Ahead(b, minimum)
              /\ \A f, b, own, run : FrameOk(f, b, own, run)' <=> FrameOk(f, b, own, run)
            BY <2>1, <3>1, StandFacts
        <3>3. FramesOk'
            <4> SUFFICES ASSUME NEW i \in 1..Len(frames), NEW f, NEW c, NEW own, NEW r,
                                Snapshot(i, f, c, own, r)'
                         PROVE  FrameOk(f, c, own, r)'
                BY <2>1 DEF FramesOk
            <4>1. Snapshot(i, f, c, own, r)
                <5>1. BlockCost(c)' = BlockCost(c)
                    BY <3>2
                <5>2. /\ f = frames[i]
                      /\ \/ i = Len(frames) /\ c = at /\ own = Free /\ r = spent
                         \/ /\ i < Len(frames) /\ c = frames[i + 1].call /\ own = BlockCost(c)'
                            /\ r = frames[i + 1].spent
                    BY <2>1 DEF Snapshot
                <5> QED BY <5>1, <5>2 DEF Snapshot
            <4>2. FrameOk(f, c, own, r)
                BY <3>1, <4>1, ReadyFacts DEF FramesOk
            <4> QED BY <3>2, <4>2
        <3>4. at' \in DOMAIN minimum' /\ Ahead(at, minimum)' <= spent'
            <4>1. PICK b : b = at
                OBVIOUS
            <4>2. Ahead(at, minimum)' = Ahead(b, minimum)'
                BY <2>1, <4>1 DEF Ahead, Through, BlockCost, End, Known, CallTarget, Last1
            <4>3. at \in DOMAIN minimum /\ Ahead(b, minimum) <= spent
                BY <3>1, <4>1, ReadyFacts
            <4>4. Ahead(b, minimum)' = Ahead(b, minimum)
                BY <3>2
            <4> QED BY <2>1, <3>2, <4>2, <4>3, <4>4
        <3> QED BY <2>2, <3>2, <3>3, <3>4 DEF BudgetInv, RunInv
    <2> QED BY <2>2, <2>3, <2>4, <2>5
<1> QED BY <1>1, <1>2, <1>3, <1>4 DEF Next

\* The invariant: the continuations are those of the routines' extents, the summary of a
\* routine is between the least and the most its runs pay, minimum is nowhere ahead of
\* what the machine has spent, and neither is any call in progress (budget/costs.py,
\* budget/queries.py, cfg/subroutines.py).
THEOREM BudgetInvariant == Spec => []BudgetInv
<1> QED BY InitBudget, NextBudget, PTL DEF Spec

\* Where each call has one routine, of its own blocks, that settles, identify_subroutines
\* does not run out of rounds, and needs one (cfg/subroutines.py).
THEOREM RoundsAreEnough == Spec => [](Attributed => RoundsSettle)
<1>1. BudgetInv => (Attributed => RoundsSettle)
    <2> SUFFICES ASSUME BudgetInv, Attributed, phase # "identify"
                 PROVE  round < MaxRounds
        BY DEF RoundsSettle
    <2>1. round = 1 /\ Graph
        BY DEF BudgetInv, CostsInv, ContinuationsInv
    <2>2. IsFiniteSet(Blocks) /\ Callsubs \subseteq Blocks /\ Entries \subseteq Blocks
        BY <2>1, GraphFacts, EntriesAreBlocks
    <2>3. Cardinality(Callsubs) \in Nat /\ Cardinality(Entries) \in Nat
        BY <2>2, FS_Subset, FS_CardinalityType
    <2> QED BY <2>1, <2>3 DEF MaxRounds
<1> QED BY <1>1, BudgetInvariant, PTL

\* What Execute makes of the reports, in a step that finishes block b.
LEMMA FinishedFacts ==
    ASSUME BudgetInv, [Next]_vars, spent' # spent, NEW b \in Finished
    PROVE  /\ Ready /\ spent' <= Credit
           /\ minimum[b] \in Int
           /\ (b \in Callsubs => Attributed) => spent' >= minimum[b]
<1>1. Operate
    BY DEF Next, Watch, Analysis, machine, vars
<1>2. Ready /\ (Step \/ Call \/ Return)
    BY <1>1 DEF Operate, Ready
<1>3. Execute
    BY <1>2 DEF Step, Call, Return
<1>4. spent' <= Credit /\ spent' \in Nat
    BY <1>2, <1>3, RunningFacts
<1>5. PICK charge \in Nat : Charged(at, charge) /\ spent' = spent + charge
    BY <1>2, <1>3, RunningFacts
<1>6. /\ Graph /\ ChargeTypes /\ MinimumSound(minimum) /\ at \in Blocks /\ at \in DOMAIN minimum
      /\ Ahead(at, minimum) <= spent /\ spent \in Nat /\ frames \in Seq(Frame)
      /\ \A c \in DOMAIN minimum : Ahead(c, minimum) \in Int
    BY <1>2, ReadyFacts
<1>7. CASE b = at /\ End(at) # "callsub"
    <2>1. Through(at) = BlockCost(at) /\ BlockCost(at).least \in Nat
        BY <1>6, <1>7, ThroughFacts DEF IsCost, Through
    <2>2. minimum[at] \in Int /\ minimum[at] = Ahead(at, minimum) + BlockCost(at).least
        BY <1>6, <2>1 DEF Ahead, MinimumSound
    <2>3. minimum[b] <= spent'
        BY <1>5, <1>6, <1>7, <2>1, <2>2 DEF Charged
    <2> QED BY <1>2, <1>4, <2>2, <2>3, <1>7
<1>8. CASE Len(frames') < Len(frames) /\ b = Last(frames).call
    <2>1. Return
        <3>1. Len(frames) \in Nat
            BY <1>6
        <3>2. Step => frames' = frames
            BY DEF Step
        <3>3. Call => Len(frames') = Len(frames) + 1
            BY <1>6 DEF Call
        <3> QED BY <1>2, <1>8, <3>1, <3>2, <3>3
    <2> DEFINE g == Last(frames)
    <2>2. g \in Frame /\ at \in Retsubs /\ FrameOk(g, at, Free, spent)
        BY <1>2, <2>1, ReturnFacts
    <2> HIDE DEF g
    <2>3. /\ g.call \in Callsubs /\ g.call \in Blocks /\ End(g.call) = "callsub" /\ g.spent \in Nat
        BY <1>6, <2>2, EntriesAreBlocks DEF Frame, Callsubs
    <2>4. SUFFICES ASSUME Attributed PROVE minimum[g.call] <= spent'
        <3>1. minimum[g.call] \in Int
            BY <1>6, <2>2 DEF FrameOk, MinimumSound
        <3> QED BY <1>2, <1>4, <1>8, <2>3, <2>4, <3>1 DEF g
    <2> DEFINE e == CallTarget(g.call)
    <2>5. charges[e].least <= (spent + charge) - g.spent /\ e \in DOMAIN charges
        BY <1>2, <1>5, <1>6, <2>2, <2>4, CallPaid
    <2>6. /\ g.call \in DOMAIN minimum
          /\ Ahead(g.call, minimum) + BlockCost(g.call).least <= g.spent
        BY <2>2 DEF FrameOk
    <2>7. IsCost(BlockCost(g.call)) /\ IsCost(charges[e])
        BY <1>6, <2>3, <2>5, ThroughFacts DEF ChargeTypes
    <2>8. Through(g.call) = Plus(BlockCost(g.call), charges[e])
        BY <2>3, <2>5 DEF Through, Known
    <2> HIDE DEF e
    <2>9. Through(g.call).least = BlockCost(g.call).least + charges[e].least
        BY <2>7, <2>8, PlusFacts
    <2>10. BlockCost(g.call).least \in Nat /\ charges[e].least \in Nat /\ minimum[g.call] \in Int
        BY <1>6, <2>6, <2>7 DEF IsCost, MinimumSound
    <2>11. minimum[g.call] = Ahead(g.call, minimum) + BlockCost(g.call).least + charges[e].least
        BY <2>9, <2>10 DEF Ahead
    <2>12. Ahead(g.call, minimum) \in Int
        BY <1>6, <2>6
    <2> QED BY <1>5, <1>6, <2>3, <2>5, <2>6, <2>10, <2>11, <2>12
<1> QED BY <1>7, <1>8 DEF Finished

\* What minimum_cost says of a block has been paid by every run that executed it; of a
\* call, with the call (budget/queries.py minimum_cost).
THEOREM MinimumIsAlwaysPaid == Spec => MinimumIsPaid
<1>1. BudgetInv /\ [Next]_vars =>
        [spent' # spent =>
            \A b \in Finished : (b \in Callsubs => Attributed) => spent' >= minimum[b]]_vars
    BY FinishedFacts
<1> QED BY <1>1, BudgetInvariant, PTL DEF Spec, MinimumIsPaid

\* So a block that minimum_cost puts above the credit is not executed, where each call
\* comes back as the repository takes it to (budget/queries.py proven_over_budget).
THEOREM InfeasibleIsNotExecuted ==
    Spec => [][spent' # spent =>
                 \A b \in Finished : (b \in Callsubs => Attributed) => minimum[b] <= Credit]_vars
<1>1. BudgetInv /\ [Next]_vars =>
        [spent' # spent =>
            \A b \in Finished : (b \in Callsubs => Attributed) => minimum[b] <= Credit]_vars
    <2> SUFFICES ASSUME BudgetInv, [Next]_vars, spent' # spent, NEW b \in Finished,
                        b \in Callsubs => Attributed
                 PROVE  minimum[b] <= Credit
        OBVIOUS
    <2>1. Ready /\ spent' <= Credit /\ spent' >= minimum[b] /\ minimum[b] \in Int
        BY FinishedFacts
    <2>2. spent' \in Nat /\ Credit \in Nat
        BY NextBudget, CeilingsAreNat DEF BudgetInv, MachineTypes
    <2> QED BY <2>1, <2>2
<1> QED BY <1>1, BudgetInvariant, PTL DEF Spec

\* A call that returns has paid at least the least, and at most the most, that
\* routine_cost says of its routine (budget/costs.py).
THEOREM ReturnsPayTheirSummary == Spec => ReturnsCostTheirSummary
<1> DEFINE Claim ==
        (Attributed /\ Len(frames') < Len(frames)) =>
            LET frame == Last(frames)
                cost  == charges[CallTarget(frame.call)]
            IN /\ spent' - frame.spent >= cost.least
               /\ cost.most # Unbounded => spent' - frame.spent <= cost.most
<1>1. BudgetInv /\ [Next]_vars => Claim
    <2> SUFFICES ASSUME BudgetInv, [Next]_vars, Attributed, Len(frames') < Len(frames)
                 PROVE  LET frame == Last(frames)
                            cost  == charges[CallTarget(frame.call)]
                        IN /\ spent' - frame.spent >= cost.least
                           /\ cost.most # Unbounded => spent' - frame.spent <= cost.most
        OBVIOUS
    <2>1. frames \in Seq(Frame) /\ Len(frames) \in Nat
        BY DEF BudgetInv, MachineTypes
    <2>2. Operate
        BY <2>1 DEF Next, Watch, Analysis, machine, vars
    <2>3. Ready /\ (Step \/ Call \/ Return)
        BY <2>2 DEF Operate, Ready
    <2>4. Return
        <3>1. Step => frames' = frames
            BY DEF Step
        <3>2. Call => Len(frames') = Len(frames) + 1
            BY <2>1 DEF Call
        <3> QED BY <2>1, <2>3, <3>1, <3>2
    <2> DEFINE g == Last(frames)
               cost == charges[CallTarget(g.call)]
    <2>5. g \in Frame /\ at \in Retsubs /\ FrameOk(g, at, Free, spent)
        BY <2>3, <2>4, ReturnFacts
    <2>6. PICK charge \in Nat : Charged(at, charge) /\ spent' = spent + charge
        BY <2>3, <2>4, ReturnFacts
    <2> HIDE DEF g
    <2>7. /\ cost.least <= (spent + charge) - g.spent
          /\ cost.most # Unbounded => (spent + charge) - g.spent <= cost.most
          /\ spent \in Nat /\ CallTarget(g.call) \in DOMAIN charges
        BY <2>3, <2>5, <2>6, ReadyFacts, CallPaid
    <2>8. cost.least \in Nat /\ (cost.most # Unbounded => cost.most \in Nat) /\ g.spent \in Nat
        BY <2>3, <2>5, <2>7, ReadyFacts DEF ChargeTypes, IsCost, Frame
    <2> HIDE DEF cost
    <2>9. /\ spent' - g.spent >= cost.least
          /\ cost.most # Unbounded => spent' - g.spent <= cost.most
        BY <2>6, <2>7, <2>8
    <2> QED BY <2>9 DEF g, cost
<1>2. BudgetInv /\ [Next]_vars => [Claim]_vars
    BY <1>1
<1> QED BY <1>2, BudgetInvariant, PTL DEF Spec, ReturnsCostTheirSummary

-----------------------------------------------------------------------------
(* The graph of routines.                                                  *)

FlowGraph == [b \in Blocks |-> RoutineFlow(b)]

LEMMA FlowGraphFacts ==
    ASSUME Graph, IdentifiedTypes
    PROVE  /\ FlowGraph \in [Blocks -> SUBSET Blocks]
           /\ \A b \in Blocks : FlowGraph[b] = RoutineFlow(b) /\ RoutineFlow(b) \subseteq Blocks
           /\ \A b : Before(b) \subseteq Blocks
           /\ \A b \in Blocks : \A p : p \in Before(b) <=> p \in Blocks /\ b \in RoutineFlow(p)
           /\ Roots \subseteq Blocks /\ Roots = {1} \union Entries
           /\ IsProgram(prog) /\ Blocks \subseteq All
<1>1. \A b \in Blocks : RoutineFlow(b) \subseteq Blocks
    BY RoutineFlowFacts
<1>2. Roots = {1} \union Entries /\ Roots \subseteq Blocks
    BY FirstBlock, EntriesAreBlocks, GraphFacts DEF Roots
<1> QED BY <1>1, <1>2, GraphFacts DEF FlowGraph, Before

\* Where calls come back to where they should, inside a routine control goes along the
\* graph.
LEMMA OnwardInFlow ==
    ASSUME Graph, IdentifiedTypes, Attributed, Exact(conts), NEW b \in Blocks
    PROVE  Onward(b) \subseteq RoutineFlow(b)
<1>1. CASE b \in Retsubs
    BY <1>1, OnwardFacts, GraphFacts
<1>2. CASE b \in Callsubs
    <2>1. CASE b \in Stuck
        BY <1>2, <2>1, StuckFacts DEF Attributed
    <2>2. CASE b \notin Stuck
        <3>1. Onward(b) = Following(b)
            BY <1>2, <2>2, StuckFacts DEF Attributed
        <3>2. RoutineFlow(b) = {conts[b]} \ {0}
            BY <1>2 DEF RoutineFlow, Callsubs
        <3>3. b \in All /\ b \in Nat /\ IsProgram(prog)
            BY GraphFacts, ProgramFacts
        <3>4. Following(b) = {} \/ Following(b) = {b + 1}
            BY <3>3, FlowFacts
        <3>5. Following(b) # {} => conts[b] = b + 1
            BY <1>2, <2>2 DEF Exact
        <3> QED BY <3>1, <3>2, <3>3, <3>4, <3>5
    <2> QED BY <2>1, <2>2
<1>3. CASE b \notin Callsubs \union Retsubs
    <2>1. Onward(b) = succ[b]
        BY <1>3, OnwardFacts, GraphFacts
    <2>2. End(b) \notin {"callsub", "retsub"}
        BY <1>3 DEF Callsubs, Retsubs
    <2>3. RoutineFlow(b) = succ[b]
        BY <2>2 DEF RoutineFlow
    <2> QED BY <2>1, <2>3
<1> QED BY <1>1, <1>2, <1>3

DominatorStep(d) ==
    [b \in Blocks |-> IF b \in Roots THEN {b}
                      ELSE {b} \union {k \in Blocks : \A p \in Before(b) : k \in d[p]}]

\* The rounds of iterative_dominators.
DominatorRounds(dom) ==
    /\ dom \in [Nat -> [Blocks -> SUBSET Blocks]]
    /\ dom[0] = [b \in Blocks |-> IF b \in Roots THEN {b} ELSE Blocks]
    /\ \A n \in Nat : dom[n + 1] = DominatorStep(dom[n])

LEMMA DominatorsInRounds ==
    ASSUME Graph, IdentifiedTypes
    PROVE  \E dom : DominatorRounds(dom) /\ Dominators = dom[Cardinality(Blocks)]
<1> DEFINE D == [Blocks -> SUBSET Blocks]
           A == [b \in Blocks |-> IF b \in Roots THEN {b} ELSE Blocks]
           G == [d \in D |-> DominatorStep(d)]
           F(f) == [n \in Nat |-> IF n = 0 THEN A ELSE DominatorStep(f[n - 1])]
           dom == CHOOSE f : f = F(f)
           N == Cardinality(Blocks)
<1>1. A \in D /\ \A d \in D : DominatorStep(d) \in D
    BY DEF DominatorStep
<1>2. PICK f \in [Nat -> D] : f[0] = A /\ \A n \in Nat : f[n + 1] = G[f[n]]
    <2>1. G \in [D -> D]
        BY <1>1
    <2> HIDE DEF D, G, A
    <2>2. \E f \in [Nat -> D] : Iterates(f, A, G)
        BY <1>1, <2>1, IterationExists
    <2> QED BY <2>2 DEF Iterates
<1>3. f = F(f)
    <2>1. ASSUME NEW n \in Nat PROVE f[n] = F(f)[n]
        <3>1. CASE n = 0
            BY <1>2, <3>1
        <3>2. CASE n # 0
            <4>1. n - 1 \in Nat /\ (n - 1) + 1 = n
                BY <3>2
            <4>2. f[n] = G[f[n - 1]] /\ f[n - 1] \in D
                BY <1>2, <4>1
            <4> HIDE DEF D, A
            <4> QED BY <3>2, <4>2
        <3> QED BY <3>1, <3>2
    <2> HIDE DEF D, A, G
    <2> QED BY <1>2, <2>1
<1>4. dom = F(dom)
    <2> HIDE DEF F
    <2> QED BY <1>3
<1>5. Dominators = dom[N]
    BY DEF Dominators, DominatorStep
<1> HIDE DEF dom
<1>6. dom[0] = A /\ \A n \in Nat : dom[n + 1] = DominatorStep(dom[n])
    <2>1. \A n \in Nat : n + 1 \in Nat /\ n + 1 # 0 /\ (n + 1) - 1 = n
        OBVIOUS
    <2> HIDE DEF A
    <2> QED BY <1>4, <2>1
<1> DEFINE T == {n \in Nat : dom[n] \in D}
<1>7. \A n \in Nat : n \in T
    <2> HIDE DEF D, A
    <2>1. 0 \in T
        BY <1>1, <1>6
    <2>2. ASSUME NEW n \in Nat, n \in T PROVE n + 1 \in T
        BY <1>1, <1>6, <2>2
    <2> HIDE DEF T
    <2> QED BY <2>1, <2>2, NumberInduction
<1>8. dom \in [Nat -> D]
    <2> DEFINE val(n) == IF n = 0 THEN A ELSE DominatorStep(dom[n - 1])
    <2>1. dom = [n \in Nat |-> val(n)]
        BY <1>4
    <2>2. \A n \in Nat : dom[n] \in D
        BY <1>7
    <2> HIDE DEF val, D
    <2> QED BY <2>1, <2>2
<1> QED BY <1>5, <1>6, <1>8 DEF DominatorRounds

\* What dominates a block dominates those that lead to it, roots apart.
LEMMA DominatorFacts ==
    ASSUME Graph, IdentifiedTypes
    PROVE  /\ \A b \in Blocks : b \in Roots => Dominators[b] = {b}
           /\ \A b \in Blocks \ Roots, h \in Blocks :
                  b # h /\ h \in Dominators[b] => \A p \in Before(b) : h \in Dominators[p]
           /\ \A b \in Blocks : b \in Dominators[b]
<1> DEFINE N == Cardinality(Blocks)
<1>1. N \in Nat /\ IsFiniteSet(Blocks)
    BY GraphFacts
<1>2. PICK dom : DominatorRounds(dom) /\ Dominators = dom[N]
    BY DominatorsInRounds
<1>3. /\ \A n \in Nat : dom[n] \in [Blocks -> SUBSET Blocks]
      /\ dom[0] = [b \in Blocks |-> IF b \in Roots THEN {b} ELSE Blocks]
      /\ \A n \in Nat : dom[n + 1] = DominatorStep(dom[n])
    BY <1>2 DEF DominatorRounds
<1>4. \A b : Before(b) \subseteq Blocks
    BY FlowGraphFacts
<1>5. ASSUME NEW b \in Blocks, b \in Roots PROVE \A n \in Nat : dom[n][b] = {b}
    <2> TAKE n \in Nat
    <2>1. CASE n = 0
        BY <1>3, <1>5, <2>1
    <2>2. CASE n # 0
        <3>1. PICK m \in Nat : m + 1 = n
            BY <2>2
        <3>2. dom[n] = DominatorStep(dom[m])
            BY <1>3, <3>1
        <3> QED BY <1>5, <3>2 DEF DominatorStep
    <2> QED BY <2>1, <2>2
<1>6. ASSUME NEW h \in Blocks PROVE \A b \in Blocks : h \in dom[N][b] => h \in dom[N + 1][b]
    <2> DEFINE not == [n \in Nat |-> {b \in Blocks : h \notin dom[n][b]}]
               G(X) == {b \in Blocks \ {h} : b \in Roots \/ \E p \in Before(b) : p \in X}
    <2>1. \A n \in Nat : not[n] \subseteq Blocks /\ not[n + 1] = G(not[n])
        <3> TAKE n \in Nat
        <3>1. not[n] \subseteq Blocks /\ n + 1 \in Nat
            OBVIOUS
        <3>2. \A b \in Blocks : b \in not[n + 1] <=> b \in G(not[n])
            <4> TAKE b \in Blocks
            <4>1. b \in not[n + 1] <=> h \notin DominatorStep(dom[n])[b]
                BY <1>3, <3>1
            <4>2. CASE b \in Roots
                BY <4>1, <4>2 DEF DominatorStep
            <4>3. CASE b \notin Roots
                <5>1. h \notin DominatorStep(dom[n])[b]
                        <=> b # h /\ \E p \in Before(b) : h \notin dom[n][p]
                    BY <4>3 DEF DominatorStep
                <5> QED BY <1>4, <4>1, <4>3, <5>1
            <4> QED BY <4>2, <4>3
        <3> QED BY <3>1, <3>2
    <2>2. not[0] \subseteq not[1]
        <3>1. \A b \in not[0] : b \in Roots /\ b # h
            BY <1>3
        <3>2. not[0 + 1] = G(not[0]) /\ not[0] \subseteq Blocks
            BY <2>1
        <3> HIDE DEF not
        <3> QED BY <3>1, <3>2
    <2> HIDE DEF not
    <2> DEFINE T == {n \in Nat : not[n] \subseteq not[n + 1]}
    <2>3. \A n \in Nat : n \in T
        <3>1. 0 \in T
            BY <2>2
        <3>2. ASSUME NEW n \in Nat, n \in T PROVE n + 1 \in T
            <4>1. n + 1 \in Nat /\ not[n] \subseteq not[n + 1]
                BY <3>2
            <4>2. not[n + 1] = G(not[n]) /\ not[(n + 1) + 1] = G(not[n + 1])
                BY <2>1, <4>1
            <4> QED BY <4>1, <4>2
        <3> HIDE DEF T
        <3> QED BY <3>1, <3>2, NumberInduction
    <2>4. \A n \in Nat : not[n + 1] = not[n] => not[(n + 1) + 1] = not[n + 1]
        <3> HIDE DEF G
        <3> QED BY <2>1
    <2>5. not \in [Nat -> SUBSET Blocks]
        <3>1. \A n \in Nat : {b \in Blocks : h \notin dom[n][b]} \in SUBSET Blocks
            OBVIOUS
        <3> QED BY <3>1 DEF not
    <2>6. not[N + 1] = not[N]
        <3>1. \A n \in Nat : not[n] \subseteq not[n + 1]
            BY <2>3
        <3>2. Cardinality(Blocks) <= N
            BY <1>1
        <3> HIDE DEF N, T
        <3> QED BY <1>1, <2>4, <2>5, <3>1, <3>2, ChainSettles
    <2>7. \A b \in Blocks : (b \in not[N] <=> h \notin dom[N][b]) /\ (b \in not[N + 1] <=> h \notin dom[N + 1][b])
        <3>1. N \in Nat /\ N + 1 \in Nat
            BY <1>1
        <3> HIDE DEF N
        <3> QED BY <3>1 DEF not
    <2> QED BY <2>6, <2>7
<1>7. ASSUME NEW b \in Blocks \ Roots, NEW h \in Blocks, h # b, h \in dom[N][b]
      PROVE  \A p \in Before(b) : h \in dom[N][p]
    <2>1. h \in dom[N + 1][b]
        BY <1>6, <1>7
    <2>2. dom[N + 1] = DominatorStep(dom[N])
        <3> HIDE DEF N
        <3> QED BY <1>1, <1>3
    <2> QED BY <1>7, <2>1, <2>2 DEF DominatorStep
<1>8. ASSUME NEW b \in Blocks, NEW n \in Nat PROVE b \in dom[n][b]
    <2>1. CASE n = 0
        BY <1>3, <2>1
    <2>2. CASE n # 0
        <3>1. PICK m \in Nat : m + 1 = n
            BY <2>2
        <3>2. dom[n] = DominatorStep(dom[m])
            BY <1>3, <3>1
        <3> QED BY <3>2 DEF DominatorStep
    <2> QED BY <2>1, <2>2
<1> QED BY <1>1, <1>2, <1>5, <1>7, <1>8

-----------------------------------------------------------------------------
(* Loops.                                                                  *)

\* The blocks whose turns may be counted, and those on a cycle.
Watchable(shape) == IF shape.kind = "reducible" THEN shape.entries ELSE shape.body
Turning(shape)   == {b \in shape.body : b \in Closure(Around(shape)[b], Around(shape))}

\* A loop is entered at its entries, and its back edges close its turns.
Enclosed(shape) ==
    /\ shape.body \subseteq Blocks
    /\ shape.entries \subseteq shape.body /\ shape.entries # {}
    /\ shape.back \subseteq Blocks \X Blocks
    /\ \A b \in shape.body : b \in shape.entries \/ (b \notin Roots /\ Before(b) \subseteq shape.body)
    /\ \A b \in shape.body, w \in Watchable(shape) : w \in RoutineFlow(b) => <<b, w>> \in shape.back

\* What its growth counts turns.
CountedAt(shape) == IF shape.kind = "reducible" THEN shape.entries ELSE Turning(shape)

Turns(shape) ==
    shape.body \cap (Callsubs \union Retsubs) = {}
        => CountedAt(shape) # {} /\ CountedAt(shape) \subseteq Turning(shape)

LEMMA AroundFacts ==
    ASSUME Graph, IdentifiedTypes, NEW shape, shape.body \subseteq Blocks
    PROVE  /\ Around(shape) \in [Blocks -> SUBSET Blocks]
           /\ \A b \in Blocks : Around(shape)[b] = RoutineFlow(b) \cap shape.body
           /\ \A b \in Blocks : LET C == Closure(Around(shape)[b], Around(shape)) IN
                 /\ C \subseteq shape.body
                 /\ Around(shape)[b] \subseteq C
                 /\ \A k \in C : Around(shape)[k] \subseteq C
<1> DEFINE next == Around(shape)
<1>1. \A b \in Blocks : next[b] = RoutineFlow(b) \cap shape.body
    BY DEF Around
<1>2. next \in [Blocks -> SUBSET Blocks]
    BY FlowGraphFacts DEF Around
<1> HIDE DEF next
<1>3. ASSUME NEW b \in Blocks
      PROVE  /\ Closure(next[b], next) \subseteq shape.body
             /\ next[b] \subseteq Closure(next[b], next)
             /\ \A k \in Closure(next[b], next) : next[k] \subseteq Closure(next[b], next)
    <2>1. next[b] \in SUBSET Blocks /\ IsProgram(prog) /\ Blocks \in SUBSET All
        BY <1>2, FlowGraphFacts
    <2>2. /\ next[b] \subseteq Closure(next[b], next)
          /\ \A k \in Closure(next[b], next) : next[k] \subseteq Closure(next[b], next)
          /\ \A K : /\ next[b] \subseteq K
                    /\ \A k \in K \cap Blocks : next[k] \subseteq K
                    => Closure(next[b], next) \subseteq K
        BY <1>2, <2>1, ClosureIn
    <2>3. next[b] \subseteq shape.body /\ \A k \in shape.body \cap Blocks : next[k] \subseteq shape.body
        BY <1>1
    <2> QED BY <2>2, <2>3
<1> QED BY <1>1, <1>2, <1>3 DEF next

LEMMA NaturalFacts ==
    ASSUME Graph, IdentifiedTypes, NEW shape \in NaturalLoops
    PROVE  /\ shape.kind = "reducible" /\ Enclosed(shape)
           /\ Attributed /\ Exact(conts) => Turns(shape)
<1> DEFINE Back(h) == {p \in Before(h) : h \in Dominators[p]}
           next(h) == [b \in Blocks |-> IF b = h THEN {} ELSE Before(b)]
           Inside(h) == {h} \union Closure(Back(h), next(h))
<1>1. PICK h \in Blocks : Back(h) # {} /\ shape = Shape("reducible", {h}, Inside(h), Back(h) \X {h})
    BY DEF NaturalLoops
<1>2. /\ shape.kind = "reducible" /\ shape.entries = {h} /\ shape.body = Inside(h)
      /\ shape.back = Back(h) \X {h}
    BY <1>1 DEF Shape
<1>3. /\ \A b : Before(b) \subseteq Blocks
      /\ \A b \in Blocks : \A p : p \in Before(b) <=> p \in Blocks /\ b \in RoutineFlow(p)
      /\ IsProgram(prog) /\ Blocks \in SUBSET All
      /\ \A b \in Blocks : RoutineFlow(b) \subseteq Blocks
    BY FlowGraphFacts
<1>4. /\ Back(h) \subseteq Inside(h) /\ Inside(h) \subseteq Blocks
      /\ \A b \in Inside(h) : b # h => Before(b) \subseteq Inside(h)
      /\ \A b \in Inside(h) : h \in Dominators[b] \/ b = h
    <2>1. PICK S \in SUBSET Blocks : S = Back(h)
        BY <1>3
    <2>2. PICK nx \in [Blocks -> SUBSET Blocks] : nx = next(h)
        BY <1>3
    <2>6. \A b \in Blocks : nx[b] = IF b = h THEN {} ELSE Before(b)
        BY <2>2
    <2> DEFINE C == Closure(S, nx)
    <2>3. /\ C \subseteq Blocks
          /\ S \subseteq C
          /\ \A b \in C : nx[b] \subseteq C
          /\ \A K : /\ S \subseteq K
                    /\ \A k \in K \cap Blocks : nx[k] \subseteq K
                    => C \subseteq K
        BY <1>3, ClosureIn
    <2>4. C \subseteq {b \in Blocks : h \in Dominators[b]}
        <3> DEFINE K == {b \in Blocks : h \in Dominators[b]}
        <3>1. S \subseteq K
            BY <1>3, <2>1
        <3>2. ASSUME NEW k \in K \cap Blocks PROVE nx[k] \subseteq K
            <4>1. CASE k = h
                BY <2>6, <4>1
            <4>2. CASE k # h
                <5>1. k \notin Roots
                    BY <3>2, <4>2, DominatorFacts
                <5>2. \A p \in Before(k) : h \in Dominators[p]
                    BY <3>2, <4>2, <5>1, DominatorFacts
                <5> QED BY <1>3, <2>6, <4>2, <5>2
            <4> QED BY <4>1, <4>2
        <3> HIDE DEF K, C
        <3>3. C \subseteq K
            BY <2>3, <3>1, <3>2
        <3> QED BY <3>3 DEF K
    <2>5. Inside(h) = {h} \union C
        BY <2>1, <2>2
    <2> HIDE DEF C, Inside, next
    <2>7. Back(h) \subseteq C
        BY <2>1, <2>3
    <2> HIDE DEF Back
    <2> QED BY <2>3, <2>4, <2>5, <2>6, <2>7
<1>5. \A b \in Inside(h) : b = h \/ (b \notin Roots /\ Before(b) \subseteq Inside(h))
    BY <1>4, DominatorFacts
<1>6. \A b \in Inside(h) : h \in RoutineFlow(b) => b \in Back(h)
    <2> TAKE b \in Inside(h)
    <2>1. CASE b # h
        BY <1>3, <1>4, <2>1
    <2>2. CASE b = h
        <3>1. h \in RoutineFlow(h) => h \in Before(h)
            BY <1>3
        <3>2. h \in Dominators[h]
            BY DominatorFacts
        <3> QED BY <2>2, <3>1, <3>2
    <2> QED BY <2>1, <2>2
<1>8. Back(h) # {} /\ h \in Inside(h) /\ \A p \in Back(h) : p \in Before(h)
    BY <1>1
<1> HIDE DEF Back, Inside
<1>7. Enclosed(shape)
    <2>1. shape.body \subseteq Blocks /\ shape.entries \subseteq shape.body /\ shape.entries # {}
        BY <1>2, <1>4, <1>8
    <2>2. shape.back \subseteq Blocks \X Blocks
        BY <1>2, <1>4
    <2>3. \A b \in shape.body : b \in shape.entries \/ (b \notin Roots /\ Before(b) \subseteq shape.body)
        BY <1>2, <1>5
    <2>4. Watchable(shape) = {h}
        BY <1>2 DEF Watchable
    <2>5. \A b \in shape.body, w \in {h} : w \in RoutineFlow(b) => <<b, w>> \in shape.back
        BY <1>2, <1>6
    <2> QED BY <2>1, <2>2, <2>3, <2>4, <2>5 DEF Enclosed
<1>9. ASSUME Attributed, Exact(conts), shape.body \cap (Callsubs \union Retsubs) = {}
      PROVE  h \in Turning(shape)
    <2> DEFINE C == Closure(Around(shape)[h], Around(shape))
               K == {b \in All : b \in Blocks /\ b \in shape.body => b = h \/ b \in C}
    <2>1. /\ \A b \in Blocks : Around(shape)[b] = RoutineFlow(b) \cap shape.body
          /\ C \subseteq shape.body
          /\ Around(shape)[h] \subseteq C
          /\ \A k \in C : Around(shape)[k] \subseteq C
        BY <1>2, <1>4, AroundFacts
    <2> HIDE DEF C
    <2>2. /\ 1 \in Blocks /\ 1 \in Roots
          /\ \A b \in Blocks : succ[b] = Leads(b, Blocks) /\ succ[b] \subseteq Blocks
          /\ Entries \subseteq Roots
        BY FlowGraphFacts, GraphFacts
    <2>3. 1 \in K
        BY <1>2, <1>3, <1>5, <2>2
    <2>4. ASSUME NEW x \in K \cap Blocks, NEW b \in succ[x] PROVE b \in K
        <3> SUFFICES ASSUME b \in shape.body, b # h PROVE b \in C
            BY <1>3, <2>2
        <3>1. b \notin Roots /\ Before(b) \subseteq shape.body /\ b \in Blocks
            BY <1>2, <1>5, <2>2
        <3>2. x \notin Callsubs
            BY <2>2, <2>4, <3>1, SuccFacts
        <3>3. ASSUME x \in Retsubs PROVE FALSE
            <4>1. PICK c \in Callsubs : x \in Ends(c) /\ b \in Following(c)
                BY <2>4, <3>3, SuccFacts
            <4>2. c \in Blocks /\ c \in All
                BY <1>3, EntriesAreBlocks
            <4>3. Onward(c) = Following(c)
                <5>1. Retsubs \cap Ends(c) # {}
                    BY <3>3, <4>1
                <5> QED BY <4>2, <5>1, OnwardFacts
            <4>4. b \in RoutineFlow(c)
                BY <1>9, <4>1, <4>2, <4>3, OnwardInFlow
            <4>5. c \in shape.body
                BY <1>3, <3>1, <4>2, <4>4
            <4> QED BY <1>9, <4>5
        <3>4. End(x) \notin {"callsub", "retsub"}
            BY <3>2, <3>3 DEF Callsubs, Retsubs
        <3>5. b \in RoutineFlow(x)
            BY <2>4, <3>4 DEF RoutineFlow
        <3>6. x \in shape.body /\ b \in Around(shape)[x]
            BY <1>3, <2>1, <3>1, <3>5
        <3>7. x = h \/ x \in C
            BY <2>4, <3>6
        <3> QED BY <2>1, <3>6, <3>7
    <2>5. Blocks \subseteq K
        <3>1. PICK L \in SUBSET All :
                  /\ DOMAIN BlockGraph = L
                  /\ \A b \in L : BlockGraph[b] = Leads(b, L)
                  /\ L = ReachedFrom1(L)
            BY <1>3, BlockGraphFacts
        <3>2. L = Blocks
            BY <3>1 DEF Graph, Blocks
        <3> DEFINE M == K \cap Blocks
        <3>3. 1 \in M
            BY <2>2, <2>3
        <3>4. \A b \in M \cap All : Leads(b, Blocks) \subseteq M
            BY <2>2, <2>4
        <3> HIDE DEF M
        <3>5. ReachedFrom1(Blocks) \subseteq M
            BY <1>3, <3>3, <3>4, ReachedFacts
        <3> QED BY <3>1, <3>2, <3>5 DEF M
    <2>6. PICK p : p \in Back(h)
        BY <1>1, <1>8
    <2>7. p \in shape.body /\ h \in RoutineFlow(p) /\ p \in Blocks /\ h \in shape.body
        BY <1>2, <1>3, <1>4, <1>8, <2>6
    <2>8. h \in Around(shape)[p]
        BY <2>1, <2>7
    <2>9. h \in C
        BY <2>1, <2>5, <2>7, <2>8
    <2> QED BY <2>7, <2>9 DEF Turning, C
<1>10. Attributed /\ Exact(conts) => Turns(shape)
    BY <1>2, <1>9 DEF Turns, CountedAt
<1> QED BY <1>2, <1>7, <1>10

LEMMA RegionFacts ==
    ASSUME Graph, IdentifiedTypes, NEW shape \in IrreducibleRegions
    PROVE  shape.kind = "irreducible" /\ Enclosed(shape) /\ Turns(shape)
<1> DEFINE next == [k \in Blocks |-> RoutineFlow(k)]
           Reached(b) == Closure(RoutineFlow(b), next)
           Region(b) == {c \in Reached(b) : b \in Reached(c)}
           Doors(S) == {b \in S : b \in Roots \/ ~(Before(b) \subseteq S)}
           Within(S) == {edge \in S \X S : edge[2] \in RoutineFlow(edge[1])}
<1>1. PICK b \in Blocks :
          /\ b \in Reached(b)
          /\ Cardinality(Doors(Region(b))) > 1
          /\ shape = Shape("irreducible", Doors(Region(b)), Region(b), Within(Region(b)))
    BY DEF IrreducibleRegions
<1> DEFINE S == Region(b)
<1>2. /\ shape.kind = "irreducible" /\ shape.entries = Doors(S) /\ shape.body = S
      /\ shape.back = Within(S)
    BY <1>1 DEF Shape
<1>3. /\ \A x : Before(x) \subseteq Blocks
      /\ \A x \in Blocks : \A p : p \in Before(x) <=> p \in Blocks /\ x \in RoutineFlow(p)
      /\ IsProgram(prog) /\ Blocks \in SUBSET All
      /\ \A x \in Blocks : RoutineFlow(x) \subseteq Blocks
    BY FlowGraphFacts
<1>4. ASSUME NEW x \in Blocks
      PROVE  /\ Reached(x) \subseteq Blocks
             /\ RoutineFlow(x) \subseteq Reached(x)
             /\ \A k \in Reached(x) : RoutineFlow(k) \subseteq Reached(x)
             /\ \A K : /\ RoutineFlow(x) \subseteq K
                       /\ \A k \in K \cap Blocks : RoutineFlow(k) \subseteq K
                       => Reached(x) \subseteq K
    <2>1. PICK nx \in [Blocks -> SUBSET Blocks] : nx = next
        BY <1>3
    <2>2. PICK R \in SUBSET Blocks : R = RoutineFlow(x)
        BY <1>3
    <2>3. \A k \in Blocks : nx[k] = RoutineFlow(k)
        BY <2>1
    <2>4. Reached(x) = Closure(R, nx)
        BY <2>1, <2>2
    <2>5. /\ Closure(R, nx) \subseteq Blocks
          /\ R \subseteq Closure(R, nx)
          /\ \A k \in Closure(R, nx) : nx[k] \subseteq Closure(R, nx)
          /\ \A K : /\ R \subseteq K
                    /\ \A k \in K \cap Blocks : nx[k] \subseteq K
                    => Closure(R, nx) \subseteq K
        BY <1>3, ClosureIn
    <2> HIDE DEF next, Reached
    <2>6. \A k \in Reached(x) : RoutineFlow(k) \subseteq Reached(x)
        BY <2>3, <2>4, <2>5
    <2>7. \A K : /\ RoutineFlow(x) \subseteq K
                 /\ \A k \in K \cap Blocks : RoutineFlow(k) \subseteq K
                 => Reached(x) \subseteq K
        <3> SUFFICES ASSUME NEW K, RoutineFlow(x) \subseteq K,
                            \A k \in K \cap Blocks : RoutineFlow(k) \subseteq K
                     PROVE  Closure(R, nx) \subseteq K
            BY <2>4
        <3> QED BY <2>2, <2>3, <2>5
    <2> QED BY <2>2, <2>4, <2>5, <2>6, <2>7
<1> HIDE DEF next, Reached
<1>5. S \subseteq Blocks /\ b \in S
    BY <1>1, <1>4
<1>6. Enclosed(shape)
    <2>1. Doors(S) # {}
        <3>1. Cardinality({}) = 0
            BY FS_EmptySet
        <3>2. Cardinality(Doors(S)) > 1
            BY <1>1
        <3> HIDE DEF S, Doors
        <3> QED BY <3>1, <3>2
    <2>2. shape.entries \subseteq shape.body /\ shape.back \subseteq Blocks \X Blocks
        BY <1>2, <1>5
    <2>3. \A x \in S : x \in Doors(S) \/ (x \notin Roots /\ Before(x) \subseteq S)
        OBVIOUS
    <2>4. \A x \in S, w \in S : w \in RoutineFlow(x) => <<x, w>> \in Within(S)
        OBVIOUS
    <2>5. Watchable(shape) = S
        BY <1>2 DEF Watchable
    <2> HIDE DEF S, Doors, Within
    <2> QED BY <1>2, <1>5, <2>1, <2>2, <2>3, <2>4, <2>5 DEF Enclosed
<1>7. b \in Turning(shape)
    <2> DEFINE C == Closure(Around(shape)[b], Around(shape))
               K == {x \in Reached(b) : x \in S => x \in C}
    <2>1. /\ \A x \in Blocks : Around(shape)[x] = RoutineFlow(x) \cap S
          /\ C \subseteq S
          /\ Around(shape)[b] \subseteq C
          /\ \A k \in C : Around(shape)[k] \subseteq C
        BY <1>2, <1>5, AroundFacts
    <2> HIDE DEF C
    <2>2. RoutineFlow(b) \subseteq K
        BY <1>4, <2>1
    <2>3. ASSUME NEW k \in K \cap Blocks PROVE RoutineFlow(k) \subseteq K
        <3> SUFFICES ASSUME NEW x \in RoutineFlow(k), x \in S PROVE x \in C
            BY <1>4
        <3>1. x \in Blocks /\ x \in Reached(b) /\ b \in Reached(x) /\ k \in Reached(b)
            BY <1>4
        <3>2. b \in Reached(k)
            <4>1. Reached(x) \subseteq Reached(k)
                <5>1. RoutineFlow(x) \subseteq Reached(k) /\ \A j \in Reached(k) : RoutineFlow(j) \subseteq Reached(k)
                    BY <1>4
                <5> QED BY <1>4, <3>1, <5>1
            <4> QED BY <3>1, <4>1
        <3>3. k \in S
            BY <3>1, <3>2
        <3>4. k \in C
            BY <2>3, <3>3
        <3> QED BY <2>1, <3>4
    <2>4. Reached(b) \subseteq K
        <3> HIDE DEF K
        <3> QED BY <1>4, <2>2, <2>3
    <2>5. b \in C
        BY <1>1, <1>5, <2>4
    <2> QED BY <1>2, <1>5, <2>5 DEF Turning, C
<1>8. Turns(shape)
    BY <1>2, <1>7 DEF Turns, CountedAt
<1> QED BY <1>2, <1>6, <1>8

\* The search ends with all it can reach.
LEMMA CheapestCloses ==
    ASSUME Graph, NEW S \in SUBSET Blocks, NEW next, NEW toll, Weighed(next, toll)
    PROVE  /\ S \subseteq DOMAIN Cheapest(S, next, toll)
           /\ \A b \in DOMAIN Cheapest(S, next, toll) :
                 b \in Blocks /\ Cheapest(S, next, toll)[b] \in Int
           /\ \A b \in DOMAIN Cheapest(S, next, toll) : next[b] \subseteq DOMAIN Cheapest(S, next, toll)
<1> DEFINE N == Cardinality(Blocks)
<1>1. PICK d : Rounds(d, S, next, toll) /\ Cheapest(S, next, toll) = d[N]
    BY CheapestRounds
<1>2. N \in Nat /\ IsFiniteSet(Blocks) /\ Cardinality(Blocks) <= N
    BY GraphFacts
<1> HIDE DEF N
<1> DEFINE T == [n \in Nat |-> DOMAIN d[n]]
           G(X) == X \union UNION {next[b] : b \in X}
<1>3. ASSUME NEW n \in Nat
      PROVE  /\ DOMAIN d[n] \subseteq Blocks /\ \A b \in DOMAIN d[n] : d[n][b] \in Int
             /\ T[n + 1] = G(T[n])
    <2>1. PICK p \in Nat : p = n + 1
        OBVIOUS
    <2>2. Lengthens(d[n], d[p], next, toll)
        BY <1>1, <2>1, RoundFacts
    <2>3. DOMAIN d[p] = DOMAIN d[n] \union UNION {next[b] : b \in DOMAIN d[n]}
        BY <2>2 DEF Lengthens
    <2>4. \A b \in DOMAIN d[n] : d[n][b] \in Int /\ b \in Blocks
        BY <2>2, LengthFacts
    <2> QED BY <2>1, <2>3, <2>4
<1>4. T \in [Nat -> SUBSET Blocks]
    BY <1>3
<1>5. T[0] = S
    <2>1. d[0] = [b \in S |-> 0]
        BY <1>1 DEF Rounds
    <2> QED BY <2>1
<1>6. T[N] = DOMAIN Cheapest(S, next, toll)
    BY <1>1, <1>2
<1>7. \A n \in Nat : T[n + 1] = G(T[n])
    BY <1>3
<1> HIDE DEF T
<1>8. \A n \in Nat : T[n] \subseteq T[n + 1]
    BY <1>7
<1>9. T[N + 1] = T[N]
    <2>1. \A n \in Nat : T[n + 1] = T[n] => T[(n + 1) + 1] = T[n + 1]
        <3> HIDE DEF G
        <3> QED BY <1>7
    <2> HIDE DEF G
    <2> QED BY <1>2, <1>4, <1>8, <2>1, ChainSettles
<1>10. G(T[N]) = T[N]
    BY <1>2, <1>7, <1>9
<1>11. S \subseteq T[N]
    <2> DEFINE Q == {n \in Nat : S \subseteq T[n]}
    <2>1. 0 \in Q /\ \A n \in Nat : n \in Q => n + 1 \in Q
        BY <1>5, <1>8
    <2>2. \A n \in Nat : n \in Q
        <3> HIDE DEF Q
        <3> QED BY <2>1, NumberInduction
    <2> QED BY <1>2, <2>2
<1>12. \A b \in DOMAIN Cheapest(S, next, toll) : b \in Blocks /\ Cheapest(S, next, toll)[b] \in Int
    BY <1>1, <1>2, <1>3
<1>13. \A b \in T[N] : next[b] \subseteq T[N]
    BY <1>10
<1> QED BY <1>6, <1>11, <1>12, <1>13

\* A block is on a cycle of the loop exactly if the search from it comes back.
LEMMA CycleFacts ==
    ASSUME Graph, IdentifiedTypes, NEW shape, shape.body \subseteq Blocks,
           NEW toll, Weighed(Around(shape), toll), NEW x \in Blocks,
           NEW d, d = Cheapest({x}, Around(shape), toll)
    PROVE  /\ \A k \in DOMAIN d : x \in Around(shape)[k] => x \in Turning(shape)
           /\ x \in Turning(shape) => \E k \in DOMAIN d : x \in Around(shape)[k]
           /\ x \in shape.body => DOMAIN d \subseteq shape.body
           /\ x \in DOMAIN d /\ \A k \in DOMAIN d : k \in Blocks /\ d[k] \in Int
<1>1. PICK next \in [Blocks -> SUBSET Blocks] : next = Around(shape)
    BY AroundFacts
<1> DEFINE C == Closure(next[x], next)
<1>2. /\ \A b \in Blocks : next[b] = RoutineFlow(b) \cap shape.body
      /\ C \subseteq shape.body
      /\ next[x] \subseteq C
      /\ \A k \in C : next[k] \subseteq C
    BY <1>1, AroundFacts
<1>3. IsProgram(prog) /\ Blocks \in SUBSET All /\ next[x] \in SUBSET Blocks
    BY FlowGraphFacts
<1>4. \A K : /\ next[x] \subseteq K
             /\ \A k \in K \cap Blocks : next[k] \subseteq K
             => C \subseteq K
    BY <1>3, ClosureIn
<1> HIDE DEF C
<1>5. Weighed(next, toll) /\ d = Cheapest({x}, next, toll)
    BY <1>1
<1>6. \A K : x \in K /\ (\A k \in K \cap Blocks : next[k] \subseteq K) => DOMAIN d \subseteq K
    <2> SUFFICES ASSUME NEW K, x \in K, \A k \in K \cap Blocks : next[k] \subseteq K
                 PROVE  DOMAIN d \subseteq K
        OBVIOUS
    <2>1. PICK R \in SUBSET Blocks : R = {x}
        OBVIOUS
    <2>2. R \subseteq K
        BY <2>1
    <2> QED BY <1>5, <2>1, <2>2, CheapestWithin
<1>7. /\ x \in DOMAIN d
      /\ \A b \in DOMAIN d : b \in Blocks /\ d[b] \in Int
      /\ \A b \in DOMAIN d : next[b] \subseteq DOMAIN d
    <2>1. PICK R \in SUBSET Blocks : R = {x}
        OBVIOUS
    <2>2. x \in R /\ d = Cheapest(R, next, toll)
        BY <1>5, <2>1
    <2> QED BY <1>5, <2>2, CheapestCloses
<1>8. \A k \in DOMAIN d : x \in next[k] => x \in Turning(shape)
    <2>1. DOMAIN d \subseteq {x} \union C
        <3> DEFINE K == {x} \union C
        <3>1. x \in K /\ \A k \in K \cap Blocks : next[k] \subseteq K
            BY <1>2
        <3> HIDE DEF K
        <3>2. DOMAIN d \subseteq K
            BY <1>6, <3>1
        <3> QED BY <3>2 DEF K
    <2>2. ASSUME NEW k \in DOMAIN d, x \in next[k] PROVE x \in C /\ x \in shape.body
        BY <1>2, <1>7, <2>1, <2>2
    <2> QED BY <1>1, <2>2 DEF Turning, C
<1>9. ASSUME x \in Turning(shape) PROVE \E k \in DOMAIN d : x \in next[k]
    <2>1. x \in C
        BY <1>1, <1>9 DEF Turning, C
    <2> DEFINE K == {y \in DOMAIN d : y = x => \E k \in DOMAIN d : x \in next[k]}
    <2>2. next[x] \subseteq K
        BY <1>7
    <2>3. \A k \in K \cap Blocks : next[k] \subseteq K
        BY <1>7
    <2>4. C \subseteq K
        <3> HIDE DEF K
        <3> QED BY <1>4, <2>2, <2>3
    <2> QED BY <2>1, <2>4
<1>10. ASSUME x \in shape.body PROVE DOMAIN d \subseteq shape.body
    BY <1>2, <1>6, <1>10
<1> QED BY <1>1, <1>7, <1>8, <1>9, <1>10

-----------------------------------------------------------------------------
(* What LoopBound rests on.                                                *)

\* What a stay in a loop charges from block w on, at least, and what every turn does.
Turned(iter, q, shape, w) ==
    /\ iter \in Nat \ {0}
    /\ w \in DOMAIN q /\ q[w] <= 0
    /\ \A b \in DOMAIN q : b \in Blocks /\ q[b] \in Int
    /\ \A b \in DOMAIN q : \A c \in RoutineFlow(b) \cap shape.body :
          c \in DOMAIN q /\ q[c] <= q[b] + Through(b).least
    /\ \A b \in DOMAIN q : w \in RoutineFlow(b) => iter <= q[b] + Through(b).least

\* How much higher the stack is than at block w, at least, and after every turn.
Raised(g, h, shape, w) ==
    /\ g \in Nat \ {0}
    /\ shape.body \cap (Callsubs \union Retsubs) = {}
    /\ w \in DOMAIN h /\ h[w] <= 0
    /\ \A b \in DOMAIN h : b \in Blocks /\ h[b] \in Int
    /\ \A b \in DOMAIN h : \A c \in RoutineFlow(b) \cap shape.body :
          c \in DOMAIN h /\ h[c] <= h[b] + Delta(b)
    /\ \A b \in DOMAIN h : w \in RoutineFlow(b) => g <= h[b] + Delta(b)

\* What a run has paid when it is at a block, and when it first comes to the loop.
Approached(pre, d, shape) ==
    /\ pre \in Int
    /\ 1 \in DOMAIN d /\ d[1] <= 0
    /\ \A b \in DOMAIN d : b \in Blocks /\ d[b] \in Int
    /\ \A b \in DOMAIN d : \A c \in succ[b] : c \in DOMAIN d /\ d[c] <= d[b] + BlockCost(b).least
    /\ \A e \in shape.entries : e \in DOMAIN d /\ pre <= d[e]

LEMMA WatchableFacts ==
    ASSUME NEW shape, Enclosed(shape)
    PROVE  Watchable(shape) \subseteq shape.body /\ shape.body \subseteq Blocks
BY DEF Enclosed, Watchable

LEMMA IterationFacts ==
    ASSUME Graph, IdentifiedTypes, ChargeTypes, NEW shape, Enclosed(shape), NEW w \in Watchable(shape)
    PROVE  \E q : Turned(Iteration(shape), q, shape, w)
<1> DEFINE paid(t) == Cheapest({t}, Around(shape), Charge)
           Turn(edge) == IF edge[1] \in DOMAIN paid(edge[2])
                         THEN {paid(edge[2])[edge[1]] + Through(edge[1]).least} ELSE {}
           turns == UNION {Turn(edge) : edge \in shape.back}
           q == paid(w)
<1>1. w \in shape.body /\ shape.body \subseteq Blocks /\ w \in Blocks
    BY WatchableFacts
<1>2. /\ shape.back \subseteq Blocks \X Blocks
      /\ \A b \in shape.body : w \in RoutineFlow(b) => <<b, w>> \in shape.back
      /\ shape.entries # {} /\ shape.entries \subseteq Blocks
    BY DEF Enclosed
<1>3. /\ Weighed(Around(shape), Charge) /\ Gainless(Around(shape), Charge)
      /\ \A b, c \in Blocks : Charge[b][c] >= 0 /\ Charge[b][c] = Through(b).least
      /\ \A b \in Blocks : Around(shape)[b] = RoutineFlow(b) \cap shape.body
    <2>1. Weighed(Around(shape), Charge)
        BY <1>1, AroundFacts, ChargeFacts DEF Weighed
    <2> QED BY <1>1, <2>1, AroundFacts, ChargeFacts, TollsAreGainless
<1>4. ASSUME NEW t \in Blocks
      PROVE  /\ t \in DOMAIN paid(t) /\ paid(t)[t] <= 0
             /\ \A b \in DOMAIN paid(t) : b \in Blocks /\ paid(t)[b] \in Int /\ paid(t)[b] >= 0
             /\ \A b \in DOMAIN paid(t) : \A c \in Around(shape)[b] :
                   c \in DOMAIN paid(t) /\ paid(t)[c] <= paid(t)[b] + Charge[b][c]
             /\ t \in shape.body => DOMAIN paid(t) \subseteq shape.body
    <2>1. PICK S \in SUBSET Blocks : S = {t}
        OBVIOUS
    <2>2. Potential(Cheapest(S, Around(shape), Charge), S, Around(shape), Charge)
        BY <1>3, CheapestFacts
    <2>3. \A b \in DOMAIN Cheapest(S, Around(shape), Charge) :
              Cheapest(S, Around(shape), Charge)[b] >= 0
        BY <1>3, NothingIsGained
    <2>4. paid(t) = Cheapest(S, Around(shape), Charge) /\ t \in S
        BY <2>1
    <2>5. t \in shape.body => DOMAIN paid(t) \subseteq shape.body
        BY <1>1, <1>3, CycleFacts
    <2> HIDE DEF paid
    <2> QED BY <2>2, <2>3, <2>4, <2>5 DEF Potential
<1>5. \A b \in Blocks : Through(b).least \in Nat /\ Through(b).least >= 1
    <2> TAKE b \in Blocks
    <2>1. /\ BlockCost(b).least \in Nat /\ BlockCost(b).least >= 1
          /\ Known(CallTarget(b)).least \in Nat
          /\ b \notin Callsubs => Through(b) = BlockCost(b)
          /\ b \in Callsubs => Through(b).least = BlockCost(b).least + Known(CallTarget(b)).least
        BY ThroughFacts, KnownFacts DEF IsCost
    <2> QED BY <2>1
<1> HIDE DEF paid
<1>6. /\ turns \subseteq Nat \ {0} /\ turns \in SUBSET Int
      /\ IsFiniteSet(turns)
    <2> DEFINE val == [edge \in shape.back |-> paid(edge[2])[edge[1]] + Through(edge[1]).least]
    <2>1. ASSUME NEW edge \in shape.back
          PROVE  Turn(edge) \subseteq Nat \ {0} /\ Turn(edge) \subseteq {val[edge]}
        <3>1. edge[1] \in Blocks /\ edge[2] \in Blocks
            BY <1>2
        <3>2. edge[1] \in DOMAIN paid(edge[2]) =>
                  paid(edge[2])[edge[1]] \in Int /\ paid(edge[2])[edge[1]] >= 0
            BY <1>4, <3>1
        <3>3. Through(edge[1]).least \in Nat /\ Through(edge[1]).least >= 1
            BY <1>5, <3>1
        <3> QED BY <3>2, <3>3
    <2>2. IsFiniteSet(shape.back)
        BY <1>2, GraphFacts, FS_Product, FS_Subset
    <2>3. IsFiniteSet({val[edge] : edge \in shape.back})
        BY <2>2, ImageIsFinite
    <2>4. turns \subseteq {val[edge] : edge \in shape.back}
        BY <2>1
    <2>5. turns \subseteq Nat \ {0}
        BY <2>1
    <2> HIDE DEF turns
    <2>6. IsFiniteSet(turns)
        BY <2>3, <2>4, FS_Subset
    <2> QED BY <2>5, <2>6
<1>7. Iteration(shape) = IF turns = {} THEN Through(Header(shape)).least ELSE Min(turns)
    BY DEF Iteration, paid
<1> HIDE DEF turns
<1>8. Iteration(shape) \in Nat \ {0}
    <2>1. CASE turns = {}
        <3>1. Header(shape) \in Blocks
            BY <1>2, EarliestFacts DEF Header
        <3> QED BY <1>5, <1>7, <2>1, <3>1
    <2>2. CASE turns # {}
        BY <1>6, <1>7, <2>2, MinFacts
    <2> QED BY <2>1, <2>2
<1>9. ASSUME NEW b \in DOMAIN q, w \in RoutineFlow(b)
      PROVE  Iteration(shape) <= q[b] + Through(b).least
    <2>1. b \in shape.body /\ b \in Blocks
        BY <1>1, <1>4
    <2>2. <<b, w>> \in shape.back
        BY <1>2, <1>9, <2>1
    <2>3. Turn(<<b, w>>) = {q[b] + Through(b).least}
        BY <1>9
    <2>4. q[b] + Through(b).least \in turns
        BY <2>2, <2>3 DEF turns
    <2>5. turns # {} /\ turns \in SUBSET Int /\ IsFiniteSet(turns)
        BY <1>6, <2>4
    <2>6. \A y \in turns : Min(turns) <= y
        BY <2>5, MinFacts
    <2> QED BY <1>7, <2>4, <2>5, <2>6
<1>10. ASSUME NEW b \in DOMAIN q, NEW c \in RoutineFlow(b) \cap shape.body
       PROVE  c \in DOMAIN q /\ q[c] <= q[b] + Through(b).least
    <2>1. b \in Blocks /\ c \in Blocks /\ c \in Around(shape)[b]
        BY <1>1, <1>3, <1>4, <1>10
    <2>2. c \in DOMAIN q /\ q[c] <= q[b] + Charge[b][c]
        BY <1>1, <1>4, <2>1
    <2>3. Charge[b][c] = Through(b).least
        BY <1>3, <2>1
    <2> QED BY <2>2, <2>3
<1>11. w \in DOMAIN q /\ q[w] <= 0 /\ \A b \in DOMAIN q : b \in Blocks /\ q[b] \in Int
    BY <1>1, <1>4
<1> HIDE DEF q
<1>12. Turned(Iteration(shape), q, shape, w)
    BY <1>8, <1>9, <1>10, <1>11 DEF Turned
<1> QED BY <1>12

LEMMA DeltaSteps ==
    ASSUME IsProgram(prog), NEW b \in All
    PROVE  \E rise : /\ rise[0] = 0 /\ Delta(b) = rise[Len(prog[b])]
                     /\ \A n \in 1..Len(prog[b]) :
                           rise[n] = rise[n - 1] + prog[b][n].pushes - prog[b][n].pops
                     /\ \A n \in 0..Len(prog[b]) : rise[n] \in Int
<1> DEFINE N == Len(prog[b])
           After(h, o) == h + o.pushes - o.pops
           G == [x \in (1..N) \X Int |-> After(x[2], prog[b][x[1]])]
           F(f) == [i \in 0..N |-> IF i = 0 THEN 0 ELSE f[i - 1] + prog[b][i].pushes - prog[b][i].pops]
           rise == CHOOSE f : f = F(f)
<1>1. N \in Nat \ {0} /\ \A i \in 1..N : prog[b][i] \in Op
    BY ProgramFacts
<1>2. \A h \in Int, o \in Op : After(h, o) \in Int
    BY DEF Op
<1>3. PICK f \in [0..N -> Int] : StepByStep(f, 0, N, G)
    <2>1. G \in [(1..N) \X Int -> Int]
        <3>1. \A x \in (1..N) \X Int : After(x[2], prog[b][x[1]]) \in Int
            <4> TAKE x \in (1..N) \X Int
            <4>1. x[1] \in 1..N /\ x[2] \in Int
                OBVIOUS
            <4> HIDE DEF After, N
            <4> QED BY <1>1, <1>2, <4>1
        <3> HIDE DEF After, N
        <3> QED BY <3>1
    <2>2. 0 \in Int
        OBVIOUS
    <2> HIDE DEF G, N
    <2> QED BY <1>1, <2>1, <2>2, RecursionUpTo
<1>4. f = F(f)
    <2>1. f[0] = 0 /\ \A n \in 1..N : f[n] = G[<<n, f[n - 1]>>]
        BY <1>3 DEF StepByStep
    <2>2. ASSUME NEW i \in 0..N PROVE f[i] = F(f)[i]
        <3>1. CASE i = 0
            BY <2>1, <3>1
        <3>2. CASE i # 0
            <4>1. i \in 1..N /\ i - 1 \in 0..N
                BY <1>1, <3>2
            <4>2. f[i - 1] \in Int
                <5> HIDE DEF N
                <5> QED BY <1>3, <4>1
            <4>3. <<i, f[i - 1]>> \in (1..N) \X Int
                BY <4>1, <4>2
            <4>4. G[<<i, f[i - 1]>>] = After(f[i - 1], prog[b][i])
                <5> HIDE DEF After, N
                <5> QED BY <4>3
            <4>5. F(f)[i] = After(f[i - 1], prog[b][i])
                BY <3>2
            <4> HIDE DEF G, After, F
            <4> QED BY <2>1, <4>1, <4>4, <4>5
        <3> QED BY <3>1, <3>2
    <2> HIDE DEF N
    <2> QED BY <1>3, <2>2
<1>5. rise = F(rise)
    <2> HIDE DEF F
    <2> QED BY <1>4
<1>6. Delta(b) = rise[N]
    BY DEF Delta
<1> HIDE DEF rise
<1>7. rise[0] = 0 /\ \A n \in 1..N : rise[n] = rise[n - 1] + prog[b][n].pushes - prog[b][n].pops
    <2>1. 0 \in 0..N /\ \A n \in 1..N : n \in 0..N /\ n # 0
        BY <1>1
    <2> HIDE DEF N
    <2> QED BY <1>5, <2>1
<1> DEFINE T == {n \in Nat : n <= N => rise[n] \in Int}
<1>8. \A n \in Nat : n \in T
    <2>1. 0 \in T
        BY <1>7
    <2>2. ASSUME NEW n \in Nat, n \in T PROVE n + 1 \in T
        <3> SUFFICES ASSUME n + 1 <= N PROVE rise[n + 1] \in Int
            OBVIOUS
        <3>1. n + 1 \in 1..N /\ (n + 1) - 1 = n /\ n <= N
            BY <1>1
        <3>2. rise[n] \in Int
            BY <2>2, <3>1
        <3>3. prog[b][n + 1].pushes \in Int /\ prog[b][n + 1].pops \in Int
            BY <1>1, <3>1 DEF Op
        <3> HIDE DEF N
        <3> QED BY <1>7, <3>1, <3>2, <3>3
    <2> HIDE DEF T
    <2> QED BY <2>1, <2>2, NumberInduction
<1>9. \A n \in 0..N : rise[n] \in Int
    <2> HIDE DEF N
    <2> QED BY <1>1, <1>8
<1> QED BY <1>6, <1>7, <1>9

\* What the machine does not reject changes the height as Delta says.
LEMMA DeltaFacts ==
    ASSUME IsProgram(prog), NEW b \in All
    PROVE  /\ Delta(b) \in Int
           /\ height \in Nat /\ HeightAfter(b) # -1 =>
                 /\ HeightAfter(b) = height + Delta(b)
                 /\ HeightAfter(b) \in Nat /\ HeightAfter(b) <= MaxStack
<1> DEFINE N == Len(prog[b])
<1>1. N \in Nat \ {0} /\ N \in 0..N /\ \A i \in 1..N : prog[b][i] \in Op
    BY ProgramFacts
<1>2. PICK rise : /\ rise[0] = 0 /\ Delta(b) = rise[N]
                  /\ \A n \in 1..N : rise[n] = rise[n - 1] + prog[b][n].pushes - prog[b][n].pops
                  /\ \A n \in 0..N : rise[n] \in Int
    BY DeltaSteps
<1>3. ASSUME height \in Nat, HeightAfter(b) # -1
      PROVE  /\ HeightAfter(b) = height + Delta(b)
             /\ HeightAfter(b) \in Nat /\ HeightAfter(b) <= MaxStack
    <2>1. PICK run : /\ run[0] = height /\ HeightAfter(b) = run[N]
                     /\ \A n \in 1..N : run[n] = Lifted(run[n - 1], prog[b][n])
                     /\ \A n \in 0..N : run[n] \in Int
        BY <1>3, HeightSteps
    <2> DEFINE Right(n) == /\ run[n] \in Nat /\ run[n] = height + rise[n]
                           /\ n > 0 => run[n] <= MaxStack
               T == {n \in Nat : n <= N => run[n] = -1 \/ Right(n)}
    <2>2. 0 \in T
        BY <1>2, <1>3, <2>1
    <2>3. ASSUME NEW n \in Nat, n \in T PROVE n + 1 \in T
        <3> SUFFICES ASSUME n + 1 <= N PROVE run[n + 1] = -1 \/ Right(n + 1)
            OBVIOUS
        <3>1. PICK p \in 1..N : p = n + 1
            BY <1>1
        <3>2. n <= N /\ n \in 0..N /\ p \in 0..N /\ p - 1 = n /\ p > 0
            BY <1>1, <3>1
        <3>3. PICK o \in Op : o = prog[b][p]
            BY <1>1
        <3>4. o.pushes \in Nat /\ o.pops \in Nat
            BY DEF Op
        <3>5. run[p] = Lifted(run[n], o) /\ rise[p] = rise[n] + o.pushes - o.pops
            <4> HIDE DEF N
            <4> QED BY <1>2, <2>1, <3>2, <3>3
        <3>6. run[n] = -1 \/ Right(n)
            BY <2>3, <3>2
        <3>7. rise[n] \in Int /\ height \in Nat /\ MaxStack \in Nat
            BY <1>2, <1>3, <3>2, CeilingsAreNat
        <3>8. run[p] = -1 \/ Right(p)
            <4>1. CASE run[n] = -1
                BY <3>4, <3>5, <4>1 DEF Lifted
            <4>2. CASE Right(n)
                <5> DEFINE up == run[n] + o.pushes - o.pops
                <5>1. run[n] \in Nat /\ run[n] = height + rise[n]
                    BY <4>2
                <5>2. up \in Int /\ up = height + rise[p] /\ (~(run[n] < o.pops) => up \in Nat)
                    <6>1. PICK a \in Nat, r \in Int, t \in Int, h \in Nat, u \in Nat, v \in Nat :
                              /\ a = run[n] /\ r = rise[n] /\ t = rise[p]
                              /\ h = height /\ u = o.pushes /\ v = o.pops
                        BY <1>2, <3>2, <3>4, <3>7, <5>1
                    <6>2. a = h + r /\ t = r + u - v /\ up = a + u - v
                        BY <3>5, <5>1, <6>1
                    <6>3. /\ a + u - v \in Int /\ a + u - v = h + t
                          /\ ~(a < v) => a + u - v \in Nat
                        BY <6>2
                    <6> HIDE DEF up
                    <6> QED BY <6>1, <6>2, <6>3
                <5>3. run[p] = IF run[n] < o.pops \/ up > MaxStack THEN -1 ELSE up
                    BY <3>5 DEF Lifted
                <5> HIDE DEF up
                <5> QED BY <3>7, <5>2, <5>3
            <4> QED BY <3>6, <4>1, <4>2
        <3> QED BY <3>1, <3>8
    <2>4. N \in T
        <3> HIDE DEF T, N
        <3> QED BY <1>1, <2>2, <2>3, NumberInduction
    <2> QED BY <1>1, <1>2, <1>3, <2>1, <2>4
<1> QED BY <1>1, <1>2, <1>3

Deltas == [k \in Blocks |-> [c \in Blocks |-> Delta(k)]]

LEMMA DeltasFacts ==
    ASSUME Graph, IdentifiedTypes, NEW shape, shape.body \subseteq Blocks
    PROVE  /\ \A b \in Blocks : Delta(b) \in Int
           /\ Weighed(Around(shape), Deltas)
           /\ \A b, c \in Blocks : Deltas[b][c] = Delta(b)
<1>1. \A b \in Blocks : Delta(b) \in Int
    BY FlowGraphFacts, DeltaFacts
<1>2. Deltas \in [Blocks -> [Blocks -> Int]] /\ \A b, c \in Blocks : Deltas[b][c] = Delta(b)
    BY <1>1 DEF Deltas
<1> QED BY <1>1, <1>2, AroundFacts DEF Weighed

LEMMA RiseFacts ==
    ASSUME Graph, IdentifiedTypes, NEW shape, shape.body \subseteq Blocks,
           NEW x \in Blocks, NEW d, d = Cheapest({x}, Around(shape), Deltas)
    PROVE  /\ \A k \in DOMAIN d : x \in Around(shape)[k] =>
                 x \in Turning(shape) /\ Rise(shape, x) <= d[k] + Delta(k)
           /\ x \in Turning(shape) => Rise(shape, x) \in Int
<1> DEFINE val == [k \in DOMAIN d |-> d[k] + Delta(k)]
           Back == {k \in DOMAIN d : x \in Around(shape)[k]}
           S == {val[k] : k \in Back}
<1>1. /\ \A k \in DOMAIN d : k \in Blocks /\ d[k] \in Int /\ Delta(k) \in Int
      /\ \A k \in DOMAIN d : x \in Around(shape)[k] => x \in Turning(shape)
      /\ x \in Turning(shape) => \E k \in DOMAIN d : x \in Around(shape)[k]
    BY DeltasFacts, CycleFacts
<1>2. Rise(shape, x) = Min(S)
    <2>1. S = {d[k] + Delta(k) : k \in Back}
        OBVIOUS
    <2> QED BY <2>1 DEF Rise, Deltas
<1>3. S \in SUBSET Int /\ IsFiniteSet(S)
    <2>1. Back \subseteq Blocks /\ IsFiniteSet(Blocks)
        BY <1>1, GraphFacts
    <2>2. IsFiniteSet(Back)
        BY <2>1, FS_Subset
    <2>3. IsFiniteSet(S)
        <3> HIDE DEF val, Back
        <3> QED BY <2>2, ImageIsFinite
    <2>4. \A k \in Back : val[k] \in Int
        <3>1. ASSUME NEW k \in DOMAIN d PROVE d[k] + Delta(k) \in Int
            <4>1. PICK i \in Int, j \in Int : i = d[k] /\ j = Delta(k)
                BY <1>1
            <4> QED BY <4>1
        <3>2. \A k \in DOMAIN d : val[k] = d[k] + Delta(k)
            OBVIOUS
        <3> HIDE DEF val
        <3> QED BY <3>1, <3>2
    <2> HIDE DEF val, Back
    <2> QED BY <2>3, <2>4
<1>4. \A k \in DOMAIN d : x \in Around(shape)[k] => d[k] + Delta(k) \in S
    OBVIOUS
<1>5. x \in Turning(shape) => S # {}
    BY <1>1
<1> HIDE DEF S
<1>6. S # {} => Min(S) \in Int /\ \A y \in S : Min(S) <= y
    BY <1>3, MinFacts
<1> QED BY <1>1, <1>2, <1>4, <1>5, <1>6

\* What every turn adds is a potential of the heights.
LEMMA GrowthFacts ==
    ASSUME Graph, IdentifiedTypes, NEW shape, Enclosed(shape), Turns(shape),
           Growth(shape) # None, NEW w \in Watchable(shape)
    PROVE  \E h : Raised(Growth(shape), h, shape, w)
<1> DEFINE T == Turning(shape)
           counted == CountedAt(shape)
           next == Around(shape)
           rise == [b \in counted |-> Rise(shape, b)]
           R == {rise[b] : b \in counted}
           g == Growth(shape)
           d(x) == Cheapest({x}, next, Deltas)
           h == d(w)
<1>1. w \in shape.body /\ shape.body \subseteq Blocks /\ w \in Blocks
    BY WatchableFacts
<1>2. /\ shape.body \cap (Callsubs \union Retsubs) = {}
      /\ \A b \in T : ~(Rise(shape, b) <= 0)
      /\ g = Min(R)
    <2>1. g = IF \/ shape.body \cap (Callsubs \union Retsubs) # {}
                 \/ \E b \in T : Rise(shape, b) <= 0
              THEN None ELSE Min({Rise(shape, b) : b \in counted})
        BY DEF Growth, Turning, CountedAt
    <2>2. R = {Rise(shape, b) : b \in counted}
        OBVIOUS
    <2> HIDE DEF R, T, counted
    <2> QED BY <2>1, <2>2
<1>3. counted # {} /\ counted \subseteq T /\ T \subseteq Blocks
    BY <1>1, <1>2 DEF Turns, Turning
<1>4. \A b, c \in Blocks : Deltas[b][c] = Delta(b) /\ Delta(b) \in Int
    BY <1>1, DeltasFacts
<1>5. Weighed(next, Deltas)
    BY <1>1, DeltasFacts
<1>6. \A b \in Blocks : next[b] = RoutineFlow(b) \cap shape.body /\ next[b] \subseteq shape.body
    BY <1>1, AroundFacts
<1>7. \A b \in T : Rise(shape, b) \in Int /\ Rise(shape, b) > 0
    <2>1. \A b \in T : Rise(shape, b) \in Int
        BY <1>1, <1>3, RiseFacts
    <2> QED BY <1>2, <2>1
<1>8. ASSUME NEW x \in Blocks, NEW k \in DOMAIN d(x), x \in next[k]
      PROVE  x \in T /\ Rise(shape, x) <= d(x)[k] + Delta(k) /\ k \in Blocks /\ d(x)[k] \in Int
    <2>1. x \in T /\ Rise(shape, x) <= d(x)[k] + Delta(k)
        BY <1>1, <1>8, RiseFacts
    <2>2. k \in Blocks /\ d(x)[k] \in Int
        BY <1>1, <1>5, CycleFacts
    <2> QED BY <2>1, <2>2
<1> HIDE DEF next, T, counted
<1>9. Gainless(next, Deltas)
    <2>1. ASSUME NEW x \in Blocks, NEW k \in DOMAIN d(x), x \in next[k]
          PROVE  d(x)[k] + Deltas[k][x] >= 0
        <3>1. PICK i \in Int, j \in Int, r \in Int : i = d(x)[k] /\ j = Delta(k) /\ r = Rise(shape, x)
            BY <1>4, <1>7, <1>8, <2>1
        <3>2. r <= i + j /\ r > 0 /\ Deltas[k][x] = j
            BY <1>4, <1>7, <1>8, <2>1, <3>1
        <3> QED BY <3>1, <3>2
    <2> QED BY <2>1 DEF Gainless
<1>10. Potential(h, {w}, next, Deltas)
    <2>1. PICK S \in SUBSET Blocks : S = {w}
        BY <1>1
    <2>2. Potential(Cheapest(S, next, Deltas), S, next, Deltas)
        BY <1>5, <1>9, CheapestFacts
    <2> QED BY <2>1, <2>2
<1>11. R # {} /\ R \in SUBSET Int /\ IsFiniteSet(R) /\ \A y \in R : y > 0
    <2>1. IsFiniteSet(counted)
        BY <1>3, GraphFacts, FS_Subset
    <2>2. \A b \in counted : rise[b] \in Int /\ rise[b] > 0
        BY <1>3, <1>7
    <2>3. R # {} /\ R \in SUBSET Int /\ \A y \in R : y > 0
        <3> HIDE DEF rise
        <3> QED BY <1>3, <2>2
    <2>4. IsFiniteSet(R)
        <3> HIDE DEF rise
        <3> QED BY <2>1, ImageIsFinite
    <2> QED BY <2>3, <2>4
<1>12. g \in R /\ \A y \in R : g <= y
    <2> HIDE DEF R, g
    <2> QED BY <1>2, <1>11, MinFacts
<1>13. g \in Nat \ {0}
    <2> HIDE DEF R, g
    <2> QED BY <1>11, <1>12
<1>14. DOMAIN h \subseteq shape.body
    BY <1>1, <1>5, CycleFacts DEF next
<1>15. ASSUME NEW b \in DOMAIN h, w \in RoutineFlow(b) PROVE g <= h[b] + Delta(b)
    <2>1. b \in Blocks /\ w \in next[b]
        BY <1>1, <1>6, <1>14, <1>15
    <2>2. w \in T /\ Rise(shape, w) <= h[b] + Delta(b) /\ h[b] \in Int /\ Delta(b) \in Int
        BY <1>1, <1>4, <1>8, <2>1
    <2>3. w \in counted
        BY <2>2 DEF counted, CountedAt, Watchable, T
    <2>4. rise[w] = Rise(shape, w) /\ rise[w] \in R
        BY <2>3
    <2>5. PICK i \in Int, j \in Int, r \in Int : i = h[b] /\ j = Delta(b) /\ r = Rise(shape, w)
        BY <1>7, <2>2
    <2>6. g <= r /\ r <= i + j
        BY <1>12, <2>2, <2>4, <2>5
    <2> HIDE DEF g, h
    <2> QED BY <1>13, <2>5, <2>6
<1>16. ASSUME NEW b \in DOMAIN h, NEW c \in RoutineFlow(b) \cap shape.body
       PROVE  c \in DOMAIN h /\ h[c] <= h[b] + Delta(b)
    <2>1. b \in Blocks /\ c \in Blocks /\ c \in next[b]
        BY <1>1, <1>6, <1>14, <1>16
    <2>2. c \in DOMAIN h /\ h[c] <= h[b] + Deltas[b][c]
        BY <1>10, <2>1 DEF Potential
    <2> QED BY <1>4, <2>1, <2>2
<1>17. w \in DOMAIN h /\ h[w] <= 0 /\ \A b \in DOMAIN h : b \in Blocks /\ h[b] \in Int
    BY <1>10 DEF Potential
<1> HIDE DEF g, h
<1>18. Raised(g, h, shape, w)
    BY <1>2, <1>13, <1>15, <1>16, <1>17 DEF Raised
<1> QED BY <1>18 DEF g

LEMMA ApproachFacts ==
    ASSUME Graph, IdentifiedTypes, ChargeTypes, NEW shape, Enclosed(shape), PlainlyEntered(shape)
    PROVE  \E d : Approached(Prefix(shape), d, shape)
<1> DEFINE toll == [b \in Blocks |-> [c \in Blocks |-> BlockCost(b).least]]
           d == Distances
<1>1. /\ IsProgram(prog) /\ Blocks \in SUBSET All /\ 1 \in Blocks
      /\ succ \in [Blocks -> SUBSET Blocks]
      /\ Earliest(Blocks) = 1
    BY FlowGraphFacts, GraphFacts, FirstBlock
<1>2. \A b \in Blocks : BlockCost(b).least \in Nat
    BY ThroughFacts DEF IsCost
<1>3. Weighed(succ, toll) /\ \A b, c \in Blocks : toll[b][c] = BlockCost(b).least /\ toll[b][c] >= 0
    <2>1. toll \in [Blocks -> [Blocks -> Int]]
        BY <1>2
    <2>2. \A b, c \in Blocks : toll[b][c] = BlockCost(b).least
        OBVIOUS
    <2> HIDE DEF toll
    <2> QED BY <1>1, <1>2, <2>1, <2>2 DEF Weighed
<1>4. PICK S \in SUBSET Blocks : S = {1}
    BY <1>1
<1>5. d = Cheapest(S, succ, toll)
    BY <1>1, <1>4 DEF Distances
<1> HIDE DEF toll, d
<1>6. Potential(d, S, succ, toll)
    BY <1>3, <1>5, TollsAreGainless, CheapestFacts
<1>7. /\ 1 \in DOMAIN d /\ d[1] <= 0
      /\ \A b \in DOMAIN d : b \in Blocks /\ d[b] \in Int
      /\ \A b \in DOMAIN d : \A c \in succ[b] : c \in DOMAIN d /\ d[c] <= d[b] + toll[b][c]
    BY <1>4, <1>6 DEF Potential
<1>8. \A b \in DOMAIN d : \A c \in succ[b] : c \in DOMAIN d /\ d[c] <= d[b] + BlockCost(b).least
    BY <1>1, <1>3, <1>7
<1>9. Blocks \subseteq DOMAIN d
    <2>1. PICK L \in SUBSET All :
              /\ DOMAIN BlockGraph = L
              /\ \A b \in L : BlockGraph[b] = Leads(b, L)
              /\ L = ReachedFrom1(L)
        BY <1>1, BlockGraphFacts
    <2>2. L = Blocks
        BY <2>1 DEF Graph, Blocks
    <2>3. \A b \in (DOMAIN d) \cap All : Leads(b, Blocks) \subseteq DOMAIN d
        BY <1>7, <2>1, <2>2 DEF Graph
    <2>4. ReachedFrom1(Blocks) \subseteq DOMAIN d
        BY <1>1, <1>7, <2>3, ReachedFacts
    <2> QED BY <2>1, <2>2, <2>4
<1> DEFINE E == shape.entries
           near == Nearest(shape)
<1>10. E \subseteq Blocks /\ E # {}
    BY DEF Enclosed
<1>11. near \in E
    <2> DEFINE val == [e \in E |-> d[e] + BlockCost(e).least]
               V == {val[e] : e \in E}
               M == {e \in E : \A f \in E : val[e] <= val[f]}
    <2>1. \A e \in E : val[e] \in Int
        <3>1. ASSUME NEW e \in E PROVE d[e] + BlockCost(e).least \in Int
            <4>1. PICK i \in Int, j \in Int : i = d[e] /\ j = BlockCost(e).least
                BY <1>2, <1>7, <1>9, <1>10
            <4> QED BY <4>1
        <3> QED BY <3>1
    <2>2. near = Earliest(M)
        BY DEF Nearest, d
    <2> HIDE DEF val, near, E
    <2>3. IsFiniteSet(V)
        <3>1. IsFiniteSet(E)
            BY <1>10, GraphFacts, FS_Subset
        <3> QED BY <3>1, ImageIsFinite
    <2>4. V \in SUBSET Int /\ V # {}
        BY <1>10, <2>1
    <2>5. PICK x \in V : \A y \in V : x <= y
        <3> HIDE DEF V
        <3> QED BY <2>3, <2>4, Extremes
    <2>6. PICK e \in E : x = val[e]
        BY <2>5
    <2>7. e \in M
        BY <2>5, <2>6
    <2>8. M \in SUBSET Blocks /\ M # {} /\ M \subseteq E
        BY <1>10, <2>7
    <2> HIDE DEF M
    <2>9. Earliest(M) \in M
        BY <2>8, EarliestFacts
    <2> QED BY <2>2, <2>8, <2>9
<1>12. Prefix(shape) = d[near]
    BY DEF Prefix, d
<1>13. \A e \in E : e \in DOMAIN d /\ Prefix(shape) <= d[e]
    BY <1>9, <1>10, <1>12 DEF PlainlyEntered, d
<1>14. Prefix(shape) \in Int
    BY <1>7, <1>9, <1>10, <1>11, <1>12
<1>15. Approached(Prefix(shape), d, shape)
    BY <1>7, <1>8, <1>13, <1>14 DEF Approached
<1> QED BY <1>15

LEMMA Dividing ==
    \A x, y \in Nat, z \in Nat \ {0} : x * z <= y => x <= y \div z
<1> SUFFICES ASSUME NEW x \in Nat, NEW y \in Nat, NEW z \in Nat \ {0}, x * z <= y, ~(x <= y \div z)
             PROVE  FALSE
    OBVIOUS
<1>1. PICK n \in Nat : n = y \div z
    OBVIOUS
<1>2. y < (n + 1) * z
    BY <1>1
<1>3. n + 1 <= x
    BY <1>1
<1>4. (n + 1) * z <= x * z
    BY <1>3
<1> QED BY <1>2, <1>4

\* What bounds the turns of a loop counted at block w, by the budget and by the stack.
BudgetBasis(z, loop, w) ==
    /\ Turned(z.iter, z.q, loop.shape, w)
    /\ Approached(z.pre, z.d, loop.shape)
    /\ 0 <= loop.budget
    /\ \A x \in Nat : x > 0 /\ x * z.iter + z.pre <= Credit => x <= loop.budget

StackBasis(z, loop, w) ==
    /\ Raised(z.gain, z.h, loop.shape, w)
    /\ 0 <= loop.stack
    /\ \A x \in Nat : x * z.gain <= MaxStack => x <= loop.stack

LoopSound(loop) ==
    /\ Enclosed(loop.shape)
    /\ \A w \in Watchable(loop.shape) :
          /\ PlainlyEntered(loop.shape) => \E z : BudgetBasis(z, loop, w)
          /\ loop.stack # None => \E z : StackBasis(z, loop, w)

LEMMA BudgetFacts ==
    ASSUME NEW shape, Prefix(shape) \in Int, Iteration(shape) \in Nat \ {0}
    PROVE  /\ 0 <= Bound(shape).budget
           /\ \A x \in Nat : x > 0 /\ x * Iteration(shape) + Prefix(shape) <= Credit => x <= Bound(shape).budget
<1>1. PICK i \in Nat \ {0}, p \in Int : i = Iteration(shape) /\ p = Prefix(shape)
    OBVIOUS
<1>2. Credit \in Nat
    BY CeilingsAreNat
<1> DEFINE V == {0, Credit - p}
           W == {1, i}
<1>3. Bound(shape).budget = Max(V) \div Max(W)
    BY <1>1 DEF Bound
<1>4. IsFiniteSet(V) /\ IsFiniteSet(W)
    <2>1. \A a : IsFiniteSet({a})
        BY FS_Singleton
    <2>2. IsFiniteSet({0} \union {Credit - p}) /\ IsFiniteSet({1} \union {i})
        BY <2>1, FS_Union
    <2>3. V = {0} \union {Credit - p} /\ W = {1} \union {i}
        OBVIOUS
    <2> QED BY <2>2, <2>3
<1>5. V \in SUBSET Int /\ V # {} /\ W \in SUBSET Int /\ W # {}
    BY <1>2
<1>6. 0 \in V /\ Credit - p \in V /\ 1 \in W /\ i \in W /\ \A y \in W : y <= i
    OBVIOUS
<1> HIDE DEF V, W
<1>7. Max(V) \in Int /\ Max(W) \in W /\ Max(W) \in Int
      /\ (\A y \in V : y <= Max(V)) /\ \A y \in W : y <= Max(W)
    BY <1>4, <1>5, MaxFacts
<1>8. PICK m \in Nat : m = Max(V) /\ Credit - p <= m
    BY <1>6, <1>7
<1>9. Max(W) = i
    BY <1>6, <1>7
<1>10. Bound(shape).budget = m \div i
    BY <1>3, <1>8, <1>9
<1>11. 0 <= m \div i
    BY <1>8
<1>12. ASSUME NEW x \in Nat, x * i + p <= Credit PROVE x <= m \div i
    <2>1. PICK k \in Nat : k = x * i
        OBVIOUS
    <2>2. k <= m
        BY <1>2, <1>8, <1>12, <2>1
    <2> QED BY <2>1, <2>2, Dividing
<1> QED BY <1>1, <1>10, <1>11, <1>12

\* What Analyse reports of a loop rests on what the loop does.
LEMMA BoundFacts ==
    ASSUME Graph, IdentifiedTypes, ChargeTypes, NEW shape, Enclosed(shape), Turns(shape)
    PROVE  LoopSound(Bound(shape))
<1> DEFINE loop == Bound(shape)
           growth == Growth(shape)
<1>1. loop.shape = shape /\ loop.stack = IF growth = None THEN None ELSE MaxStack \div growth
    BY DEF Bound
<1>2. ASSUME NEW w \in Watchable(shape), PlainlyEntered(shape) PROVE \E z : BudgetBasis(z, loop, w)
    <2>1. PICK q : Turned(Iteration(shape), q, shape, w)
        BY IterationFacts
    <2>2. PICK d : Approached(Prefix(shape), d, shape)
        BY <1>2, ApproachFacts
    <2>3. Prefix(shape) \in Int /\ Iteration(shape) \in Nat \ {0}
        BY <2>1, <2>2 DEF Turned, Approached
    <2>4. /\ 0 <= loop.budget
          /\ \A x \in Nat : x > 0 /\ x * Iteration(shape) + Prefix(shape) <= Credit => x <= loop.budget
        BY <2>3, BudgetFacts
    <2> DEFINE z == [iter |-> Iteration(shape), q |-> q, pre |-> Prefix(shape), d |-> d]
    <2>5. z.iter = Iteration(shape) /\ z.q = q /\ z.pre = Prefix(shape) /\ z.d = d
        OBVIOUS
    <2> HIDE DEF z, loop
    <2>6. BudgetBasis(z, loop, w)
        BY <1>1, <2>1, <2>2, <2>4, <2>5 DEF BudgetBasis
    <2> QED BY <2>6
<1>3. ASSUME NEW w \in Watchable(shape), loop.stack # None PROVE \E z : StackBasis(z, loop, w)
    <2>1. growth # None
        BY <1>1, <1>3
    <2>2. PICK h : Raised(growth, h, shape, w)
        BY <2>1, GrowthFacts
    <2>3. growth \in Nat \ {0}
        BY <2>2 DEF Raised
    <2>4. loop.stack = MaxStack \div growth
        BY <1>1, <2>1
    <2> DEFINE z == [gain |-> growth, h |-> h]
    <2>5. z.gain = growth /\ z.h = h
        OBVIOUS
    <2> HIDE DEF z, loop, growth
    <2>6. 0 <= MaxStack \div growth /\ \A x \in Nat : x * growth <= MaxStack => x <= MaxStack \div growth
        BY <2>3, CeilingsAreNat, Dividing
    <2>7. StackBasis(z, loop, w)
        BY <1>1, <2>2, <2>4, <2>5, <2>6 DEF StackBasis
    <2> QED BY <2>7
<1> HIDE DEF loop
<1>4. LoopSound(loop)
    BY <1>1, <1>2, <1>3 DEF LoopSound
<1> QED BY <1>4 DEF loop

\* The search for the cheapest ways, in n rounds.
Searched(S, next, toll, n) ==
    LET least[i \in Nat] ==
            IF i = 0 THEN [b \in S |-> 0]
            ELSE LET d == least[i - 1]
                     to == UNION {next[b] : b \in DOMAIN d}
                     By(c) == {d[b] + toll[b][c] : b \in {k \in DOMAIN d : c \in next[k]}}
                 IN [c \in DOMAIN d \union to |->
                        Min(By(c) \union {d[b] : b \in DOMAIN d \cap {c}})]
    IN least[n]

LEMMA SameLoops ==
    ASSUME UNCHANGED <<program, identified>>, charges' = charges
    PROVE  /\ \A shape : PlainlyEntered(shape)' <=> PlainlyEntered(shape)
           /\ \A shape : Enclosed(shape)' <=> Enclosed(shape)
           /\ \A shape : Watchable(shape)' = Watchable(shape)
           /\ \A z, loop, w : BudgetBasis(z, loop, w)' <=> BudgetBasis(z, loop, w)
           /\ \A z, loop, w : StackBasis(z, loop, w)' <=> StackBasis(z, loop, w)
           /\ \A loop : LoopSound(loop)' <=> LoopSound(loop)
<1>1. UNCHANGED program /\ prog' = prog /\ succ' = succ /\ conts' = conts
    BY DEF program, identified
<1>2. /\ Blocks' = Blocks /\ Callsubs' = Callsubs /\ Retsubs' = Retsubs /\ Entries' = Entries
      /\ \A b : End(b)' = End(b)
      /\ \A b : BlockCost(b)' = BlockCost(b)
      /\ \A b : Delta(b)' = Delta(b)
      /\ \A b : Through(b)' = Through(b)
    BY <1>1, SameProgram, SameText, SameCosts
<1>3. \A b : RoutineFlow(b)' = RoutineFlow(b)
    BY <1>1, <1>2 DEF RoutineFlow
<1>4. \A b : Before(b)' = Before(b)
    BY <1>2, <1>3 DEF Before
<1>5. Roots' = Roots
    BY <1>2 DEF Roots, Earliest
<1>6. Distances' = Distances
    <2> DEFINE toll == [b \in Blocks |-> [c \in Blocks |-> BlockCost(b).least]]
    <2>1. toll' = toll
        BY <1>2
    <2>2. Earliest(Blocks)' = Earliest(Blocks)
        BY <1>2 DEF Earliest
    <2>3. Distances = Searched({Earliest(Blocks)}, succ, toll, Cardinality(Blocks))
        BY DEF Distances, Cheapest, Searched
    <2>4. Distances' = Searched({Earliest(Blocks)'}, succ', toll', Cardinality(Blocks)')
        BY DEF Distances, Cheapest, Searched
    <2>5. Cardinality(Blocks)' = Cardinality(Blocks)
        BY <1>2
    <2> HIDE DEF toll
    <2> QED BY <1>1, <2>1, <2>2, <2>3, <2>4, <2>5
<1>7. \A S : Earliest(S)' = Earliest(S)
    BY DEF Earliest
<1>8. ASSUME NEW shape PROVE PlainlyEntered(shape)' <=> PlainlyEntered(shape)
    <2>1. Nearest(shape)' = Nearest(shape)
        <3> DEFINE M == {e \in shape.entries : \A f \in shape.entries :
                            Distances[e] + BlockCost(e).least <= Distances[f] + BlockCost(f).least}
        <3>1. M' = M
            BY <1>2, <1>6
        <3>2. Nearest(shape) = Earliest(M)
            BY DEF Nearest
        <3>3. Nearest(shape)' = Earliest(M')
            BY DEF Nearest, Earliest
        <3> HIDE DEF M
        <3> QED BY <3>1, <3>2, <3>3
    <2> QED BY <1>6, <2>1 DEF PlainlyEntered
<1>9. \A shape : Watchable(shape)' = Watchable(shape)
    BY DEF Watchable
<1>10. \A shape : Enclosed(shape)' <=> Enclosed(shape)
    BY <1>2, <1>3, <1>4, <1>5, <1>9 DEF Enclosed
<1>11. \A z, loop, w : BudgetBasis(z, loop, w)' <=> BudgetBasis(z, loop, w)
    <2>1. \A iter, q, shape, w : Turned(iter, q, shape, w)' <=> Turned(iter, q, shape, w)
        BY <1>2, <1>3 DEF Turned
    <2>2. \A pre, d, shape : Approached(pre, d, shape)' <=> Approached(pre, d, shape)
        BY <1>1, <1>2 DEF Approached
    <2> QED BY <2>1, <2>2 DEF BudgetBasis
<1>12. \A z, loop, w : StackBasis(z, loop, w)' <=> StackBasis(z, loop, w)
    <2>1. \A g, h, shape, w : Raised(g, h, shape, w)' <=> Raised(g, h, shape, w)
        BY <1>2, <1>3 DEF Raised
    <2> QED BY <2>1 DEF StackBasis
<1>13. ASSUME NEW loop PROVE LoopSound(loop)' <=> LoopSound(loop)
    <2>1. PICK shape : shape = loop.shape
        OBVIOUS
    <2>2. /\ PlainlyEntered(shape)' <=> PlainlyEntered(shape)
          /\ Enclosed(shape)' <=> Enclosed(shape)
          /\ Watchable(shape)' = Watchable(shape)
        BY <1>8, <1>9, <1>10
    <2>3. None' = None
        BY DEF None
    <2> QED BY <1>11, <1>12, <2>1, <2>2, <2>3 DEF LoopSound
<1> QED BY <1>8, <1>9, <1>10, <1>11, <1>12, <1>13

-----------------------------------------------------------------------------
(* The turns of the loop observed.  What a run has spent without them pays *)
(* for the way it would have gone without turning.                         *)

\* A call to e that began at base has paid what the cheapest way to b does, and own there.
Paid(e, base, b, own, net) ==
    e \in Entries => /\ b \in Extent(e)
                     /\ \A p : Cheap(p, e, charges[e]) => b \in DOMAIN p /\ base + p[b] + own <= net

\* And in the loop what leads to it; in a stay that has met the block, what comes after it.
Account(z, k, e, base, b, own, net, s) ==
    /\ base \in Int /\ net \in Int /\ own \in Int
    /\ Paid(e, base, b, own, net)
    /\ b \in k.loop.shape.body => z.pre <= net
    /\ s.met => \E x \in Int : /\ z.pre <= x
                               /\ Paid(e, base, k.block, 0, x)
                               /\ b \in DOMAIN z.q /\ x + z.q[b] + own <= net

\* The loop and block observed are of those reported on.
Observed(k) ==
    /\ Enclosed(k.loop.shape)
    /\ k.block \in Watchable(k.loop.shape)

\* A step from b to c that stays inside, and one that turns.
Within(k, b, c)  == {b, c} \subseteq k.loop.shape.body
Turn(k, b, c, s) == Within(k, b, c) /\ s.met /\ c = k.block

LEMMA PaidStep ==
    ASSUME Graph, ChargeTypes, NEW e, NEW base \in Int, NEW b \in Blocks, NEW own \in Int, NEW net \in Int,
           Paid(e, base, b, own, net),
           NEW c \in Onward(b), NEW more \in Int, net + Through(b).least <= more + own
    PROVE  Paid(e, base, c, 0, more)
<1> SUFFICES ASSUME e \in Entries
             PROVE  /\ c \in Extent(e)
                    /\ \A p : Cheap(p, e, charges[e]) => c \in DOMAIN p /\ base + p[c] + 0 <= more
    BY DEF Paid
<1>1. e \in Blocks /\ b \in Extent(e)
    BY EntriesAreBlocks DEF Paid
<1>2. c \in Extent(e)
    BY <1>1, ExtentFacts
<1>3. Through(b).least \in Nat
    BY ThroughFacts DEF IsCost
<1>4. ASSUME NEW p, Cheap(p, e, charges[e]) PROVE c \in DOMAIN p /\ base + p[c] + 0 <= more
    <2>1. b \in DOMAIN p /\ base + p[b] + own <= net
        BY <1>4 DEF Paid
    <2>2. c \in DOMAIN p /\ p[c] <= p[b] + Through(b).least /\ p[b] \in Int /\ p[c] \in Int
        BY <1>1, <1>4, <2>1 DEF Cheap
    <2> QED BY <1>3, <2>1, <2>2
<1> QED BY <1>2, <1>4

LEMMA PaidMore ==
    ASSUME Graph, ChargeTypes, NEW e, NEW base \in Int, NEW b, NEW own \in Int, NEW net \in Int,
           Paid(e, base, b, own, net),
           NEW due \in Int, NEW more \in Int, net + due <= more + own
    PROVE  Paid(e, base, b, due, more)
<1> SUFFICES ASSUME e \in Entries
             PROVE  /\ b \in Extent(e)
                    /\ \A p : Cheap(p, e, charges[e]) => b \in DOMAIN p /\ base + p[b] + due <= more
    BY DEF Paid
<1>1. b \in Extent(e)
    BY DEF Paid
<1>2. ASSUME NEW p, Cheap(p, e, charges[e]) PROVE b \in DOMAIN p /\ base + p[b] + due <= more
    <2>1. b \in DOMAIN p /\ base + p[b] + own <= net
        BY <1>2 DEF Paid
    <2>2. p[b] \in Int
        BY <1>2, <2>1 DEF Cheap
    <2> QED BY <2>1, <2>2
<1> QED BY <1>1, <1>2

\* Control goes from b to c in one call, which has paid more by then.
LEMMA Onwards ==
    ASSUME Graph, IdentifiedTypes, ChargeTypes, Attributed, Exact(conts),
           NEW k, Observed(k), NEW z, BudgetBasis(z, k.loop, k.block),
           NEW e, NEW base, NEW b \in Blocks, NEW own, NEW net, NEW s \in Stay,
           Account(z, k, e, base, b, own, net, s),
           NEW c \in Onward(b), NEW more \in Int, own <= Through(b).least,
           net + Through(b).least <= more + own,
           c \in k.loop.shape.entries => z.pre <= more
    PROVE  /\ Turn(k, b, c, s) => /\ z.pre <= more - z.iter
                                  /\ \A t : Account(z, k, e, base, c, 0, more - z.iter, t)
           /\ ~Turn(k, b, c, s) => \A t : (t.met => c = k.block \/ (Within(k, b, c) /\ s.met))
                                          => Account(z, k, e, base, c, 0, more, t)
<1> DEFINE body == k.loop.shape.body
           w == k.block
           through == Through(b).least
<1>1. base \in Int /\ net \in Int /\ own \in Int /\ Paid(e, base, b, own, net)
    BY DEF Account
<1>2. /\ z.iter \in Nat \ {0}
      /\ w \in DOMAIN z.q /\ z.q[w] <= 0
      /\ \A x \in DOMAIN z.q : z.q[x] \in Int
      /\ \A x \in DOMAIN z.q : \A y \in RoutineFlow(x) \cap body :
             y \in DOMAIN z.q /\ z.q[y] <= z.q[x] + Through(x).least
      /\ \A x \in DOMAIN z.q : w \in RoutineFlow(x) => z.iter <= z.q[x] + Through(x).least
      /\ z.pre \in Int
    BY DEF BudgetBasis, Turned, Approached
<1>3. through \in Nat
    BY ThroughFacts DEF IsCost
<1>4. c \in RoutineFlow(b) /\ RoutineFlow(b) \subseteq Blocks
    BY OnwardInFlow, FlowGraphFacts
<1>5. w \in body
    BY WatchableFacts DEF Observed
<1>6. Paid(e, base, c, 0, more)
    BY <1>1, PaidStep
<1>7. net <= more
    BY <1>1, <1>3
<1>8. c \in body => z.pre <= more
    <2> SUFFICES ASSUME c \in body PROVE z.pre <= more
        OBVIOUS
    <2>1. CASE b \in body
        <3>1. z.pre <= net
            BY <2>1 DEF Account
        <3> QED BY <1>1, <1>2, <1>7, <3>1
    <2>2. CASE b \notin body
        <3>1. b \in Before(c)
            BY <1>4 DEF Before
        <3>2. c \in k.loop.shape.entries
            BY <2>2, <3>1 DEF Observed, Enclosed
        <3> QED BY <3>2
    <2> QED BY <2>1, <2>2
<1>9. ASSUME s.met
      PROVE  \E x \in Int : /\ z.pre <= x /\ Paid(e, base, w, 0, x)
                            /\ b \in DOMAIN z.q /\ x + z.q[b] + own <= net
    BY <1>9 DEF Account
<1> HIDE DEF body, w, through
<1>10. ASSUME NEW t, NEW x \in Int, z.pre <= x, Paid(e, base, w, 0, x), c = w
       PROVE  Account(z, k, e, base, c, 0, x, t)
    <2>1. z.pre <= x /\ c \in DOMAIN z.q /\ x + z.q[c] + 0 <= x
        BY <1>2, <1>10
    <2> QED BY <1>1, <1>10, <2>1 DEF Account, w
<1>11. ASSUME {b, c} \subseteq body, s.met, c = w
       PROVE  /\ z.pre <= more - z.iter
              /\ \A t : Account(z, k, e, base, c, 0, more - z.iter, t)
    <2>1. PICK x \in Int : /\ z.pre <= x /\ Paid(e, base, w, 0, x)
                           /\ b \in DOMAIN z.q /\ x + z.q[b] + own <= net
        BY <1>9, <1>11
    <2>2. z.iter <= z.q[b] + through /\ z.q[b] \in Int
        BY <1>2, <1>4, <1>11, <2>1 DEF through
    <2>3. net + through <= more + own
        BY DEF through
    <2>4. PICK y \in Int : y = more - z.iter
        BY <1>2
    <2>5. x <= y
        BY <1>1, <1>2, <1>3, <2>1, <2>2, <2>3, <2>4
    <2>6. z.pre <= y /\ Paid(e, base, w, 0, y)
        <3>1. x + 0 <= y + 0 /\ 0 \in Int
            BY <2>5
        <3>2. Paid(e, base, w, 0, y)
            BY <1>1, <2>1, <3>1, PaidMore
        <3> QED BY <1>2, <2>1, <2>5, <3>2
    <2> QED BY <1>10, <1>11, <2>4, <2>6
<1>12. ASSUME NEW t, ~({b, c} \subseteq body /\ s.met /\ c = w),
              t.met => c = w \/ ({b, c} \subseteq body /\ s.met)
       PROVE  Account(z, k, e, base, c, 0, more, t)
    <2>1. CASE c = w
        <3>1. z.pre <= more
            BY <1>5, <1>8, <2>1
        <3> QED BY <1>6, <1>10, <2>1, <3>1
    <2>2. CASE c # w
        <3>1. ASSUME t.met
              PROVE  \E x \in Int : /\ z.pre <= x /\ Paid(e, base, w, 0, x)
                                    /\ c \in DOMAIN z.q /\ x + z.q[c] + 0 <= more
            <4>1. c \in body /\ s.met
                BY <1>12, <2>2, <3>1
            <4>2. PICK x \in Int : /\ z.pre <= x /\ Paid(e, base, w, 0, x)
                                   /\ b \in DOMAIN z.q /\ x + z.q[b] + own <= net
                BY <1>9, <4>1
            <4>3. c \in DOMAIN z.q /\ z.q[c] <= z.q[b] + through /\ z.q[b] \in Int /\ z.q[c] \in Int
                BY <1>2, <1>4, <4>1, <4>2 DEF through
            <4>4. net + through <= more + own
                BY DEF through
            <4>5. x + z.q[c] + 0 <= more
                BY <1>1, <1>3, <4>2, <4>3, <4>4
            <4> QED BY <4>2, <4>3, <4>5
        <3> QED BY <1>1, <1>6, <1>8, <3>1 DEF Account, w, body
    <2> QED BY <2>1, <2>2
<1> QED BY <1>11, <1>12 DEF body, w, Turn, Within

\* The routine of call i, and what had been spent when it began; call 0 is the program.
Routine(fr, i) == IF i = 0 THEN 0 ELSE CallTarget(fr[i].call)
Began(nets, i) == IF i = 0 THEN 0 ELSE nets[i]

\* The accounts of all calls in progress.
Books(z, k, fr, nets, b, net, s) ==
    /\ nets \in Seq(Int) /\ Len(nets) = Len(fr)
    /\ \A i \in 0..Len(fr) :
          /\ i = Len(fr) => Account(z, k, Routine(fr, i), Began(nets, i), b, 0, net, s)
          /\ i < Len(fr) => Account(z, k, Routine(fr, i), Began(nets, i), fr[i + 1].call,
                                    BlockCost(fr[i + 1].call).least, nets[i + 1], fr[i + 1].stay)

LEMMA Longer ==
    ASSUME NEW S, NEW s \in Seq(S), NEW x \in S, NEW n, n = Len(s)
    PROVE  /\ Append(s, x) \in Seq(S) /\ Len(Append(s, x)) = n + 1
           /\ Append(s, x)[n + 1] = x
           /\ \A i \in 1..n : Append(s, x)[i] = s[i]
<1>1. Append(s, x) \in Seq(S)
    OBVIOUS
<1>2. Len(Append(s, x)) = n + 1
    OBVIOUS
<1>3. Append(s, x)[n + 1] = x
    OBVIOUS
<1>4. \A i \in 1..n : Append(s, x)[i] = s[i]
    OBVIOUS
<1> QED BY <1>1, <1>2, <1>3, <1>4

LEMMA Shorter ==
    ASSUME NEW S, NEW s \in Seq(S), NEW m \in Nat, Len(s) = m + 1
    PROVE  \E u \in Seq(S) : u = Front(s) /\ Len(u) = m /\ \A i \in 1..m : u[i] = s[i]
<1>1. s # <<>> /\ Len(s) - 1 = m
    OBVIOUS
<1>2. Front(s) \in Seq(S) /\ Len(Front(s)) = m /\ \A i \in 1..m : Front(s)[i] = s[i]
    BY <1>1, EndOfSeq
<1> QED BY <1>2

LEMMA BooksStep ==
    ASSUME NEW fr \in Seq(Frame), NEW z, NEW k, NEW nets, NEW b, NEW net, NEW s, Books(z, k, fr, nets, b, net, s),
           NEW c, NEW more, NEW t,
           Account(z, k, Routine(fr, Len(fr)), Began(nets, Len(fr)), c, 0, more, t)
    PROVE  Books(z, k, fr, nets, c, more, t)
BY DEF Books

LEMMA BooksCall ==
    ASSUME NEW fr \in Seq(Frame), NEW z, NEW k, NEW nets, NEW b, NEW net, NEW s, Books(z, k, fr, nets, b, net, s),
           NEW f \in Frame, NEW more \in Int, NEW c, NEW t,
           Account(z, k, Routine(fr, Len(fr)), Began(nets, Len(fr)), f.call, BlockCost(f.call).least, more, f.stay),
           Account(z, k, CallTarget(f.call), more, c, 0, more, t)
    PROVE  Books(z, k, Append(fr, f), Append(nets, more), c, more, t)
<1> DEFINE n == Len(fr)
<1>1. n \in Nat /\ nets \in Seq(Int) /\ Len(nets) = n
    BY DEF Books
<1>2. PICK g \in Seq(Frame) : /\ g = Append(fr, f) /\ Len(g) = n + 1 /\ g[n + 1] = f
                              /\ \A i \in 1..n : g[i] = fr[i]
    <2>1. /\ Append(fr, f) \in Seq(Frame) /\ Len(Append(fr, f)) = n + 1 /\ Append(fr, f)[n + 1] = f
          /\ \A i \in 1..n : Append(fr, f)[i] = fr[i]
        BY Longer
    <2> QED BY <2>1
<1>3. PICK ms \in Seq(Int) : /\ ms = Append(nets, more) /\ Len(ms) = n + 1 /\ ms[n + 1] = more
                             /\ \A i \in 1..n : ms[i] = nets[i]
    <2>1. /\ Append(nets, more) \in Seq(Int) /\ Len(Append(nets, more)) = n + 1
          /\ Append(nets, more)[n + 1] = more
          /\ \A i \in 1..n : Append(nets, more)[i] = nets[i]
        BY <1>1, Longer
    <2> QED BY <2>1
<1>4. PICK m \in Nat : m = n + 1
    BY <1>1
<1>5. /\ Len(g) = m /\ g[m] = f /\ \A i \in 1..n : g[i] = fr[i]
      /\ Len(ms) = m /\ ms[m] = more /\ \A i \in 1..n : ms[i] = nets[i]
    BY <1>2, <1>3, <1>4
<1>6. \A i \in 0..n : Routine(g, i) = Routine(fr, i) /\ Began(ms, i) = Began(nets, i)
    BY <1>1, <1>5 DEF Routine, Began
<1>7. Routine(g, m) = CallTarget(f.call) /\ Began(ms, m) = more
    BY <1>1, <1>4, <1>5 DEF Routine, Began
<1>8. ASSUME NEW i \in 0..m, i = m PROVE Account(z, k, Routine(g, i), Began(ms, i), c, 0, more, t)
    BY <1>7, <1>8
<1>9. ASSUME NEW i \in 0..m, i < m
      PROVE  Account(z, k, Routine(g, i), Began(ms, i), g[i + 1].call,
                     BlockCost(g[i + 1].call).least, ms[i + 1], g[i + 1].stay)
    <2>1. i \in 0..n /\ Routine(g, i) = Routine(fr, i) /\ Began(ms, i) = Began(nets, i)
        BY <1>1, <1>4, <1>6, <1>9
    <2>2. CASE i = n
        <3>1. g[i + 1] = f /\ ms[i + 1] = more
            BY <1>4, <1>5, <2>2
        <3> QED BY <2>1, <2>2, <3>1
    <2>3. CASE i # n
        <3>1. i < n /\ i + 1 \in 1..n
            BY <1>1, <2>1, <2>3
        <3>2. g[i + 1] = fr[i + 1] /\ ms[i + 1] = nets[i + 1]
            BY <1>5, <3>1
        <3>3. Account(z, k, Routine(fr, i), Began(nets, i), fr[i + 1].call,
                      BlockCost(fr[i + 1].call).least, nets[i + 1], fr[i + 1].stay)
            BY <2>1, <3>1 DEF Books
        <3> QED BY <2>1, <3>2, <3>3
    <2> QED BY <2>2, <2>3
<1>10. Books(z, k, g, ms, c, more, t)
    BY <1>5, <1>8, <1>9 DEF Books
<1> QED BY <1>2, <1>3, <1>10

LEMMA BooksReturn ==
    ASSUME NEW fr \in Seq(Frame), NEW z, NEW k, NEW nets, NEW b, NEW net, NEW s,
           Books(z, k, fr, nets, b, net, s),
           NEW m \in Nat, Len(fr) = m + 1, NEW c, NEW more, NEW t,
           Account(z, k, Routine(fr, m), Began(nets, m), c, 0, more, t)
    PROVE  Books(z, k, Front(fr), Front(nets), c, more, t)
<1>1. nets \in Seq(Int) /\ Len(nets) = m + 1
    BY DEF Books
<1>3. PICK g \in Seq(Frame) : g = Front(fr) /\ Len(g) = m /\ \A i \in 1..m : g[i] = fr[i]
    BY Shorter
<1>4. PICK ms \in Seq(Int) : ms = Front(nets) /\ Len(ms) = m /\ \A i \in 1..m : ms[i] = nets[i]
    BY <1>1, Shorter
<1>5. \A i \in 0..m : Routine(g, i) = Routine(fr, i) /\ Began(ms, i) = Began(nets, i)
    BY <1>3, <1>4 DEF Routine, Began
<1>6. ASSUME NEW i \in 0..m, i = m PROVE Account(z, k, Routine(g, i), Began(ms, i), c, 0, more, t)
    BY <1>5, <1>6
<1>7. ASSUME NEW i \in 0..m, i < m
      PROVE  Account(z, k, Routine(g, i), Began(ms, i), g[i + 1].call,
                     BlockCost(g[i + 1].call).least, ms[i + 1], g[i + 1].stay)
    <2>1. i + 1 \in 1..m /\ i < Len(fr) /\ i \in 0..Len(fr)
        BY <1>7
    <2>2. g[i + 1] = fr[i + 1] /\ ms[i + 1] = nets[i + 1]
        BY <1>3, <1>4, <2>1
    <2>3. Account(z, k, Routine(fr, i), Began(nets, i), fr[i + 1].call,
                  BlockCost(fr[i + 1].call).least, nets[i + 1], fr[i + 1].stay)
        BY <2>1 DEF Books
    <2> QED BY <1>5, <2>2, <2>3
<1>8. Books(z, k, g, ms, c, more, t)
    BY <1>3, <1>4, <1>6, <1>7 DEF Books
<1> QED BY <1>3, <1>4, <1>8

\* The books of the whole run, which is at b, has spent run and turned n times.
Accounted(z, k, b, run, n, s, fr) ==
    /\ n > 0 => z.pre <= run - n * z.iter
    /\ b \in DOMAIN z.d /\ z.d[b] <= run
    /\ \E nets : Books(z, k, fr, nets, b, run - n * z.iter, s)

Current(k, b, run, n, s, fr) ==
    k = watch /\ b = at /\ run = spent /\ n = laps /\ s = stay /\ fr = frames

LapsInv ==
    phase = "running" /\ Attributed =>
        \A k, b, run, n, s, fr : Current(k, b, run, n, s, fr) /\ k # Nowhere =>
            \A z : BudgetBasis(z, k.loop, k.block) => Accounted(z, k, b, run, n, s, fr)

LEMMA SameBooks ==
    ASSUME UNCHANGED <<program, identified>>, charges' = charges
    PROVE  /\ \A k : Observed(k)' <=> Observed(k)
           /\ \A z, k, b, run, n, s, fr :
                 Accounted(z, k, b, run, n, s, fr)' <=> Accounted(z, k, b, run, n, s, fr)
<1>0. UNCHANGED program
    BY DEF program
<1>1. /\ Entries' = Entries /\ Blocks' = Blocks /\ Retsubs' = Retsubs
      /\ \A b : Onward(b)' = Onward(b)
      /\ \A e : Extent(e)' = Extent(e)
      /\ \A c : CallTarget(c)' = CallTarget(c)
      /\ \A b : Through(b)' = Through(b)
      /\ \A b : BlockCost(b)' = BlockCost(b)
    BY <1>0, SameProgram, SameCosts
<1>2. \A p, e, cost : Cheap(p, e, cost)' <=> Cheap(p, e, cost)
    BY <1>1 DEF Cheap
<1>3. ASSUME NEW e, NEW base, NEW b, NEW own, NEW net
      PROVE  Paid(e, base, b, own, net)' <=> Paid(e, base, b, own, net)
    <2>1. \A p : Cheap(p, e, charges[e])' <=> Cheap(p, e, charges[e])
        BY <1>1 DEF Cheap
    <2> QED BY <1>1, <2>1 DEF Paid
<1>4. \A z, k, e, base, b, own, net, s :
          Account(z, k, e, base, b, own, net, s)' <=> Account(z, k, e, base, b, own, net, s)
    BY <1>3 DEF Account
<1>5. \A fr, i : Routine(fr, i)' = Routine(fr, i)
    BY <1>1 DEF Routine
<1>6. ASSUME NEW z, NEW k, NEW fr, NEW nets, NEW b, NEW net, NEW s
      PROVE  Books(z, k, fr, nets, b, net, s)' <=> Books(z, k, fr, nets, b, net, s)
    <2> DEFINE Here(e, i) == Account(z, k, e, Began(nets, i), b, 0, net, s)
               There(e, i, own) == Account(z, k, e, Began(nets, i), fr[i + 1].call, own, nets[i + 1], fr[i + 1].stay)
    <2>1. \A i : Account(z, k, Routine(fr, i), Began(nets, i), b, 0, net, s)'
                     <=> Account(z, k, Routine(fr, i), Began(nets, i), b, 0, net, s)
        <3> TAKE i
        <3>1. PICK e, base : e = Routine(fr, i) /\ base = Began(nets, i)
            OBVIOUS
        <3>2. Account(z, k, e, base, b, 0, net, s)' <=> Account(z, k, e, base, b, 0, net, s)
            BY <1>4
        <3>3. Routine(fr, i)' = e /\ Began(nets, i)' = base
            BY <1>5, <3>1 DEF Began
        <3>4. Account(z, k, Routine(fr, i), Began(nets, i), b, 0, net, s)' <=> Account(z, k, e, base, b, 0, net, s)'
            BY <3>3 DEF Account, Paid, Cheap
        <3> QED BY <3>1, <3>2, <3>4
    <2>2. \A i : Account(z, k, Routine(fr, i), Began(nets, i), fr[i + 1].call,
                         BlockCost(fr[i + 1].call).least, nets[i + 1], fr[i + 1].stay)'
                     <=> Account(z, k, Routine(fr, i), Began(nets, i), fr[i + 1].call,
                                 BlockCost(fr[i + 1].call).least, nets[i + 1], fr[i + 1].stay)
        <3> TAKE i
        <3>1. PICK e, base, c, own, m, t :
                  /\ e = Routine(fr, i) /\ base = Began(nets, i) /\ c = fr[i + 1].call
                  /\ own = BlockCost(c).least /\ m = nets[i + 1] /\ t = fr[i + 1].stay
            OBVIOUS
        <3>2. Account(z, k, e, base, c, own, m, t)' <=> Account(z, k, e, base, c, own, m, t)
            BY <1>4
        <3>3. Routine(fr, i)' = e /\ Began(nets, i)' = base /\ BlockCost(c).least' = own
            BY <1>1, <1>5, <3>1 DEF Began
        <3>4. Account(z, k, Routine(fr, i), Began(nets, i), fr[i + 1].call,
                      BlockCost(fr[i + 1].call).least, nets[i + 1], fr[i + 1].stay)'
                  <=> Account(z, k, e, base, c, own, m, t)'
            BY <3>1, <3>3 DEF Account, Paid, Cheap
        <3> QED BY <3>1, <3>2, <3>4
    <2> QED BY <2>1, <2>2 DEF Books
<1>7. \A z, k, b, run, n, s, fr :
          Accounted(z, k, b, run, n, s, fr)' <=> Accounted(z, k, b, run, n, s, fr)
    BY <1>6 DEF Accounted
<1>8. ASSUME NEW k PROVE Observed(k)' <=> Observed(k)
    <2>1. PICK shape : shape = k.loop.shape
        OBVIOUS
    <2>2. (Enclosed(shape)' <=> Enclosed(shape)) /\ Watchable(shape)' = Watchable(shape)
        BY SameLoops
    <2> QED BY <2>1, <2>2 DEF Observed
<1> QED BY <1>7, <1>8

\* A running machine that is observed, where each call has one routine.
Watched(k, z) ==
    /\ Ready /\ Attributed
    /\ k = watch /\ Observed(k)
    /\ BudgetBasis(z, k.loop, k.block)

LEMMA WatchedFacts ==
    ASSUME NEW k, NEW z, Watched(k, z)
    PROVE  /\ Graph /\ IdentifiedTypes /\ ChargeTypes /\ Exact(conts)
           /\ at \in Blocks /\ spent \in Nat /\ laps \in Nat /\ stay \in Stay
           /\ frames \in Seq(Frame) /\ Len(frames) \in Nat
           /\ z.iter \in Nat \ {0} /\ z.pre \in Int
           /\ \A e \in k.loop.shape.entries : e \in DOMAIN z.d /\ z.pre <= z.d[e]
           /\ \A b \in DOMAIN z.d : z.d[b] \in Int
           /\ \A b \in DOMAIN z.d : \A c \in succ[b] :
                 c \in DOMAIN z.d /\ z.d[c] <= z.d[b] + BlockCost(b).least
<1>1. Graph /\ IdentifiedTypes /\ ChargeTypes /\ at \in Blocks /\ spent \in Nat /\ frames \in Seq(Frame)
    BY ReadyFacts DEF Watched
<1>2. laps \in Nat /\ stay \in Stay
    BY DEF Watched, Ready, BudgetInv, MachineTypes
<1>3. Exact(conts)
    BY DEF Watched, Ready, BudgetInv, CostsInv, ContinuationsInv
<1>4. z.iter \in Nat \ {0}
    BY DEF Watched, BudgetBasis, Turned
<1>5. /\ z.pre \in Int
      /\ \A e \in k.loop.shape.entries : e \in DOMAIN z.d /\ z.pre <= z.d[e]
      /\ \A b \in DOMAIN z.d : z.d[b] \in Int
      /\ \A b \in DOMAIN z.d : \A c \in succ[b] :
            c \in DOMAIN z.d /\ z.d[c] <= z.d[b] + BlockCost(b).least
    BY DEF Watched, BudgetBasis, Approached
<1>6. Len(frames) \in Nat
    BY <1>1
<1> QED BY <1>1, <1>2, <1>3, <1>4, <1>5, <1>6

\* What a step of the program makes of the way to the loop.
LEMMA DistanceStep ==
    ASSUME NEW k, NEW z, Watched(k, z), at \in DOMAIN z.d, z.d[at] <= spent,
           NEW charge, Charged(at, charge), NEW run \in Nat, run = spent + charge,
           NEW c \in succ[at], NEW n \in Nat, n = laps,
           n > 0 => z.pre <= spent - n * z.iter,
           NEW more \in Int, more = run - n * z.iter
    PROVE  /\ c \in DOMAIN z.d /\ z.d[c] <= run
           /\ n > 0 => z.pre <= more
           /\ c \in k.loop.shape.entries => z.pre <= more
<1>1. /\ spent \in Nat /\ z.iter \in Nat /\ z.pre \in Int
      /\ \A b \in DOMAIN z.d : z.d[b] \in Int
      /\ c \in DOMAIN z.d /\ z.d[c] <= z.d[at] + BlockCost(at).least
    BY WatchedFacts
<1>2. charge \in Nat /\ BlockCost(at).least <= charge /\ BlockCost(at).least \in Nat
    BY WatchedFacts, ThroughFacts DEF Charged, IsCost
<1>3. c \in DOMAIN z.d /\ z.d[c] <= run
    BY <1>1, <1>2
<1>4. PICK m \in Nat : m = n * z.iter
    BY <1>1
<1>5. n > 0 => z.pre <= more
    BY <1>1, <1>2, <1>4
<1>6. c \in k.loop.shape.entries => z.pre <= more
    <2>1. CASE n > 0
        BY <1>5, <2>1
    <2>2. CASE n = 0
        <3>1. m = 0 /\ more = run
            BY <1>1, <1>4, <2>2
        <3>2. c \in k.loop.shape.entries => z.pre <= z.d[c]
            BY WatchedFacts
        <3> QED BY <1>1, <1>3, <3>1, <3>2
    <2> QED BY <2>1, <2>2
<1> QED BY <1>3, <1>5, <1>6

\* Control goes from b to c in one call: the turn, if it is one, is paid for.
LEMMA MoveAccount ==
    ASSUME NEW k, NEW z, Watched(k, z),
           NEW e, NEW base, NEW b \in Blocks, NEW own, NEW net, NEW s \in Stay,
           Account(z, k, e, base, b, own, net, s),
           NEW c \in Onward(b), own <= Through(b).least,
           NEW n \in Nat, n = laps, NEW run \in Nat, NEW more \in Int, more = run - n * z.iter,
           net + Through(b).least <= more + own,
           n > 0 => z.pre <= more,
           c \in k.loop.shape.entries => z.pre <= more,
           Move(b, c, s), NEW m, m = laps', NEW t, t = stay'
    PROVE  /\ Account(z, k, e, base, c, 0, run - m * z.iter, t)
           /\ m > 0 => z.pre <= run - m * z.iter
<1>1. /\ m = n + (IF Turn(k, b, c, s) THEN 1 ELSE 0)
      /\ t = IF Within(k, b, c)
             THEN [met |-> s.met \/ c = k.block, laps |-> s.laps + (IF Turn(k, b, c, s) THEN 1 ELSE 0)]
             ELSE [met |-> c = k.block, laps |-> 0]
    BY DEF Move, Arrived, Watched, Turn, Within
<1>2. t.met => c = k.block \/ (Within(k, b, c) /\ s.met)
    <2>1. PICK y : y = s.laps + (IF Turn(k, b, c, s) THEN 1 ELSE 0)
        OBVIOUS
    <2>2. PICK u \in BOOLEAN : u = (s.met \/ c = k.block)
        OBVIOUS
    <2>3. PICK v \in BOOLEAN : v = (c = k.block)
        OBVIOUS
    <2>4. t = IF Within(k, b, c) THEN [met |-> u, laps |-> y] ELSE [met |-> v, laps |-> 0]
        BY <1>1, <2>1, <2>2, <2>3, Zenon
    <2>5. Within(k, b, c) => t.met = u
        BY <2>4
    <2>6. ~Within(k, b, c) => t.met = v
        BY <2>4
    <2> QED BY <2>2, <2>3, <2>5, <2>6
<1>a. Graph /\ IdentifiedTypes /\ ChargeTypes /\ Exact(conts)
    BY WatchedFacts
<1>b. Attributed /\ Observed(k) /\ BudgetBasis(z, k.loop, k.block)
    BY DEF Watched
<1>3. /\ Turn(k, b, c, s) => /\ z.pre <= more - z.iter
                             /\ \A u : Account(z, k, e, base, c, 0, more - z.iter, u)
      /\ ~Turn(k, b, c, s) => \A u : (u.met => c = k.block \/ (Within(k, b, c) /\ s.met))
                                     => Account(z, k, e, base, c, 0, more, u)
    BY <1>a, <1>b, Onwards
<1>4. z.iter \in Nat
    BY WatchedFacts
<1>5. CASE Turn(k, b, c, s)
    <2>1. m = n + 1
        BY <1>1, <1>5
    <2>2. PICK i \in Nat : i = n * z.iter
        BY <1>4
    <2>3. m * z.iter = i + z.iter
        <3>1. PICK j \in Nat : j = z.iter
            BY <1>4
        <3>2. (n + 1) * j = n * j + j
            OBVIOUS
        <3> QED BY <2>1, <2>2, <3>1, <3>2
    <2>4. run - m * z.iter = more - z.iter
        BY <1>4, <2>2, <2>3
    <2> QED BY <1>3, <1>5, <2>4
<1>6. CASE ~Turn(k, b, c, s)
    <2>1. m = n
        BY <1>1, <1>6
    <2>2. run - m * z.iter = more
        BY <2>1
    <2> QED BY <1>2, <1>3, <1>6, <2>1, <2>2
<1> QED BY <1>5, <1>6

LEMMA StepAccounts ==
    ASSUME NEW k, NEW z, Watched(k, z), NEW n, n = laps,
           Accounted(z, k, at, spent, n, stay, frames), Step,
           NEW c, c = at', NEW run, run = spent', NEW m, m = laps', NEW t, t = stay'
    PROVE  Accounted(z, k, c, run, m, t, frames)
<1>1. /\ End(at) \notin {"callsub", "retsub"} /\ Execute
      /\ c \in Flow(at) /\ Move(at, c, stay)
    BY DEF Step
<1>2. /\ Graph /\ ChargeTypes /\ at \in Blocks /\ spent \in Nat /\ n \in Nat /\ stay \in Stay
      /\ z.iter \in Nat \ {0}
    BY WatchedFacts
<1>3. at \notin Callsubs /\ at \notin Retsubs /\ at \in All
    BY <1>1, <1>2, GraphFacts DEF Callsubs, Retsubs
<1>4. c \in succ[at] /\ c \in Onward(at)
    BY <1>1, <1>2, <1>3, SuccFacts, OnwardFacts
<1>5. PICK charge \in Nat : Charged(at, charge) /\ run = spent + charge
    BY <1>1, RunningFacts DEF Watched
<1>6. run \in Nat
    BY <1>2, <1>5
<1>7. /\ n > 0 => z.pre <= spent - n * z.iter
      /\ at \in DOMAIN z.d /\ z.d[at] <= spent
    BY DEF Accounted
<1>8. PICK net \in Int, more \in Int : net = spent - n * z.iter /\ more = run - n * z.iter
    BY <1>2, <1>6
<1>9. PICK nets : Books(z, k, frames, nets, at, net, stay)
    BY <1>8 DEF Accounted
<1>10. /\ c \in DOMAIN z.d /\ z.d[c] <= run
       /\ n > 0 => z.pre <= more
       /\ c \in k.loop.shape.entries => z.pre <= more
    BY <1>2, <1>4, <1>5, <1>6, <1>7, <1>8, DistanceStep
<1>11. PICK e, base : e = Routine(frames, Len(frames)) /\ base = Began(nets, Len(frames))
    OBVIOUS
<1>12. Account(z, k, e, base, at, 0, net, stay)
    <2>1. Len(frames) \in 0..Len(frames)
        BY WatchedFacts
    <2> QED BY <1>9, <1>11, <2>1 DEF Books
<1>13. 0 <= Through(at).least /\ net + Through(at).least <= more + 0
    <2>1. Through(at) = BlockCost(at) /\ BlockCost(at).least \in Nat /\ BlockCost(at).least <= charge
        BY <1>2, <1>3, <1>5, ThroughFacts DEF Charged, IsCost
    <2>2. PICK i \in Nat : i = n * z.iter
        BY <1>2
    <2> QED BY <1>2, <1>5, <1>8, <2>1, <2>2
<1>14. /\ Account(z, k, e, base, c, 0, run - m * z.iter, t)
       /\ m > 0 => z.pre <= run - m * z.iter
    BY <1>1, <1>2, <1>4, <1>6, <1>8, <1>10, <1>12, <1>13, MoveAccount
<1>15. Books(z, k, frames, nets, c, run - m * z.iter, t)
    BY <1>9, <1>11, <1>14, WatchedFacts, BooksStep
<1> QED BY <1>10, <1>14, <1>15 DEF Accounted

\* A call, or a stay, that begins at c.
LEMMA Afresh ==
    ASSUME NEW k, Observed(k), NEW z, BudgetBasis(z, k.loop, k.block),
           NEW e, NEW base \in Int, NEW c, NEW x \in Int, Paid(e, base, c, 0, x),
           c \in k.loop.shape.body => z.pre <= x,
           NEW t, t.met => c = k.block
    PROVE  Account(z, k, e, base, c, 0, x, t)
<1>1. k.block \in k.loop.shape.body
    BY WatchableFacts DEF Observed
<1>2. k.block \in DOMAIN z.q /\ z.q[k.block] <= 0 /\ z.q[k.block] \in Int
    BY DEF BudgetBasis, Turned
<1>3. ASSUME t.met
      PROVE  \E y \in Int : /\ z.pre <= y /\ Paid(e, base, k.block, 0, y)
                            /\ c \in DOMAIN z.q /\ y + z.q[c] + 0 <= x
    <2>1. c = k.block
        BY <1>3
    <2>2. z.pre <= x /\ Paid(e, base, k.block, 0, x) /\ c \in DOMAIN z.q
        BY <1>1, <1>2, <2>1
    <2>3. x + z.q[c] + 0 <= x
        BY <1>2, <2>1
    <2> QED BY <2>2, <2>3
<1>4. 0 \in Int
    OBVIOUS
<1> QED BY <1>3, <1>4 DEF Account

LEMMA AccountCall ==
    ASSUME Graph, ChargeTypes, NEW k, NEW z, BudgetBasis(z, k.loop, k.block),
           NEW e, NEW base, NEW b, NEW net, NEW s, Account(z, k, e, base, b, 0, net, s),
           NEW own \in Nat, NEW more \in Int, net + own <= more
    PROVE  Account(z, k, e, base, b, own, more, s)
<1>1. base \in Int /\ net \in Int /\ Paid(e, base, b, 0, net) /\ own \in Int /\ 0 \in Int
    BY DEF Account
<1>2. net + own <= more + 0
    BY <1>1
<1>3. Paid(e, base, b, own, more)
    BY <1>1, <1>2, PaidMore
<1>4. z.pre \in Int
    BY DEF BudgetBasis, Approached
<1>5. b \in k.loop.shape.body => z.pre <= more
    <2>1. b \in k.loop.shape.body => z.pre <= net
        BY DEF Account
    <2> QED BY <1>1, <1>4, <2>1
<1>6. ASSUME s.met
      PROVE  \E x \in Int : /\ z.pre <= x /\ Paid(e, base, k.block, 0, x)
                            /\ b \in DOMAIN z.q /\ x + z.q[b] + own <= more
    <2>1. PICK x \in Int : /\ z.pre <= x /\ Paid(e, base, k.block, 0, x)
                           /\ b \in DOMAIN z.q /\ x + z.q[b] + 0 <= net
        BY <1>6 DEF Account
    <2>2. z.q[b] \in Int
        BY <2>1 DEF BudgetBasis, Turned
    <2>3. x + z.q[b] + own <= more
        BY <1>1, <2>1, <2>2
    <2> QED BY <2>1, <2>3
<1> QED BY <1>1, <1>3, <1>5, <1>6 DEF Account

LEMMA CallAccounts ==
    ASSUME NEW k, NEW z, Watched(k, z), NEW n, n = laps,
           Accounted(z, k, at, spent, n, stay, frames), Call,
           NEW c, c = at', NEW run, run = spent', NEW m, m = laps', NEW t, t = stay',
           NEW fr, fr = frames', height' \in Int
    PROVE  Accounted(z, k, c, run, m, t, fr)
<1>1. /\ End(at) = "callsub" /\ Execute /\ c = Last1(at).to
      /\ fr = Append(frames, [call |-> at, height |-> height', spent |-> run, stay |-> stay])
      /\ t = [met |-> c = k.block, laps |-> 0] /\ m = n
    BY DEF Call, Arrived, Watched
<1>2. /\ Graph /\ IdentifiedTypes /\ ChargeTypes /\ at \in Blocks /\ spent \in Nat /\ n \in Nat /\ stay \in Stay
      /\ z.iter \in Nat \ {0} /\ frames \in Seq(Frame) /\ Len(frames) \in 0..Len(frames)
    BY WatchedFacts
<1>3. at \in Callsubs /\ c \in succ[at] /\ c = CallTarget(at) /\ c \in Entries /\ c \in Blocks
    <2>1. at \in Callsubs
        BY <1>1, <1>2 DEF Callsubs
    <2> QED BY <1>1, <1>2, <2>1, SuccFacts, EntriesAreBlocks
<1>4. PICK charge \in Nat : Charged(at, charge) /\ run = spent + charge
    BY <1>1, RunningFacts DEF Watched
<1>5. run \in Nat
    BY <1>2, <1>4
<1>6. /\ n > 0 => z.pre <= spent - n * z.iter
      /\ at \in DOMAIN z.d /\ z.d[at] <= spent
    BY DEF Accounted
<1>7a. PICK i \in Nat : i = n * z.iter
    <2>1. PICK j \in Nat : j = z.iter
        BY <1>2
    <2>2. n * j \in Nat
        BY <1>2
    <2> QED BY <2>1, <2>2
<1>7b. PICK net \in Int, more \in Int : net = spent - i /\ more = run - i
    <2>1. spent - i \in Int
        BY <1>2
    <2>2. run - i \in Int
        BY <1>5
    <2> QED BY <2>1, <2>2
<1>7. net = spent - n * z.iter /\ more = run - n * z.iter
    BY <1>7a, <1>7b
<1>8. PICK nets : Books(z, k, frames, nets, at, net, stay)
    BY <1>7 DEF Accounted
<1>9. /\ c \in DOMAIN z.d /\ z.d[c] <= run
      /\ n > 0 => z.pre <= more
      /\ c \in k.loop.shape.entries => z.pre <= more
    BY <1>2, <1>3, <1>4, <1>5, <1>6, <1>7, DistanceStep
<1>10. PICK e, base : e = Routine(frames, Len(frames)) /\ base = Began(nets, Len(frames))
    OBVIOUS
<1>11. Account(z, k, e, base, at, 0, net, stay)
    BY <1>2, <1>8, <1>10 DEF Books
<1>12. Observed(k) /\ BudgetBasis(z, k.loop, k.block)
    BY DEF Watched
<1>13. PICK own \in Nat : own = BlockCost(at).least /\ net + own <= more
    <2>1. BlockCost(at).least \in Nat /\ BlockCost(at).least <= charge
        BY <1>2, <1>4, ThroughFacts DEF Charged, IsCost
    <2>2. PICK own \in Nat : own = BlockCost(at).least /\ own <= charge
        BY <2>1
    <2>3. net + own <= more
        BY <1>2, <1>4, <1>7b, <2>2
    <2> QED BY <2>2, <2>3
<1>14. Account(z, k, e, base, at, own, more, stay)
    BY <1>2, <1>11, <1>12, <1>13, AccountCall
<1>15. Account(z, k, c, more, c, 0, more, t)
    <2>1. Paid(c, more, c, 0, more)
        <3>1. c \in Extent(c)
            BY <1>2, <1>3, ExtentFacts
        <3>2. ASSUME NEW p, Cheap(p, c, charges[c]) PROVE c \in DOMAIN p /\ more + p[c] + 0 <= more
            <4>1. c \in DOMAIN p /\ p[c] <= 0 /\ p[c] \in Int
                BY <3>2 DEF Cheap
            <4> QED BY <4>1
        <3> QED BY <3>1, <3>2 DEF Paid
    <2>2. c \in k.loop.shape.body => z.pre <= more
        <3>1. c \in Roots
            BY <1>3 DEF Roots
        <3>2. c \in k.loop.shape.body => c \in k.loop.shape.entries
            BY <1>12, <3>1 DEF Observed, Enclosed
        <3> QED BY <1>9, <3>2
    <2>3. t.met => c = k.block
        <3>1. PICK u \in BOOLEAN : u = (c = k.block)
            OBVIOUS
        <3>2. t = [met |-> u, laps |-> 0]
            BY <1>1, <3>1, Zenon
        <3>3. t.met = u
            BY <3>2
        <3> QED BY <3>1, <3>3
    <2> QED BY <1>12, <2>1, <2>2, <2>3, Afresh
<1>16. PICK f \in Frame : f.call = at /\ f.stay = stay /\ fr = Append(frames, f)
    <2>1. [call |-> at, height |-> height', spent |-> run, stay |-> stay] \in Frame
        BY <1>2, <1>3, <1>5 DEF Frame
    <2>2. PICK f \in Frame : f = [call |-> at, height |-> height', spent |-> run, stay |-> stay]
        BY <2>1
    <2>3. f.call = at /\ f.stay = stay
        BY <2>2
    <2> QED BY <1>1, <2>2, <2>3
<1>17. Books(z, k, Append(frames, f), Append(nets, more), c, more, t)
    <2>1. Account(z, k, Routine(frames, Len(frames)), Began(nets, Len(frames)), f.call, BlockCost(f.call).least, more, f.stay)
        BY <1>10, <1>13, <1>14, <1>16
    <2>2. Account(z, k, CallTarget(f.call), more, c, 0, more, t)
        BY <1>3, <1>15, <1>16
    <2> QED BY <1>2, <1>8, <2>1, <2>2, BooksCall
<1>18. \E ns : Books(z, k, fr, ns, c, run - m * z.iter, t)
    BY <1>1, <1>7, <1>16, <1>17
<1>19. m > 0 => z.pre <= run - m * z.iter
    BY <1>1, <1>7, <1>9
<1> QED BY <1>9, <1>18, <1>19 DEF Accounted

LEMMA ReturnAccounts ==
    ASSUME NEW k, NEW z, Watched(k, z), NEW n, n = laps,
           Accounted(z, k, at, spent, n, stay, frames), Return,
           NEW c, c = at', NEW run, run = spent', NEW l, l = laps', NEW t, t = stay',
           NEW fr, fr = frames'
    PROVE  Accounted(z, k, c, run, l, t, fr)
<1>1. PICK g : g = Last(frames)
    OBVIOUS
<1>2. /\ c \in Following(g.call) /\ Move(g.call, c, g.stay) /\ fr = Front(frames)
    BY <1>1 DEF Return
<1>3. /\ Graph /\ IdentifiedTypes /\ ChargeTypes /\ at \in Blocks /\ spent \in Nat /\ n \in Nat /\ stay \in Stay
      /\ z.iter \in Nat \ {0} /\ frames \in Seq(Frame)
    BY WatchedFacts
<1>4. /\ Len(frames) \in 1..Len(frames) /\ g = frames[Len(frames)] /\ g \in Frame
      /\ at \in Retsubs /\ FrameOk(g, at, Free, spent)
      /\ Following(g.call) \subseteq succ[at]
    BY <1>1, ReturnFacts DEF Watched
<1>5. PICK charge \in Nat : Charged(at, charge) /\ run = spent + charge
    BY ReturnFacts DEF Watched
<1>6. run \in Nat
    BY <1>3, <1>5
<1>7. /\ n > 0 => z.pre <= spent - n * z.iter
      /\ at \in DOMAIN z.d /\ z.d[at] <= spent
    BY DEF Accounted
<1>8a. PICK i \in Nat : i = n * z.iter
    <2>1. PICK j \in Nat : j = z.iter
        BY <1>3
    <2>2. n * j \in Nat
        BY <1>3
    <2> QED BY <2>1, <2>2
<1>8b. PICK net \in Int, more \in Int : net = spent - i /\ more = run - i
    <2>1. spent - i \in Int
        BY <1>3
    <2>2. run - i \in Int
        BY <1>6
    <2> QED BY <2>1, <2>2
<1>8. net = spent - n * z.iter /\ more = run - n * z.iter
    BY <1>8a, <1>8b
<1>9. PICK nets : Books(z, k, frames, nets, at, net, stay)
    BY <1>8 DEF Accounted
<1>10. /\ c \in DOMAIN z.d /\ z.d[c] <= run
       /\ n > 0 => z.pre <= more
       /\ c \in k.loop.shape.entries => z.pre <= more
    BY <1>2, <1>3, <1>4, <1>5, <1>6, <1>7, <1>8, DistanceStep
<1>11. PICK m \in Nat : Len(frames) = m + 1
    <2>1. PICK j \in Nat : j = Len(frames)
        BY <1>3
    <2>2. j \in 1..j
        BY <1>4, <2>1
    <2>3. j - 1 \in Nat /\ j = (j - 1) + 1
        BY <2>2
    <2> QED BY <2>1, <2>3
<1>12. PICK call \in Callsubs : call = g.call
    BY <1>4 DEF Frame
<1>13. PICK e \in Entries : e = CallTarget(call)
    BY <1>3, <1>12, SuccFacts, EntriesAreBlocks
<1>14. nets[m + 1] \in Int
    BY <1>9, <1>11 DEF Books
<1>15. PICK start \in Int : start = nets[m + 1]
    BY <1>14
<1>16. Account(z, k, e, start, at, 0, net, stay)
    <2>1. Account(z, k, Routine(frames, m + 1), Began(nets, m + 1), at, 0, net, stay)
        BY <1>9, <1>11 DEF Books
    <2>2. Routine(frames, m + 1) = e /\ Began(nets, m + 1) = start
        BY <1>4, <1>11, <1>12, <1>13, <1>15 DEF Routine, Began
    <2> QED BY <2>1, <2>2
<1>17. /\ charges[e].least \in Nat /\ e \in DOMAIN charges
       /\ start + charges[e].least <= more
    <2>1. e \in DOMAIN charges /\ Sound(e, charges[e])
        BY <1>13, ReadyFacts DEF Watched
    <2>2. PICK p : Cheap(p, e, charges[e])
        BY <2>1 DEF Sound
    <2>3. at \in Extent(e) /\ at \in DOMAIN p /\ start + p[at] + 0 <= net
        BY <1>16, <2>2 DEF Account, Paid
    <2>4. charges[e].least <= p[at] + BlockCost(at).least /\ p[at] \in Int
        BY <1>4, <2>2, <2>3 DEF Cheap
    <2>5. charges[e].least \in Nat
        BY <1>3, <2>1 DEF ChargeTypes, IsCost
    <2>6. BlockCost(at).least <= charge /\ BlockCost(at).least \in Nat
        BY <1>3, <1>5, ThroughFacts DEF Charged, IsCost
    <2>7. more = net + charge
        BY <1>3, <1>5, <1>8b
    <2> QED BY <1>8, <2>1, <2>3, <2>4, <2>5, <2>6, <2>7
<1>18. PICK own \in Nat : own = BlockCost(call).least
    BY <1>3, <1>12, EntriesAreBlocks, ThroughFacts DEF IsCost
<1>19. Through(call).least = own + charges[e].least
    BY <1>3, <1>12, <1>13, <1>17, <1>18, EntriesAreBlocks, ThroughFacts DEF Known
<1>20. own <= Through(call).least /\ start + Through(call).least <= more + own
    BY <1>17, <1>18, <1>19
<1>21. PICK o, base : o = Routine(frames, m) /\ base = Began(nets, m)
    OBVIOUS
<1>22. Account(z, k, o, base, call, own, start, g.stay)
    <2>1. /\ m \in 0..Len(frames) /\ m < Len(frames) /\ frames[m + 1] = g
        BY <1>4, <1>11
    <2>2. Account(z, k, Routine(frames, m), Began(nets, m), frames[m + 1].call,
                  BlockCost(frames[m + 1].call).least, nets[m + 1], frames[m + 1].stay)
        BY <1>9, <2>1 DEF Books
    <2> QED BY <1>12, <1>15, <1>18, <1>21, <2>1, <2>2
<1>23. c \in Onward(call)
    <2>1. Onward(g.call) = Following(g.call)
        BY <1>3, <1>4, <1>5, CallPaid DEF Watched
    <2> QED BY <1>2, <1>12, <2>1
<1>24. g.stay \in Stay /\ call \in Blocks
    BY <1>3, <1>4, <1>12, EntriesAreBlocks DEF Frame
<1>25. Move(call, c, g.stay)
    BY <1>2, <1>12
<1>26. /\ Account(z, k, o, base, c, 0, run - l * z.iter, t)
       /\ l > 0 => z.pre <= run - l * z.iter
    BY <1>3, <1>6, <1>8, <1>10, <1>20, <1>22, <1>23, <1>24, <1>25, MoveAccount
<1>27. Books(z, k, Front(frames), Front(nets), c, run - l * z.iter, t)
    BY <1>3, <1>9, <1>11, <1>21, <1>26, BooksReturn
<1> QED BY <1>2, <1>10, <1>26, <1>27 DEF Accounted

-----------------------------------------------------------------------------
(* What is observed.                                                       *)

\* The bounds reported are sound; what is observed is one of the loops reported.
Watching ==
    /\ phase \in {"analysed", "running"} /\ Attributed => \A loop \in loops : LoopSound(loop)
    /\ watch = Nowhere => laps = 0
    /\ watch # Nowhere => /\ phase = "running" /\ watch.loop \in loops
                          /\ watch.block \in Watchable(watch.loop.shape)
    /\ spent <= Credit

LEMMA ReportedLoops ==
    ASSUME CostsInv, phase # "identify", Attributed,
           NEW loop \in {Bound(shape) : shape \in NaturalLoops \union IrreducibleRegions}
    PROVE  LoopSound(loop)
<1>1. Graph /\ IdentifiedTypes /\ ChargeTypes /\ Exact(conts)
    BY DEF CostsInv, ContinuationsInv
<1>2. PICK shape \in NaturalLoops \union IrreducibleRegions : loop = Bound(shape)
    OBVIOUS
<1>3. Enclosed(shape) /\ Turns(shape)
    <2>1. CASE shape \in NaturalLoops
        BY <1>1, <2>1, NaturalFacts
    <2>2. CASE shape \in IrreducibleRegions
        BY <1>1, <2>2, RegionFacts
    <2> QED BY <1>2, <2>1, <2>2
<1>4. LoopSound(Bound(shape))
    BY <1>1, <1>3, BoundFacts
<1> QED BY <1>2, <1>4

LEMMA LoopsStay ==
    ASSUME UNCHANGED <<program, identified>>, charges' = charges,
           NEW S, \A loop \in S : LoopSound(loop), loops' = S
    PROVE  \A loop \in loops' : LoopSound(loop)'
BY SameLoops

LEMMA ObservedFacts ==
    ASSUME Watching, Attributed, watch # Nowhere, NEW k, k = watch
    PROVE  /\ Observed(k) /\ LoopSound(k.loop)
           /\ PlainlyEntered(k.loop.shape) => \E z : BudgetBasis(z, k.loop, k.block)
           /\ k.loop.stack # None => \E z : StackBasis(z, k.loop, k.block)
<1>1. LoopSound(k.loop) /\ k.block \in Watchable(k.loop.shape)
    BY DEF Watching
<1> QED BY <1>1 DEF LoopSound, Observed

LEMMA WatchingStarts == Init => Watching
<1> SUFFICES ASSUME Init PROVE Watching
    OBVIOUS
<1>1. phase = "identify" /\ watch = Nowhere /\ laps = 0 /\ spent = 0
    BY DEF Init, InitAnalysis, InitMachine, InitIdentify
<1> QED BY <1>1, CeilingsAreNat DEF Watching

LEMMA AnalysisWatching ==
    ASSUME BudgetInv, Watching, Analysis, UNCHANGED <<machine, watcher>>
    PROVE  Watching' /\ phase' # "running"
<1>1. watch' = watch /\ laps' = laps /\ spent' = spent
    BY DEF machine, watcher
<1>2. phase \in {"identify", "identified"} /\ phase' # "running"
    BY DEF Analysis, Refine, Ask, Summarise, Analyse
<1>3. watch = Nowhere /\ Nowhere' = Nowhere
    BY <1>2 DEF Watching, Nowhere, None, Shape
<1>4. phase' \in {"analysed", "running"} /\ Attributed' => \A loop \in loops' : LoopSound(loop)'
    <2>1. CASE phase' \in {"identify", "identified"}
        BY <2>1
    <2>2. CASE phase' = "analysed"
        <3>1. Analyse
            BY <1>2, <2>2, RefineFacts DEF Analysis, Ask, Summarise
        <3>2. /\ UNCHANGED <<program, identified, costing>> /\ UNCHANGED program /\ charges' = charges
              /\ phase = "identified"
              /\ loops' = {Bound(shape) : shape \in NaturalLoops \union IrreducibleRegions}
            BY <3>1 DEF Analyse, costing
        <3>3. SUFFICES ASSUME Attributed PROVE \A loop \in loops' : LoopSound(loop)'
            BY <3>2, SameProgram
        <3>4. PICK S : S = {Bound(shape) : shape \in NaturalLoops \union IrreducibleRegions}
            OBVIOUS
        <3>5. \A loop \in S : LoopSound(loop)
            BY <3>2, <3>3, <3>4, ReportedLoops DEF BudgetInv
        <3> QED BY <3>2, <3>4, <3>5, LoopsStay
    <2> QED BY <1>2, <2>1, <2>2, RefineFacts DEF Analysis, Ask, Summarise, Analyse
<1> QED BY <1>1, <1>2, <1>3, <1>4 DEF Watching

\* What happens after the analysis keeps the reports.
LEMMA WatchingStays ==
    ASSUME Watching, UNCHANGED <<program, identified, costing, reports>>,
           phase \in {"analysed", "running"}, phase' = "running", spent' <= Credit,
           watch' = Nowhere => laps' = 0,
           watch' # Nowhere => /\ watch'.loop \in loops
                               /\ watch'.block \in Watchable(watch'.loop.shape)
    PROVE  Watching'
<1>1. /\ UNCHANGED program /\ charges' = charges /\ loops' = loops
      /\ UNCHANGED <<program, identified>>
    BY DEF costing, reports
<1>2. Attributed' => \A loop \in loops' : LoopSound(loop)'
    <2>1. SUFFICES ASSUME Attributed PROVE \A loop \in loops' : LoopSound(loop)'
        BY <1>1, SameProgram
    <2>2. PICK S : S = loops
        OBVIOUS
    <2>3. \A loop \in S : LoopSound(loop)
        BY <2>1, <2>2 DEF Watching
    <2> QED BY <1>1, <2>2, <2>3, LoopsStay
<1>3. Nowhere' = Nowhere
    BY DEF Nowhere, None, Shape
<1>4. watch' # Nowhere => watch'.block \in Watchable(watch.loop.shape)'
    BY DEF Watchable
<1> QED BY <1>1, <1>2, <1>3, <1>4 DEF Watching

-----------------------------------------------------------------------------
(* The run begins.                                                         *)

LEMMA FirstAccounts ==
    ASSUME BudgetInv, phase = "analysed", NEW k, Observed(k), NEW z, BudgetBasis(z, k.loop, k.block),
           NEW t, t.met => 1 = k.block
    PROVE  Accounted(z, k, 1, 0, 0, t, <<>>)
<1>1. Graph /\ IdentifiedTypes /\ ChargeTypes
    BY DEF BudgetInv, CostsInv, ContinuationsInv
<1>2. 0 \notin Entries /\ 1 \in Roots
    <2>1. \A b \in Entries : b \in 1..Len(prog)
        BY <1>1, GraphFacts, EntriesAreBlocks DEF All
    <2> QED BY <1>1, <2>1, FlowGraphFacts
<1>3. /\ 1 \in DOMAIN z.d /\ z.d[1] <= 0 /\ z.d[1] \in Int /\ z.pre \in Int
      /\ \A e \in k.loop.shape.entries : z.pre <= z.d[e]
    BY DEF BudgetBasis, Approached
<1>4. 1 \in k.loop.shape.body => z.pre <= 0
    <2>1. 1 \in k.loop.shape.body => 1 \in k.loop.shape.entries
        BY <1>2 DEF Observed, Enclosed
    <2> QED BY <1>3, <2>1
<1>5. Paid(0, 0, 1, 0, 0)
    BY <1>2 DEF Paid
<1>6. Account(z, k, 0, 0, 1, 0, 0, t)
    <2>1. 0 \in Int
        OBVIOUS
    <2> QED BY <1>4, <1>5, <2>1, Afresh
<1>7. Books(z, k, <<>>, <<>>, 1, 0, t)
    <2>1. /\ <<>> \in Seq(Int) /\ Len(<<>>) = 0
          /\ Routine(<<>>, 0) = 0 /\ Began(<<>>, 0) = 0
        BY DEF Routine, Began
    <2> QED BY <1>6, <2>1 DEF Books
<1>8. 0 - 0 * z.iter = 0
    BY DEF BudgetBasis, Turned
<1> QED BY <1>3, <1>7, <1>8 DEF Accounted

-----------------------------------------------------------------------------
(* The books are kept.                                                     *)

LEMMA WatchFacts ==
    ASSUME Watch
    PROVE  /\ phase = "analysed" /\ phase' = "running"
           /\ UNCHANGED <<program, identified, costing, reports>>
           /\ UNCHANGED <<program, identified>> /\ UNCHANGED program /\ charges' = charges
           /\ at' = at /\ height' = height /\ spent' = spent /\ frames' = frames /\ laps' = laps
           /\ stay' = [met |-> at = watch'.block, laps |-> 0]
           /\ watch' # Nowhere => /\ watch'.loop \in loops
                                  /\ watch'.block \in Watchable(watch'.loop.shape)
<1>1. /\ phase = "analysed" /\ phase' = "running"
      /\ UNCHANGED <<program, identified, costing, reports>>
      /\ at' = at /\ height' = height /\ spent' = spent /\ frames' = frames /\ laps' = laps
      /\ stay' = [met |-> at = watch'.block, laps |-> 0]
    BY DEF Watch, machine
<1>2. charges' = charges
    BY <1>1 DEF costing
<1>3. ASSUME watch' # Nowhere
      PROVE  watch'.loop \in loops /\ watch'.block \in Watchable(watch'.loop.shape)
    <2>1. PICK loop \in loops :
              watch' \in [loop : {loop}, block : IF loop.shape.kind = "reducible" THEN loop.shape.entries
                                                 ELSE loop.shape.body]
        BY <1>3 DEF Watch
    <2>2. watch'.loop = loop /\ watch'.block \in Watchable(loop.shape)
        BY <2>1 DEF Watchable
    <2> QED BY <2>2
<1> QED BY <1>1, <1>2, <1>3

\* The books in terms of what the variables become.
LEMMA NextBooks ==
    ASSUME UNCHANGED <<program, identified>>, charges' = charges,
           NEW k, k = watch', NEW b, b = at', NEW run, run = spent', NEW n, n = laps',
           NEW s, s = stay', NEW fr, fr = frames',
           Attributed /\ k # Nowhere =>
               \A z : BudgetBasis(z, k.loop, k.block) => Accounted(z, k, b, run, n, s, fr)
    PROVE  LapsInv'
<1> SUFFICES ASSUME Attributed',
                    NEW x, NEW c, NEW r, NEW m, NEW t, NEW f, Current(x, c, r, m, t, f)', x # Nowhere',
                    NEW z, BudgetBasis(z, x.loop, x.block)'
             PROVE  Accounted(z, x, c, r, m, t, f)'
    BY DEF LapsInv
<1>1. x = k /\ c = b /\ r = run /\ m = n /\ t = s /\ f = fr
    BY DEF Current
<1>2. Attributed /\ Nowhere' = Nowhere
    BY SameProgram DEF Nowhere, None, Shape
<1>3. PICK loop, w : loop = x.loop /\ w = x.block
    OBVIOUS
<1>4. BudgetBasis(z, loop, w)
    <2>1. BudgetBasis(z, loop, w)'
        BY <1>3
    <2> QED BY <2>1, SameLoops
<1>5. Accounted(z, x, c, r, m, t, f)
    BY <1>1, <1>2, <1>3, <1>4
<1> QED BY <1>5, SameBooks

LEMMA BooksBegin ==
    ASSUME BudgetInv, Watching, Watch
    PROVE  LapsInv'
<1>1. /\ phase = "analysed" /\ UNCHANGED <<program, identified>> /\ UNCHANGED program /\ charges' = charges
      /\ at' = at /\ spent' = spent /\ frames' = frames /\ laps' = laps
      /\ stay' = [met |-> at = watch'.block, laps |-> 0]
      /\ watch' # Nowhere => watch'.loop \in loops /\ watch'.block \in Watchable(watch'.loop.shape)
    BY WatchFacts
<1>2. at' = 1 /\ spent' = 0 /\ frames' = <<>> /\ laps' = 0
    BY <1>1 DEF BudgetInv, IdleInv
<1>3. PICK k : k = watch'
    OBVIOUS
<1>4. PICK t : t = stay'
    OBVIOUS
<1>5. t.met => 1 = k.block
    <2>1. PICK u \in BOOLEAN : u = (at = k.block)
        OBVIOUS
    <2>2. t = [met |-> u, laps |-> 0]
        BY <1>1, <1>3, <1>4, <2>1, Zenon
    <2>3. t.met = u
        BY <2>2
    <2> QED BY <1>1, <1>2, <2>1, <2>3
<1>6. ASSUME Attributed, k # Nowhere, NEW z, BudgetBasis(z, k.loop, k.block)
      PROVE  Accounted(z, k, 1, 0, 0, t, <<>>)
    <2>1. LoopSound(k.loop) /\ k.block \in Watchable(k.loop.shape)
        BY <1>1, <1>3, <1>6 DEF Watching
    <2>2. Observed(k)
        BY <2>1 DEF LoopSound, Observed
    <2> QED BY <1>1, <1>5, <1>6, <2>2, FirstAccounts
<1> QED BY <1>1, <1>2, <1>3, <1>4, <1>6, NextBooks

LEMMA BooksGoOn ==
    ASSUME Ready, Watching, LapsInv, BudgetInv', Operate
    PROVE  LapsInv'
<1>1. /\ UNCHANGED <<program, identified>> /\ UNCHANGED program /\ charges' = charges
      /\ Step \/ Call \/ Return
    BY DEF Operate, costing
<1>2. watch' = watch
    BY <1>1 DEF Step, Call, Return, Move
<1>3. PICK k : k = watch
    OBVIOUS
<1>4. PICK c, run, m, t, fr : c = at' /\ run = spent' /\ m = laps' /\ t = stay' /\ fr = frames'
    OBVIOUS
<1>5. ASSUME Attributed, k # Nowhere, NEW z, BudgetBasis(z, k.loop, k.block)
      PROVE  Accounted(z, k, c, run, m, t, fr)
    <2>1. Watched(k, z)
        BY <1>3, <1>5, ObservedFacts DEF Watched
    <2>2. PICK n : n = laps
        OBVIOUS
    <2>3. Accounted(z, k, at, spent, n, stay, frames)
        <3>1. PICK b, r, s, f : b = at /\ r = spent /\ s = stay /\ f = frames
            OBVIOUS
        <3>2. Current(k, b, r, n, s, f)
            BY <1>3, <2>2, <3>1 DEF Current
        <3>3. Accounted(z, k, b, r, n, s, f)
            BY <1>5, <3>2 DEF LapsInv, Ready
        <3> QED BY <3>1, <3>3
    <2>4. CASE Step
        <3>1. fr = frames
            BY <1>4, <2>4 DEF Step
        <3>2. Accounted(z, k, c, run, m, t, frames)
            BY <1>4, <2>1, <2>2, <2>3, <2>4, StepAccounts
        <3> QED BY <3>1, <3>2
    <2>5. CASE Call
        <3>1. height' \in Int
            BY DEF BudgetInv, MachineTypes
        <3> QED BY <1>4, <2>1, <2>2, <2>3, <2>5, <3>1, CallAccounts
    <2>6. CASE Return
        BY <1>4, <2>1, <2>2, <2>3, <2>6, ReturnAccounts
    <2> QED BY <1>1, <2>4, <2>5, <2>6
<1> QED BY <1>1, <1>2, <1>3, <1>4, <1>5, NextBooks

LEMMA BooksStay ==
    ASSUME LapsInv, UNCHANGED vars
    PROVE  LapsInv'
<1>1. /\ UNCHANGED <<program, identified>> /\ UNCHANGED program /\ charges' = charges /\ phase' = phase
      /\ watch' = watch /\ at' = at /\ spent' = spent /\ laps' = laps /\ stay' = stay /\ frames' = frames
    BY DEF vars, machine, watcher, costing
<1>2. CASE phase # "running"
    BY <1>1, <1>2 DEF LapsInv
<1>3. CASE phase = "running"
    <2>1. PICK k, b, run, n, s, fr : Current(k, b, run, n, s, fr)
        BY DEF Current
    <2>2. /\ k = watch' /\ b = at' /\ run = spent' /\ n = laps' /\ s = stay' /\ fr = frames'
        BY <1>1, <2>1 DEF Current
    <2>3. Attributed /\ k # Nowhere =>
              \A z : BudgetBasis(z, k.loop, k.block) => Accounted(z, k, b, run, n, s, fr)
        BY <1>3, <2>1 DEF LapsInv
    <2> QED BY <1>1, <2>2, <2>3, NextBooks
<1> QED BY <1>2, <1>3

-----------------------------------------------------------------------------
(* What a stay in the loop adds to the stack.                              *)

\* A call finds its arguments on the stack.
Served(f) == Proto(CallTarget(f.call)) # <<>> => Proto(CallTarget(f.call))[1] <= f.height

HeightInv ==
    phase = "running" => /\ height \in Nat
                         /\ \A i \in 1..Len(frames) : \A f : f = frames[i] => Served(f)

\* A stay that has met the block has come to it as high as its turns make it.
Climbed(z, k, b, up, s) ==
    /\ s.laps * z.gain <= MaxStack
    /\ ~s.met => s.laps = 0
    /\ s.met => \E x \in Int : /\ s.laps * z.gain <= x
                               /\ b \in DOMAIN z.h /\ x + z.h[b] <= up

ClimbInv ==
    phase = "running" /\ Attributed =>
        \A k, b, up, s : k = watch /\ b = at /\ up = height /\ s = stay /\ k # Nowhere =>
            \A z : StackBasis(z, k.loop, k.block) => Climbed(z, k, b, up, s)

LEMMA ProtoFacts ==
    ASSUME IsProgram(prog), NEW b \in All, Proto(b) # <<>>
    PROVE  Proto(b)[1] \in Int /\ Proto(b)[2] \in Nat
<1>1. 1 \in 1..Len(prog[b]) /\ prog[b][1] \in Op
    BY ProgramFacts
<1>2. Head(prog[b]) = prog[b][1]
    OBVIOUS
<1>3. Head(prog[b]).imm \in Int /\ Head(prog[b]).rets \in Nat
    BY <1>1, <1>2 DEF Op
<1> QED BY <1>3 DEF Proto

\* A stay that begins.
LEMMA ClimbFresh ==
    ASSUME NEW k, NEW z, StackBasis(z, k.loop, k.block), NEW c, NEW up \in Nat,
           NEW t, t = [met |-> c = k.block, laps |-> 0]
    PROVE  Climbed(z, k, c, up, t)
<1>1. PICK u \in BOOLEAN : u = (c = k.block)
    OBVIOUS
<1>2. t = [met |-> u, laps |-> 0]
    BY <1>1, Zenon
<1>3. t.met = u /\ t.laps = 0
    BY <1>2
<1>4. /\ z.gain \in Nat /\ k.block \in DOMAIN z.h /\ z.h[k.block] <= 0
      /\ z.h[k.block] \in Int
    BY DEF StackBasis, Raised
<1>5. MaxStack \in Nat /\ 0 * z.gain = 0
    BY <1>4, CeilingsAreNat
<1>6. ASSUME t.met PROVE c \in DOMAIN z.h /\ 0 + z.h[c] <= up
    <2>1. c = k.block
        BY <1>1, <1>3, <1>6
    <2>2. PICK hc \in Int : hc = z.h[c] /\ hc <= 0 /\ c \in DOMAIN z.h
        BY <1>4, <2>1
    <2>3. 0 + hc <= up
        BY <2>2
    <2> QED BY <2>2, <2>3
<1> QED BY <1>3, <1>5, <1>6 DEF Climbed

\* Control goes on inside the routine.
LEMMA ClimbStep ==
    ASSUME NEW k, k = watch, NEW z, StackBasis(z, k.loop, k.block),
           NEW b \in Blocks, NEW up \in Nat, NEW s \in Stay, Climbed(z, k, b, up, s),
           NEW c \in RoutineFlow(b), NEW more \in Nat, more = up + Delta(b), Delta(b) \in Int, more <= MaxStack,
           Move(b, c, s), NEW t, t = stay'
    PROVE  Climbed(z, k, c, more, t)
<1> DEFINE turn == IF Turn(k, b, c, s) THEN 1 ELSE 0
<1>1. t = IF Within(k, b, c) THEN [met |-> s.met \/ c = k.block, laps |-> s.laps + turn]
          ELSE [met |-> c = k.block, laps |-> 0]
    BY DEF Move, Arrived, Turn, Within
<1>2. /\ z.gain \in Nat \ {0} /\ k.block \in DOMAIN z.h /\ z.h[k.block] <= 0
      /\ \A x \in DOMAIN z.h : z.h[x] \in Int
      /\ \A x \in DOMAIN z.h : \A y \in RoutineFlow(x) \cap k.loop.shape.body :
             y \in DOMAIN z.h /\ z.h[y] <= z.h[x] + Delta(x)
      /\ \A x \in DOMAIN z.h : k.block \in RoutineFlow(x) => z.gain <= z.h[x] + Delta(x)
    BY DEF StackBasis, Raised
<1>3. s.met \in BOOLEAN /\ s.laps \in Nat
    BY DEF Stay
<1>4. CASE ~Within(k, b, c)
    BY <1>1, <1>4, ClimbFresh
<1>5. CASE Within(k, b, c)
    <2>1. PICK u \in BOOLEAN : u = (s.met \/ c = k.block)
        OBVIOUS
    <2>2. PICK y \in Nat : y = s.laps + turn
        BY <1>3
    <2>3. t = [met |-> u, laps |-> y]
        BY <1>1, <1>5, <2>1, <2>2, Zenon
    <2>4. t.met = u /\ t.laps = y
        BY <2>3
    <2>5. c \in k.loop.shape.body
        BY <1>5 DEF Within
    <2>6. CASE ~s.met
        <3>1. s.laps = 0
            BY <2>6 DEF Climbed
        <3>2. ~Turn(k, b, c, s)
            BY <2>6 DEF Turn
        <3>3. y = 0
            BY <2>2, <3>1, <3>2
        <3>4. PICK v \in BOOLEAN : v = (c = k.block)
            OBVIOUS
        <3>5. u = v
            BY <2>1, <2>6, <3>4
        <3>6. t = [met |-> c = k.block, laps |-> 0]
            BY <2>3, <3>3, <3>4, <3>5, Zenon
        <3> QED BY <3>6, ClimbFresh
    <2>7. CASE s.met
        <3>1. PICK x \in Int : s.laps * z.gain <= x /\ b \in DOMAIN z.h /\ x + z.h[b] <= up
            BY <2>7 DEF Climbed
        <3>2. PICK g \in Nat, d \in Int, hb \in Int : g = z.gain /\ d = Delta(b) /\ hb = z.h[b]
            BY <1>2, <3>1
        <3>3. PICK l \in Nat, i \in Nat : l = s.laps /\ i = l * g /\ i <= x
            <4>1. PICK l \in Nat : l = s.laps
                BY <1>3
            <4>2. l * g \in Nat
                OBVIOUS
            <4> QED BY <3>1, <3>2, <4>1, <4>2
        <3>4. x + hb <= up /\ more = up + d
            BY <3>1, <3>2
        <3>5. u
            BY <2>1, <2>7
        <3>6. CASE c = k.block
            <4>1. Turn(k, b, c, s)
                BY <1>5, <2>7, <3>6 DEF Turn
            <4>2. y = l + 1
                BY <2>2, <3>3, <4>1
            <4>3. y * g = i + g
                <5>1. (l + 1) * g = l * g + g
                    OBVIOUS
                <5> QED BY <3>3, <4>2, <5>1
            <4>4. g <= hb + d
                BY <1>2, <3>1, <3>2, <3>6
            <4>5. i + g <= more
                BY <3>3, <3>4, <4>4
            <4>6. PICK hc \in Int : hc = z.h[c] /\ hc <= 0 /\ c \in DOMAIN z.h
                BY <1>2, <3>6
            <4>7. more + hc <= more
                BY <4>6
            <4>8. t.laps * z.gain <= more
                BY <2>4, <3>2, <4>3, <4>5
            <4>9. t.laps * z.gain <= MaxStack
                <5>1. PICK j \in Nat : j = t.laps * z.gain
                    BY <2>4, <3>2, <4>3
                <5> QED BY <4>8, <5>1, CeilingsAreNat
            <4> QED BY <2>4, <3>5, <4>6, <4>7, <4>8, <4>9 DEF Climbed
        <3>7. CASE c # k.block
            <4>1. ~Turn(k, b, c, s)
                BY <3>7 DEF Turn
            <4>2. y = l
                BY <2>2, <3>3, <4>1
            <4>3. PICK hc \in Int : hc = z.h[c] /\ hc <= hb + d /\ c \in DOMAIN z.h
                BY <1>2, <2>5, <3>1, <3>2
            <4>4. x + hc <= more
                BY <3>4, <4>3
            <4>5. t.laps * z.gain = s.laps * z.gain
                BY <2>4, <3>3, <4>2
            <4>6. s.laps * z.gain <= MaxStack
                BY DEF Climbed
            <4> QED BY <2>4, <3>1, <3>5, <4>3, <4>4, <4>5, <4>6 DEF Climbed
        <3> QED BY <3>6, <3>7
    <2> QED BY <1>3, <2>6, <2>7
<1> QED BY <1>4, <1>5

\* What the machine makes of the height.
LEMMA AscentFacts ==
    ASSUME Ready, HeightInv, Execute
    PROVE  /\ HeightAfter(at) = height + Delta(at) /\ Delta(at) \in Int
           /\ HeightAfter(at) \in Nat /\ HeightAfter(at) <= MaxStack
<1>1. IsProgram(prog) /\ at \in All /\ HeightAfter(at) # -1
    BY ReadyFacts, RunningFacts
<1>2. height \in Nat
    BY DEF HeightInv, Ready
<1> QED BY <1>1, <1>2, DeltaFacts

LEMMA SameServed ==
    ASSUME UNCHANGED program
    PROVE  \A f : Served(f)' <=> Served(f)
<1>1. prog' = prog
    BY DEF program
<1>2. \A c : Proto(CallTarget(c))' = Proto(CallTarget(c))
    <2> TAKE c
    <2>1. PICK e : e = CallTarget(c)
        OBVIOUS
    <2>2. CallTarget(c)' = e
        BY <2>1, SameProgram
    <2>3. Proto(e)' = Proto(e)
        BY <1>1, SameText
    <2>4. Proto(CallTarget(c))' = Proto(e)'
        BY <2>2 DEF Proto
    <2> QED BY <2>1, <2>3, <2>4
<1> QED BY <1>2 DEF Served

LEMMA HeightsGoOn ==
    ASSUME Ready, HeightInv, Operate
    PROVE  HeightInv'
<1>1. /\ UNCHANGED program /\ Execute /\ (Step \/ Call \/ Return)
    BY DEF Operate, Step, Call, Return
<1>2. HeightAfter(at) \in Nat
    BY <1>1, AscentFacts
<1>3. Graph /\ at \in Blocks /\ frames \in Seq(Frame) /\ IsProgram(prog) /\ Blocks \subseteq All
    BY ReadyFacts
<1>4. \A i \in 1..Len(frames) : Served(frames[i])
    BY DEF HeightInv, Ready
<1>5. \A f : Served(f)' <=> Served(f)
    BY <1>1, SameServed
<1>6. SUFFICES ASSUME NEW fr, fr = frames'
               PROVE  height' \in Nat /\ \A i \in 1..Len(fr) : Served(fr[i])
    BY <1>5 DEF HeightInv
<1>7. CASE Step
    <2>1. height' = HeightAfter(at) /\ fr = frames
        BY <1>6, <1>7 DEF Step
    <2> QED BY <1>2, <1>4, <2>1
<1>8. CASE Call
    <2>1. /\ height' = HeightAfter(at) /\ at' = Last1(at).to /\ End(at) = "callsub"
          /\ Proto(at') # <<>> => height' >= Proto(at')[1]
          /\ fr = Append(frames, [call |-> at, height |-> height', spent |-> spent', stay |-> stay])
        BY <1>6, <1>8 DEF Call
    <2>2. PICK f : f = [call |-> at, height |-> height', spent |-> spent', stay |-> stay]
        OBVIOUS
    <2>3. f.call = at /\ f.height = height'
        BY <2>2
    <2>4. at \in Callsubs
        BY <1>3, <2>1 DEF Callsubs
    <2>5. PICK e \in All : e = CallTarget(at) /\ e = Last1(at).to
        BY <1>3, <2>4, SuccFacts, EntriesAreBlocks
    <2>6. Served(f)
        <3>1. Proto(e) # <<>> => height' >= Proto(e)[1]
            BY <2>1, <2>5 DEF Proto
        <3>2. Proto(e) # <<>> => Proto(e)[1] \in Int
            BY <1>3, ProtoFacts
        <3>3. PICK up \in Nat : up = height'
            BY <1>2, <2>1
        <3>4. Proto(e) # <<>> => Proto(e)[1] <= up
            BY <3>1, <3>2, <3>3
        <3> QED BY <2>3, <2>5, <3>3, <3>4 DEF Served
    <2>7. PICK n \in Nat : n = Len(frames)
        BY <1>3
    <2>8. f \in Frame
        <3>1. stay \in Stay /\ spent' \in Nat
            BY <1>1, RunningFacts DEF Ready, BudgetInv, MachineTypes
        <3> QED BY <1>2, <2>1, <2>2, <2>4, <3>1 DEF Frame
    <2>9. /\ Len(fr) = n + 1 /\ fr[n + 1] = f
          /\ \A i \in 1..n : fr[i] = frames[i]
        BY <1>3, <2>1, <2>2, <2>7, <2>8, Longer
    <2>10. ASSUME NEW i \in 1..Len(fr) PROVE Served(fr[i])
        <3>1. i \in 1..n \/ i = n + 1
            BY <2>9
        <3> QED BY <1>4, <2>6, <2>7, <2>9, <3>1
    <2> QED BY <1>2, <2>1, <2>10
<1>9. CASE Return
    <2>1. PICK g : g = Last(frames)
        OBVIOUS
    <2>2. PICK call, proto : call = g.call /\ proto = Proto(Last1(call).to)
        OBVIOUS
    <2>3. /\ height' = IF proto = <<>> THEN HeightAfter(at) ELSE g.height - proto[1] + proto[2]
          /\ fr = Front(frames)
        BY <1>6, <1>9, <2>1, <2>2 DEF Return
    <2>4. PICK m \in Nat : /\ Len(frames) = m + 1 /\ g = frames[m + 1] /\ g \in Frame
                           /\ Len(Front(frames)) = m /\ \A i \in 1..m : Front(frames)[i] = frames[i]
        <3>1. /\ Len(frames) \in 1..Len(frames) /\ g = frames[Len(frames)] /\ g \in Frame
              /\ Len(Front(frames)) = Len(frames) - 1
              /\ \A i \in 1..(Len(frames) - 1) : Front(frames)[i] = frames[i]
            BY <1>9, <2>1, ReturnFacts
        <3>2. PICK j \in Nat : j = Len(frames)
            BY <1>3
        <3>3. PICK m \in Nat : m = j - 1 /\ j = m + 1
            BY <3>1, <3>2
        <3> QED BY <3>1, <3>2, <3>3
    <2>5. \A i \in 1..Len(fr) : Served(fr[i])
        BY <1>4, <2>3, <2>4
    <2>6. Served(g)
        BY <1>4, <2>4
    <2>7. PICK e \in All : e = CallTarget(call) /\ e = Last1(call).to
        BY <1>3, <2>2, <2>4, SuccFacts, EntriesAreBlocks DEF Frame
    <2>8. height' \in Nat
        <3>1. CASE proto = <<>>
            BY <1>2, <2>3, <3>1
        <3>2. CASE proto # <<>>
            <4>1. proto = Proto(e)
                BY <2>2, <2>7
            <4>2. PICK args \in Int, rets \in Nat : args = proto[1] /\ rets = proto[2]
                BY <1>3, <3>2, <4>1, ProtoFacts
            <4>3. PICK tall \in Int : tall = g.height
                BY <2>4 DEF Frame
            <4>4. args <= tall
                BY <2>2, <2>6, <2>7, <3>2, <4>1, <4>2, <4>3 DEF Served
            <4>5. height' = tall - args + rets
                BY <2>3, <3>2, <4>2, <4>3
            <4> QED BY <4>4, <4>5
        <3> QED BY <3>1, <3>2
    <2> QED BY <2>5, <2>8
<1> QED BY <1>1, <1>7, <1>8, <1>9

\* The climb in terms of what the variables become.
LEMMA NextClimb ==
    ASSUME UNCHANGED <<program, identified>>, charges' = charges,
           NEW k, k = watch', NEW b, b = at', NEW up, up = height', NEW s, s = stay',
           Attributed /\ k # Nowhere =>
               \A z : StackBasis(z, k.loop, k.block) => Climbed(z, k, b, up, s)
    PROVE  ClimbInv'
<1> SUFFICES ASSUME Attributed',
                    NEW x, NEW c, NEW h, NEW t, x = watch', c = at', h = height', t = stay', x # Nowhere',
                    NEW z, StackBasis(z, x.loop, x.block)'
             PROVE  Climbed(z, x, c, h, t)'
    BY DEF ClimbInv
<1>1. Attributed /\ Nowhere' = Nowhere
    BY SameProgram DEF Nowhere, None, Shape, program
<1>2. PICK loop, w : loop = x.loop /\ w = x.block
    OBVIOUS
<1>3. StackBasis(z, loop, w)
    <2>1. StackBasis(z, loop, w)'
        BY <1>2
    <2> QED BY <2>1, SameLoops
<1>4. Climbed(z, x, c, h, t)
    BY <1>1, <1>2, <1>3
<1> QED BY <1>4 DEF Climbed

LEMMA ClimbBegins ==
    ASSUME BudgetInv, Watch
    PROVE  HeightInv' /\ ClimbInv'
<1>1. /\ phase = "analysed" /\ UNCHANGED <<program, identified>> /\ charges' = charges
      /\ at' = at /\ height' = height /\ frames' = frames
      /\ stay' = [met |-> at = watch'.block, laps |-> 0]
    BY WatchFacts
<1>2. height' = 0 /\ frames' = <<>>
    BY <1>1 DEF BudgetInv, IdleInv
<1>3. HeightInv'
    BY <1>2 DEF HeightInv
<1>4. PICK k, b, up, t : k = watch' /\ b = at' /\ up = height' /\ t = stay'
    OBVIOUS
<1>5. t = [met |-> b = k.block, laps |-> 0]
    BY <1>1, <1>4
<1>6. \A z : StackBasis(z, k.loop, k.block) => Climbed(z, k, b, up, t)
    <2>1. up \in Nat
        BY <1>2, <1>4
    <2> QED BY <1>5, <2>1, ClimbFresh
<1> QED BY <1>1, <1>3, <1>4, <1>6, NextClimb

LEMMA ClimbGoesOn ==
    ASSUME Ready, Watching, HeightInv, HeightInv', ClimbInv, Operate
    PROVE  ClimbInv'
<1>1. /\ UNCHANGED <<program, identified>> /\ charges' = charges /\ phase' = "running"
      /\ Step \/ Call \/ Return
    BY DEF Operate, costing
<1>2. watch' = watch /\ Execute
    BY <1>1 DEF Step, Call, Return, Move
<1>3. PICK k : k = watch
    OBVIOUS
<1>4. PICK c, more, t : c = at' /\ more = height' /\ t = stay'
    OBVIOUS
<1>5. more \in Nat
    BY <1>1, <1>4 DEF HeightInv
<1>6. ASSUME Attributed, k # Nowhere, NEW z, StackBasis(z, k.loop, k.block)
      PROVE  Climbed(z, k, c, more, t)
    <2>1. PICK b, up, s : b = at /\ up = height /\ s = stay
        OBVIOUS
    <2>2. Climbed(z, k, b, up, s)
        BY <1>3, <1>6, <2>1 DEF ClimbInv, Ready
    <2>3. CASE Step
        <3>1. End(b) \notin {"callsub", "retsub"} /\ c \in Flow(b) /\ more = HeightAfter(at) /\ Move(b, c, s)
            BY <1>4, <2>1, <2>3 DEF Step, Move, Arrived, Flow, End, Last1
        <3>2. b \in Blocks /\ Graph /\ up \in Nat /\ s \in Stay
            BY <2>1, ReadyFacts DEF HeightInv, Ready, BudgetInv, MachineTypes
        <3>3. c \in RoutineFlow(b)
            BY <3>1, <3>2, SuccFacts DEF RoutineFlow
        <3>4. more = up + Delta(b) /\ Delta(b) \in Int /\ more <= MaxStack
            BY <1>2, <2>1, <3>1, AscentFacts
        <3> QED BY <1>3, <1>4, <1>5, <1>6, <2>2, <3>1, <3>2, <3>3, <3>4, ClimbStep
    <2>4. CASE Call
        <3>1. t = [met |-> c = k.block, laps |-> 0]
            BY <1>3, <1>4, <2>4 DEF Call, Arrived
        <3> QED BY <1>5, <1>6, <3>1, ClimbFresh
    <2>5. CASE Return
        <3>1. PICK g : g = Last(frames)
            OBVIOUS
        <3>2. Move(g.call, c, g.stay)
            BY <1>4, <2>5, <3>1 DEF Return
        <3>3. g.call \in Callsubs
            BY <2>5, <3>1, ReturnFacts DEF Frame
        <3>4. k.loop.shape.body \cap (Callsubs \union Retsubs) = {}
            BY <1>6 DEF StackBasis, Raised
        <3>5. t = [met |-> c = k.block, laps |-> 0]
            BY <1>3, <1>4, <3>2, <3>3, <3>4 DEF Move, Arrived
        <3> QED BY <1>5, <1>6, <3>5, ClimbFresh
    <2> QED BY <1>1, <2>3, <2>4, <2>5
<1> QED BY <1>1, <1>2, <1>3, <1>4, <1>6, NextClimb

LEMMA ClimbStays ==
    ASSUME HeightInv, ClimbInv, UNCHANGED vars
    PROVE  HeightInv' /\ ClimbInv'
<1>1. /\ UNCHANGED <<program, identified>> /\ UNCHANGED program /\ charges' = charges /\ phase' = phase
      /\ watch' = watch /\ at' = at /\ height' = height /\ stay' = stay /\ frames' = frames
    BY DEF vars, machine, watcher, costing
<1>2. \A f : Served(f)' <=> Served(f)
    BY <1>1, SameServed
<1>3. HeightInv'
    BY <1>1, <1>2 DEF HeightInv
<1>4. CASE phase # "running"
    BY <1>1, <1>3, <1>4 DEF ClimbInv
<1>5. CASE phase = "running"
    <2>1. PICK k, b, up, s : k = watch /\ b = at /\ up = height /\ s = stay
        OBVIOUS
    <2>2. Attributed /\ k # Nowhere => \A z : StackBasis(z, k.loop, k.block) => Climbed(z, k, b, up, s)
        BY <1>5, <2>1 DEF ClimbInv
    <2> QED BY <1>1, <1>3, <2>1, <2>2, NextClimb
<1> QED BY <1>4, <1>5

-----------------------------------------------------------------------------
(* No loop turns more often than its bound says.                           *)

TurnsInv == Watching /\ LapsInv /\ HeightInv /\ ClimbInv

LEMMA InitTurns == Init => TurnsInv
<1>1. Init => phase # "running"
    BY DEF Init, InitAnalysis, InitIdentify
<1> QED BY <1>1, WatchingStarts DEF TurnsInv, LapsInv, HeightInv, ClimbInv

LEMMA OperateWatching ==
    ASSUME Ready, Watching, Operate
    PROVE  Watching'
<1>1. /\ UNCHANGED <<program, identified, costing, reports>> /\ phase = "running" /\ phase' = "running"
      /\ Execute /\ (Step \/ Call \/ Return)
    BY DEF Operate, Ready, Step, Call, Return
<1>2. watch' = watch
    BY <1>1 DEF Step, Call, Return, Move
<1>3. spent' <= Credit
    BY <1>1, RunningFacts
<1>4. watch = Nowhere => laps' = 0
    <2> SUFFICES ASSUME watch = Nowhere PROVE laps' = 0
        OBVIOUS
    <2>1. laps = 0
        BY DEF Watching
    <2>2. watch.loop.shape.body = {}
        BY DEF Nowhere, Shape
    <2>3. ASSUME NEW b, NEW c, NEW s, Move(b, c, s) PROVE laps' = 0
        BY <2>1, <2>2, <2>3 DEF Move
    <2>4. Step => laps' = 0
        BY <2>3 DEF Step
    <2>5. Return => laps' = 0
        BY <2>3 DEF Return
    <2> QED BY <1>1, <2>1, <2>4, <2>5 DEF Call
<1>5. watch # Nowhere => watch.loop \in loops /\ watch.block \in Watchable(watch.loop.shape)
    BY DEF Watching
<1> QED BY <1>1, <1>2, <1>3, <1>4, <1>5, WatchingStays

LEMMA StutterWatching ==
    ASSUME Watching, UNCHANGED vars
    PROVE  Watching'
<1>1. /\ UNCHANGED <<program, identified>> /\ UNCHANGED program /\ charges' = charges /\ phase' = phase
      /\ watch' = watch /\ laps' = laps /\ spent' = spent /\ loops' = loops
    BY DEF vars, machine, watcher, costing, reports
<1>2. phase \in {"analysed", "running"} /\ Attributed => \A loop \in loops' : LoopSound(loop)'
    <2> SUFFICES ASSUME phase \in {"analysed", "running"}, Attributed
                 PROVE  \A loop \in loops' : LoopSound(loop)'
        OBVIOUS
    <2>1. PICK S : S = loops
        OBVIOUS
    <2>2. \A loop \in S : LoopSound(loop)
        BY <2>1 DEF Watching
    <2> QED BY <1>1, <2>1, <2>2, LoopsStay
<1>3. Nowhere' = Nowhere /\ (Attributed <=> Attributed')
    BY <1>1, SameProgram DEF Nowhere, None, Shape
<1> QED BY <1>1, <1>2, <1>3 DEF Watching, Watchable

LEMMA NextTurns == BudgetInv /\ BudgetInv' /\ TurnsInv /\ [Next]_vars => TurnsInv'
<1> SUFFICES ASSUME BudgetInv, BudgetInv', Watching, LapsInv, HeightInv, ClimbInv, [Next]_vars
             PROVE  TurnsInv'
    BY DEF TurnsInv
<1>1. CASE Analysis /\ UNCHANGED <<machine, watcher>>
    BY <1>1, AnalysisWatching DEF TurnsInv, LapsInv, HeightInv, ClimbInv
<1>2. CASE Watch
    <2>1. /\ phase = "analysed" /\ phase' = "running"
          /\ UNCHANGED <<program, identified, costing, reports>>
          /\ spent' = spent /\ laps' = laps
          /\ watch' # Nowhere => /\ watch'.loop \in loops
                                 /\ watch'.block \in Watchable(watch'.loop.shape)
        BY <1>2, WatchFacts
    <2>2. spent <= Credit /\ laps' = 0
        BY <2>1 DEF Watching, BudgetInv, IdleInv
    <2>3. Watching'
        BY <2>1, <2>2, WatchingStays
    <2> QED BY <1>2, <2>3, BooksBegin, ClimbBegins DEF TurnsInv
<1>3. CASE Operate
    <2>1. Ready
        BY <1>3 DEF Operate, Ready
    <2>2. HeightInv'
        BY <1>3, <2>1, HeightsGoOn
    <2> QED BY <1>3, <2>1, <2>2, OperateWatching, BooksGoOn, ClimbGoesOn DEF TurnsInv
<1>4. CASE UNCHANGED vars
    BY <1>4, StutterWatching, BooksStay, ClimbStays DEF TurnsInv
<1> QED BY <1>1, <1>2, <1>3, <1>4 DEF Next

\* The invariant: each loop's bound rests on potentials (what a turn charges, what leads
\* to it, what a turn adds to the stack), what the run has spent besides its turns pays
\* for the way without them, call by call, and the stack is as high as the turns of a
\* stay make it (budget/loop_bounds.py).
THEOREM TurnsInvariant == Spec => []TurnsInv
<1> QED BY InitTurns, NextTurns, BudgetInvariant, PTL DEF Spec

\* Where each call comes back as the repository takes it to, and the entry that is
\* cheapest once executed is reached by the cheapest way, no loop turns more often in one
\* run than the budget bound of loop_bounds says, nor in one stay than the stack bound.
THEOREM LoopsTurnWithinBounds == Spec => []LapsWithinBounds
<1>1. BudgetInv /\ TurnsInv => LapsWithinBounds
    <2> SUFFICES ASSUME BudgetInv, Watching, LapsInv, ClimbInv,
                        Attributed, PlainlyEntered(watch.loop.shape)
                 PROVE  WithinBounds
        BY DEF TurnsInv, LapsWithinBounds
    <2>1. CASE watch = Nowhere
        <3>1. laps = 0 /\ watch.loop.budget = 0 /\ watch.loop.stack = None
            BY <2>1 DEF Watching, Nowhere
        <3> QED BY <3>1 DEF WithinBounds
    <2>2. CASE watch # Nowhere
        <3>1. Ready
            BY <2>2 DEF Watching, Ready
        <3>2. PICK k, b, run, n, s, fr : Current(k, b, run, n, s, fr)
            BY DEF Current
        <3>3. k = watch /\ run = spent /\ n = laps /\ s = stay /\ b = at
            BY <3>2 DEF Current
        <3>4. n \in Nat /\ run \in Nat /\ run <= Credit /\ s.laps \in Nat /\ Credit \in Nat
            BY <3>1, <3>3, CeilingsAreNat DEF Watching, Ready, BudgetInv, MachineTypes, Stay
        <3>5. n <= k.loop.budget
            <4>1. PICK z : BudgetBasis(z, k.loop, k.block)
                BY <2>2, <3>3, ObservedFacts
            <4>2. Accounted(z, k, b, run, n, s, fr)
                BY <2>2, <3>1, <3>2, <3>3, <4>1 DEF LapsInv, Ready
            <4>3. /\ z.iter \in Nat /\ z.pre \in Int /\ 0 <= k.loop.budget
                  /\ \A x \in Nat : x > 0 /\ x * z.iter + z.pre <= Credit => x <= k.loop.budget
                BY <4>1 DEF BudgetBasis, Turned, Approached
            <4>4. CASE n = 0
                BY <4>3, <4>4
            <4>5. CASE n > 0
                <5>1. z.pre <= run - n * z.iter
                    BY <4>2, <4>5 DEF Accounted
                <5>2. PICK i \in Nat : i = n * z.iter
                    <6>1. PICK j \in Nat : j = z.iter
                        BY <4>3
                    <6>2. n * j \in Nat
                        BY <3>4
                    <6> QED BY <6>1, <6>2
                <5>3. i + z.pre <= Credit
                    BY <3>4, <4>3, <5>1, <5>2
                <5>4. n * z.iter + z.pre <= Credit
                    BY <5>2, <5>3
                <5> QED BY <3>4, <4>3, <4>5, <5>4
            <4> QED BY <3>4, <4>4, <4>5
        <3>6. ASSUME k.loop.stack # None PROVE s.laps <= k.loop.stack
            <4>1. PICK z : StackBasis(z, k.loop, k.block)
                BY <2>2, <3>3, <3>6, ObservedFacts
            <4>2. PICK up : up = height
                OBVIOUS
            <4>3. Climbed(z, k, b, up, s)
                BY <2>2, <3>1, <3>3, <4>1, <4>2 DEF ClimbInv, Ready
            <4> QED BY <3>4, <4>1, <4>3 DEF Climbed, StackBasis
        <3> QED BY <3>3, <3>5, <3>6 DEF WithinBounds
    <2> QED BY <2>1, <2>2
<1> QED BY <1>1, BudgetInvariant, TurnsInvariant, PTL
=============================================================================
