------------------------ MODULE BlockMachine_proofs ------------------------
(***************************************************************************)
(* What the analyses of block programs rest on, for every set of programs: *)
(* what values are and what a condition proves of them; which blocks the   *)
(* block graph has; and that a run stays in it, with values in range.      *)
(***************************************************************************)
EXTENDS BlockMachine, NumberLemmas, FiniteSetTheorems

-----------------------------------------------------------------------------
(* Values.  Each is computed from leaves in so many operations (Built), so  *)
(* that there is induction over values, and a function of values may be     *)
(* defined by what its operands give.                                       *)

LEMMA BuiltSteps ==
    /\ Built[0] = {}
    /\ \A n \in Nat : Built[n + 1] =
           {v \in Value : \A i \in DOMAIN Def[v].args : Def[v].args[i] \in Built[n]}
<1> DEFINE D == SUBSET Value
           next(S) == {v \in Value : \A i \in DOMAIN Def[v].args : Def[v].args[i] \in S}
           G == [S \in D |-> next(S)]
           F(f) == [n \in Nat |-> IF n = 0 THEN {} ELSE next(f[n - 1])]
           A == {}
<1>1. PICK f \in [Nat -> D] : f[0] = A /\ \A n \in Nat : f[n + 1] = G[f[n]]
    <2>1. A \in D /\ G \in [D -> D]
        OBVIOUS
    <2> HIDE DEF D, G, A
    <2>2. \E f \in [Nat -> D] : Iterates(f, A, G)
        BY <2>1, IterationExists
    <2> QED BY <2>2 DEF Iterates
<1>2. f = F(f)
    <2>1. ASSUME NEW n \in Nat PROVE f[n] = F(f)[n]
        <3>1. CASE n = 0
            BY <1>1, <3>1
        <3>2. CASE n # 0
            <4>1. n - 1 \in Nat /\ (n - 1) + 1 = n
                BY <3>2
            <4>2. f[n] = G[f[n - 1]] /\ f[n - 1] \in D
                BY <1>1, <4>1
            <4> HIDE DEF next
            <4> QED BY <3>2, <4>2
        <3> QED BY <3>1, <3>2
    <2> HIDE DEF next
    <2> QED BY <1>1, <2>1
<1>3. Built = F(Built)
    <2>1. Built = CHOOSE g : g = F(g)
        BY DEF Built
    <2> HIDE DEF F
    <2> QED BY <1>2, <2>1
<1>4. ASSUME NEW n \in Nat PROVE Built[n + 1] = next(Built[n])
    <2>1. n + 1 \in Nat /\ n + 1 # 0 /\ (n + 1) - 1 = n
        OBVIOUS
    <2> HIDE DEF next
    <2> QED BY <1>3, <2>1
<1> QED BY <1>3, <1>4

LEMMA ValueInduction ==
    ASSUME NEW T,
           \A v \in Value : (\A i \in DOMAIN Def[v].args : Def[v].args[i] \in T) => v \in T
    PROVE  Value \subseteq T
<1> DEFINE U == {n \in Nat : Built[n] \subseteq T}
<1>1. \A n \in Nat : n \in U
    <2>1. 0 \in U
        BY BuiltSteps
    <2>2. ASSUME NEW n \in Nat, n \in U PROVE n + 1 \in U
        BY <2>2, BuiltSteps
    <2> HIDE DEF U
    <2> QED BY <2>1, <2>2, NumberInduction
<1>2. Cardinality(Value) \in Nat
    BY ValuesAreComputed, FS_CardinalityType
<1> QED BY <1>1, <1>2, ValuesAreComputed

(* A function of values, by what each step makes of the function's values for  *)
(* the operands.                                                               *)
Local(G, D) ==
    \A v \in Value, f, g \in [Value -> D] :
        (\A i \in DOMAIN Def[v].args : f[Def[v].args[i]] = g[Def[v].args[i]])
            => G[<<v, f>>] = G[<<v, g>>]

LEMMA RecursionOverValues ==
    ASSUME NEW D, D # {}, NEW G \in [Value \X [Value -> D] -> D], Local(G, D)
    PROVE  \E f \in [Value -> D] : \A v \in Value : f[v] = G[<<v, f>>]
<1> DEFINE E == [Value -> D]
           GG == [f \in E |-> [v \in Value |-> G[<<v, f>>]]]
           N == Cardinality(Value)
<1>1. PICK d \in D : TRUE
    OBVIOUS
<1> DEFINE A == [v \in Value |-> d]
<1>2. PICK h \in [Nat -> E] : h[0] = A /\ \A n \in Nat : h[n + 1] = GG[h[n]]
    <2>1. A \in E
        OBVIOUS
    <2>2. GG \in [E -> E]
        <3>1. \A f \in E, v \in Value : G[<<v, f>>] \in D
            OBVIOUS
        <3> QED BY <3>1
    <2> HIDE DEF E, GG, A, N
    <2>3. \E h \in [Nat -> E] : Iterates(h, A, GG)
        BY <2>1, <2>2, IterationExists
    <2> QED BY <2>3 DEF Iterates
<1> HIDE DEF A
<1>3. \A n \in Nat, v \in Value : h[n] \in E /\ h[n + 1][v] = G[<<v, h[n]>>]
    <2>1. \A n \in Nat : h[n] \in E /\ h[n + 1] = GG[h[n]]
        <3> HIDE DEF E, GG
        <3> QED BY <1>2
    <2>2. \A f \in E, v \in Value : GG[f][v] = G[<<v, f>>]
        OBVIOUS
    <2> HIDE DEF E, GG
    <2> QED BY <2>1, <2>2
<1> DEFINE T == {n \in Nat : \A v \in Built[n], m \in Nat : n <= m => h[m][v] = h[n][v]}
<1>4. \A n \in Nat : n \in T
    <2>1. 0 \in T
        BY BuiltSteps
    <2>2. ASSUME NEW n \in Nat, n \in T PROVE n + 1 \in T
        <3> SUFFICES ASSUME NEW v \in Built[n + 1], NEW m \in Nat, n + 1 <= m
                     PROVE  h[m][v] = h[n + 1][v]
            OBVIOUS
        <3>1. /\ v \in Value
              /\ \A i \in DOMAIN Def[v].args : Def[v].args[i] \in Built[n]
            BY BuiltSteps
        <3>2. m - 1 \in Nat /\ (m - 1) + 1 = m /\ n <= m - 1
            OBVIOUS
        <3>3. \A i \in DOMAIN Def[v].args :
                  h[m - 1][Def[v].args[i]] = h[n][Def[v].args[i]]
            BY <2>2, <3>1, <3>2
        <3>4. G[<<v, h[m - 1]>>] = G[<<v, h[n]>>]
            BY <1>3, <3>1, <3>2, <3>3 DEF Local
        <3>5. h[m][v] = G[<<v, h[m - 1]>>]
            BY <1>3, <3>1, <3>2
        <3> QED BY <1>3, <3>1, <3>4, <3>5
    <2> HIDE DEF T
    <2> QED BY <2>1, <2>2, NumberInduction
<1>5. N \in Nat /\ N + 1 \in Nat /\ N <= N + 1
    BY ValuesAreComputed, FS_CardinalityType
<1>6. \A v \in Value : h[N + 1][v] = h[N][v]
    <2>1. N \in T
        BY <1>4, <1>5
    <2> QED BY <1>5, <2>1, ValuesAreComputed
<1>7. \A v \in Value : h[N][v] = G[<<v, h[N]>>]
    BY <1>3, <1>5, <1>6
<1> QED BY <1>3, <1>5, <1>7

LEMMA DefTypes ==
    ASSUME NEW v \in Value
    PROVE  /\ Def[v] \in Operation
           /\ \A i \in DOMAIN Def[v].args : Def[v].args[i] \in Value
BY DefIsOperation DEF Operation

Operands(f, v) == [i \in DOMAIN Def[v].args |-> f[Def[v].args[i]]]

\* What a run makes of the values.
LEMMA EvalSteps ==
    ASSUME NEW e \in [Leaves -> Nat]
    PROVE  /\ Eval(e) \in [Value -> Nat]
           /\ \A v \in Value : Eval(e)[v] =
                  IF Def[v].op = "leaf" THEN e[v]
                  ELSE Operate(Def[v], Operands(Eval(e), v))
<1> DEFINE step(v, f) == IF Def[v].op = "leaf" THEN e[v]
                         ELSE Operate(Def[v], [i \in DOMAIN Def[v].args |-> f[Def[v].args[i]]])
           G == [x \in Value \X [Value -> Nat] |-> step(x[1], x[2])]
           F(f) == [v \in Value |-> step(v, f)]
<1>1. \A d, arg : Operate(d, arg) \in Nat
    BY DEF Operate
<1>2. \A v \in Value, f \in [Value -> Nat] : step(v, f) \in Nat
    BY <1>1 DEF Leaves
<1>3. G \in [Value \X [Value -> Nat] -> Nat]
    <2> HIDE DEF step
    <2> QED BY <1>2
<1>4. Local(G, Nat)
    <2> SUFFICES ASSUME NEW v \in Value, NEW f \in [Value -> Nat], NEW g \in [Value -> Nat],
                        \A i \in DOMAIN Def[v].args : f[Def[v].args[i]] = g[Def[v].args[i]]
                 PROVE  step(v, f) = step(v, g)
        <3> HIDE DEF step
        <3> QED BY DEF Local
    <2>1. [i \in DOMAIN Def[v].args |-> f[Def[v].args[i]]]
              = [i \in DOMAIN Def[v].args |-> g[Def[v].args[i]]]
        OBVIOUS
    <2> QED BY <2>1
<1>5. PICK f \in [Value -> Nat] : \A v \in Value : f[v] = step(v, f)
    <2>1. \E f \in [Value -> Nat] : \A v \in Value : f[v] = G[<<v, f>>]
        <3> HIDE DEF G
        <3> QED BY <1>3, <1>4, RecursionOverValues
    <2> HIDE DEF step
    <2> QED BY <2>1
<1>6. f = F(f)
    <2> HIDE DEF step
    <2> QED BY <1>5
<1>7. Eval(e) = F(Eval(e))
    <2>1. Eval(e) = CHOOSE g : g = F(g)
        BY DEF Eval
    <2> HIDE DEF F
    <2> QED BY <1>6, <2>1
<1>8. \A v \in Value : Eval(e)[v] = step(v, Eval(e))
    <2> HIDE DEF step
    <2> QED BY <1>7
<1>9. \A v \in Value : Eval(e)[v] \in Nat
    <2> SUFFICES ASSUME NEW v \in Value PROVE step(v, Eval(e)) \in Nat
        <3> HIDE DEF step
        <3> QED BY <1>8
    <2> QED BY <1>1 DEF Leaves
<1>10. Eval(e) \in [Value -> Nat]
    <2> HIDE DEF step
    <2> QED BY <1>7, <1>8, <1>9
<1> QED BY <1>8, <1>10 DEF Operands

(* The values a value is computed from.                                        *)
LEMMA ComputingSteps ==
    \A v \in Value :
        /\ Computing(v) \subseteq Value
        /\ Computing(v) = {v} \union
               UNION {Computing(Def[v].args[i]) : i \in DOMAIN Def[v].args}
<1> DEFINE D == SUBSET Value
           step(v, f) == {v} \union UNION {f[Def[v].args[i]] : i \in DOMAIN Def[v].args}
           G == [x \in Value \X [Value -> D] |-> step(x[1], x[2])]
           F(f) == [v \in Value |-> step(v, f)]
           parts == CHOOSE g : g = F(g)
<1>1. \A v \in Value, f \in [Value -> D] : step(v, f) \in D
    BY DefTypes
<1>2. G \in [Value \X [Value -> D] -> D]
    <2> HIDE DEF step, D
    <2> QED BY <1>1
<1>3. Local(G, D)
    <2> SUFFICES ASSUME NEW v \in Value, NEW f \in [Value -> D], NEW g \in [Value -> D],
                        \A i \in DOMAIN Def[v].args : f[Def[v].args[i]] = g[Def[v].args[i]]
                 PROVE  step(v, f) = step(v, g)
        <3> HIDE DEF step, D
        <3> QED BY DEF Local
    <2> QED OBVIOUS
<1>4. PICK f \in [Value -> D] : \A v \in Value : f[v] = step(v, f)
    <2>1. D # {}
        OBVIOUS
    <2>2. \E f \in [Value -> D] : \A v \in Value : f[v] = G[<<v, f>>]
        <3> HIDE DEF G, D
        <3> QED BY <1>2, <1>3, <2>1, RecursionOverValues
    <2> HIDE DEF step, D
    <2> QED BY <2>2
<1>5. f = F(f)
    <2> HIDE DEF step, D
    <2> QED BY <1>4
<1>6. parts = F(parts)
    <2> HIDE DEF F
    <2> QED BY <1>5
<1>7. \A v : Computing(v) = parts[v]
    BY DEF Computing
<1> HIDE DEF parts
<1>8. \A v \in Value : parts[v] = step(v, parts)
    <2> HIDE DEF step
    <2> QED BY <1>6
<1>9. Value \subseteq {v \in Value : parts[v] \subseteq Value}
    <2> DEFINE T == {v \in Value : parts[v] \subseteq Value}
    <2>1. \A v \in Value :
              (\A i \in DOMAIN Def[v].args : Def[v].args[i] \in T) => v \in T
        BY <1>8
    <2> HIDE DEF T
    <2> QED BY <2>1, ValueInduction DEF T
<1>10. \A v \in Value : step(v, parts) =
          {v} \union UNION {Computing(Def[v].args[i]) : i \in DOMAIN Def[v].args}
    BY <1>7
<1> QED
    <2> HIDE DEF step
    <2> QED BY <1>7, <1>8, <1>9, <1>10

\* A value depends on the leaves it is computed from, on nothing else.
LEMMA EvalAgrees ==
    ASSUME NEW d \in [Leaves -> Nat], NEW e \in [Leaves -> Nat]
    PROVE  \A v \in Value :
               (\A l \in Leaves \cap Computing(v) : d[l] = e[l]) => Eval(d)[v] = Eval(e)[v]
<1> DEFINE T == {v \in Value :
                    (\A l \in Leaves \cap Computing(v) : d[l] = e[l])
                        => Eval(d)[v] = Eval(e)[v]}
<1>1. ASSUME NEW v \in Value, \A i \in DOMAIN Def[v].args : Def[v].args[i] \in T
      PROVE  v \in T
    <2> SUFFICES ASSUME \A l \in Leaves \cap Computing(v) : d[l] = e[l]
                 PROVE  Eval(d)[v] = Eval(e)[v]
        OBVIOUS
    <2>1. CASE Def[v].op = "leaf"
        <3>1. v \in Leaves \cap Computing(v)
            BY <2>1, ComputingSteps DEF Leaves
        <3> QED BY <2>1, <3>1, EvalSteps
    <2>2. CASE Def[v].op # "leaf"
        <3>1. \A i \in DOMAIN Def[v].args : Computing(Def[v].args[i]) \subseteq Computing(v)
            BY ComputingSteps
        <3>2. \A i \in DOMAIN Def[v].args :
                  Eval(d)[Def[v].args[i]] = Eval(e)[Def[v].args[i]]
            BY <1>1, <3>1
        <3>3. Operands(Eval(d), v) = Operands(Eval(e), v)
            BY <3>2 DEF Operands
        <3>4. /\ Eval(d)[v] = Operate(Def[v], Operands(Eval(d), v))
              /\ Eval(e)[v] = Operate(Def[v], Operands(Eval(e), v))
            BY <2>2, EvalSteps
        <3> QED BY <3>3, <3>4
    <2> QED BY <2>1, <2>2
<1> HIDE DEF T
<1> QED BY <1>1, ValueInduction DEF T

-----------------------------------------------------------------------------
(* What a condition proves.                                                *)

\* The kinds of operations, by what they have for operands.
LEMMA OperandsOf ==
    \A v \in Value :
        /\ Def[v].op \in {"leaf", "!", "&&", "||"} \union CmpOps
        /\ Def[v].op # "leaf" => Def[v].args[1] \in Value /\ 1 \in DOMAIN Def[v].args
        /\ Def[v].op \in {"&&", "||"} \/ Len(Def[v].args) = 2 =>
               Def[v].args[2] \in Value /\ 2 \in DOMAIN Def[v].args
        /\ Def[v].op \in CmpOps => Len(Def[v].args) \in {1, 2}
        /\ Def[v].k \in Uint /\ Def[v].constFirst \in BOOLEAN
<1> SUFFICES ASSUME NEW v \in Value
             PROVE  /\ Def[v].op \in {"leaf", "!", "&&", "||"} \union CmpOps
                    /\ Def[v].op # "leaf" => Def[v].args[1] \in Value /\ 1 \in DOMAIN Def[v].args
                    /\ Def[v].op \in {"&&", "||"} \/ Len(Def[v].args) = 2 =>
                           Def[v].args[2] \in Value /\ 2 \in DOMAIN Def[v].args
                    /\ Def[v].op \in CmpOps => Len(Def[v].args) \in {1, 2}
                    /\ Def[v].k \in Uint /\ Def[v].constFirst \in BOOLEAN
    OBVIOUS
<1> DEFINE d == Def[v]
<1>1. d \in Operation
    BY DefTypes
<1>2. Len(d.args) \in CASE d.op = "leaf"         -> {0}
                        [] d.op = "!"            -> {1}
                        [] d.op \in {"&&", "||"} -> {2}
                        [] OTHER                 -> {1, 2}
    BY DefHasOperands
<1> HIDE DEF d
<1>3. /\ d.op \in {"leaf", "!", "&&", "||"} \union CmpOps
      /\ d.args \in Seq(Value)
      /\ d.k \in Uint /\ d.constFirst \in BOOLEAN
    BY <1>1 DEF Operation, Uint
<1>4. d.op # "leaf" => Len(d.args) \in {1, 2}
    BY <1>2, <1>3 DEF CmpOps
<1>5. d.op \in {"&&", "||"} => Len(d.args) = 2
    BY <1>2, <1>3
<1>6. d.op \in CmpOps => d.op # "leaf"
    BY DEF CmpOps
<1>7. d.op # "leaf" => 1 \in DOMAIN d.args /\ d.args[1] \in Value
    BY <1>3, <1>4
<1>8. Len(d.args) = 2 => 2 \in DOMAIN d.args /\ d.args[2] \in Value
    BY <1>3
<1> QED BY <1>3, <1>4, <1>5, <1>6, <1>7, <1>8 DEF d

LEMMA RelationType ==
    \A v \in Value, taken \in BOOLEAN : Def[v].op \in CmpOps => Relation(v, taken) \in Predicate
<1> SUFFICES ASSUME NEW v \in Value, NEW taken \in BOOLEAN, Def[v].op \in CmpOps
             PROVE  Relation(v, taken) \in Predicate
    OBVIOUS
<1> DEFINE kind == IF taken THEN KindTaken(Def[v].op) ELSE Negation(KindTaken(Def[v].op))
           flip == IF Def[v].constFirst THEN Flip(kind) ELSE kind
<1>1. kind \in Compared /\ flip \in Compared
    BY DEF Compared, KindTaken, Negation, Flip
<1>2. Def[v].op # "leaf"
    BY DEF CmpOps
<1> HIDE DEF kind, flip
<1>3. CASE Len(Def[v].args) = 2
    <2>1. Def[v].args[1] \in Value /\ Def[v].args[2] \in Value
        BY <1>2, <1>3, OperandsOf
    <2>2. [value |-> Def[v].args[1], kind |-> kind, args |-> {}, other |-> {Def[v].args[2]}]
              \in Predicate
        BY <1>1, <2>1 DEF Predicate
    <2> QED BY <1>3, <2>2 DEF Relation, Canonical, kind
<1>4. CASE Len(Def[v].args) # 2
    <2>1. Def[v].args[1] \in Value /\ Def[v].k \in Uint
        BY <1>2, OperandsOf
    <2>2. Pred(Def[v].args[1], flip, {Def[v].k}) \in Predicate
        BY <1>1, <2>1 DEF Predicate, Pred
    <2> QED BY <1>4, <2>2 DEF Relation, Canonical, kind, flip
<1> QED BY <1>3, <1>4

Outcomes == Value \X BOOLEAN

\* Parts, by the kind of operation.
LEMMA PartsCases ==
    ASSUME NEW v, NEW taken, NEW f
    PROVE  /\ Def[v].op \in CmpOps => Parts(v, taken, f) = {Relation(v, taken)}
           /\ Def[v].op = "!" => Parts(v, taken, f) = f[<<Def[v].args[1], ~ taken>>]
           /\ Decomposes(Def[v].op, taken) =>
                  Parts(v, taken, f) = f[<<Def[v].args[1], taken>>] \union f[<<Def[v].args[2], taken>>]
           /\ Def[v].op \notin CmpOps /\ Def[v].op # "!" /\ ~ Decomposes(Def[v].op, taken) =>
                  Parts(v, taken, f) = {}
<1>1. CASE Def[v].op \in CmpOps
    <2>1. Def[v].op # "!" /\ ~ Decomposes(Def[v].op, taken)
        BY <1>1 DEF CmpOps, Decomposes
    <2>2. Parts(v, taken, f) = {Relation(v, taken)}
        BY <1>1, <2>1, Zenon DEF Parts
    <2> QED BY <1>1, <2>1, <2>2, Zenon
<1>2. CASE Def[v].op = "!"
    <2>1. Def[v].op \notin CmpOps /\ ~ Decomposes(Def[v].op, taken)
        BY <1>2 DEF CmpOps, Decomposes
    <2>2. Parts(v, taken, f) = f[<<Def[v].args[1], ~ taken>>]
        BY <1>2, <2>1, Zenon DEF Parts
    <2> QED BY <1>2, <2>1, <2>2, Zenon
<1>3. CASE Decomposes(Def[v].op, taken)
    <2>1. Def[v].op \notin CmpOps /\ Def[v].op # "!"
        BY <1>3 DEF CmpOps, Decomposes
    <2>2. Parts(v, taken, f) = f[<<Def[v].args[1], taken>>] \union f[<<Def[v].args[2], taken>>]
        BY <1>3, <2>1, Zenon DEF Parts
    <2> QED BY <1>3, <2>1, <2>2, Zenon
<1>4. CASE ~ (Def[v].op \in CmpOps \/ Def[v].op = "!" \/ Decomposes(Def[v].op, taken))
    <2>1. Parts(v, taken, f) = {}
        BY <1>4, Zenon DEF Parts
    <2> QED BY <1>4, <2>1, Zenon
<1> QED BY <1>1, <1>2, <1>3, <1>4, Zenon

LEMMA PartsType ==
    ASSUME NEW v \in Value, NEW taken \in BOOLEAN, NEW f \in [Outcomes -> SUBSET Predicate]
    PROVE  Parts(v, taken, f) \subseteq Predicate
<1>1. CASE Def[v].op \in CmpOps
    <2>1. Parts(v, taken, f) = {Relation(v, taken)}
        BY <1>1, PartsCases, Zenon
    <2>2. Relation(v, taken) \in Predicate
        BY <1>1, RelationType, Zenon
    <2> QED BY <2>1, <2>2, Zenon
<1>2. CASE Def[v].op = "!"
    <2>1. <<Def[v].args[1], ~ taken>> \in Outcomes
        <3>1. Def[v].args[1] \in Value
            BY <1>2, OperandsOf
        <3>2. (~ taken) \in BOOLEAN
            OBVIOUS
        <3> QED BY <3>1, <3>2, Zenon DEF Outcomes
    <2>2. Parts(v, taken, f) = f[<<Def[v].args[1], ~ taken>>]
        <3>1. Def[v].op \notin CmpOps /\ ~ Decomposes(Def[v].op, taken)
            BY <1>2 DEF CmpOps, Decomposes
        <3> QED BY <1>2, <3>1, Zenon DEF Parts
    <2> DEFINE c == <<Def[v].args[1], ~ taken>>
    <2> HIDE DEF c
    <2>3. c \in Outcomes
        BY <2>1, Zenon DEF c
    <2>4. f[c] \subseteq Predicate
        BY <2>3
    <2>5. Parts(v, taken, f) = f[c]
        BY <2>2, Zenon DEF c
    <2> QED BY <2>4, <2>5, Zenon
<1>3. CASE Decomposes(Def[v].op, taken)
    <2>1. Def[v].op \in {"&&", "||"}
        BY <1>3 DEF Decomposes
    <2>2. <<Def[v].args[1], taken>> \in Outcomes /\ <<Def[v].args[2], taken>> \in Outcomes
        BY <2>1, OperandsOf DEF Outcomes
    <2> QED BY <1>3, <2>1, <2>2 DEF Parts, CmpOps
<1>4. CASE ~ (Def[v].op \in CmpOps \/ Def[v].op = "!" \/ Decomposes(Def[v].op, taken))
    BY <1>4 DEF Parts
<1> QED BY <1>1, <1>2, <1>3, <1>4

LEMMA ItselfType ==
    ASSUME NEW v \in Value, NEW taken \in BOOLEAN
    PROVE  Itself(v, taken) \in Predicate
BY DEF Itself, Pred, Predicate

\* What v proves depends on what its operands do.
LEMMA PartsLocal ==
    ASSUME NEW v \in Value, NEW taken \in BOOLEAN, NEW f, NEW g,
           \A i \in DOMAIN Def[v].args, t \in BOOLEAN :
               f[<<Def[v].args[i], t>>] = g[<<Def[v].args[i], t>>]
    PROVE  Parts(v, taken, f) = Parts(v, taken, g)
<1>1. CASE Def[v].op \in CmpOps
    BY <1>1 DEF Parts
<1>2. CASE Def[v].op = "!"
    <2>1. 1 \in DOMAIN Def[v].args
        BY <1>2, OperandsOf
    <2> QED BY <1>2, <2>1 DEF Parts, CmpOps
<1>3. CASE Decomposes(Def[v].op, taken)
    <2>1. Def[v].op \in {"&&", "||"}
        BY <1>3 DEF Decomposes
    <2>2. 1 \in DOMAIN Def[v].args /\ 2 \in DOMAIN Def[v].args
        BY <2>1, OperandsOf
    <2> QED BY <1>3, <2>1, <2>2 DEF Parts, CmpOps
<1>4. CASE ~ (Def[v].op \in CmpOps \/ Def[v].op = "!" \/ Decomposes(Def[v].op, taken))
    BY <1>4 DEF Parts
<1> QED BY <1>1, <1>2, <1>3, <1>4

LEMMA DecomposeSteps ==
    /\ DecomposeCond \in [Outcomes -> SUBSET Predicate]
    /\ \A v \in Value, taken \in BOOLEAN :
           DecomposeCond[<<v, taken>>] = {Itself(v, taken)} \union Parts(v, taken, DecomposeCond)
<1> DEFINE D == [BOOLEAN -> SUBSET Predicate]
           flat(f) == [c \in Outcomes |-> f[c[1]][c[2]]]
           step(v, f) == [t \in BOOLEAN |-> {Itself(v, t)} \union Parts(v, t, flat(f))]
           G == [x \in Value \X [Value -> D] |-> step(x[1], x[2])]
           F(g) == [c \in Outcomes |-> {Itself(c[1], c[2])} \union Parts(c[1], c[2], g)]
<1>1. DecomposeCond = CHOOSE g : g = F(g)
    BY DEF DecomposeCond, Outcomes
<1>2. ASSUME NEW f \in [Value -> D] PROVE flat(f) \in [Outcomes -> SUBSET Predicate]
    <2>1. \A c \in Outcomes : c[1] \in Value /\ c[2] \in BOOLEAN
        BY DEF Outcomes
    <2>2. \A c \in Outcomes : f[c[1]] \in D
        <3> HIDE DEF D
        <3> QED BY <2>1
    <2>3. \A c \in Outcomes : f[c[1]][c[2]] \in SUBSET Predicate
        BY <2>1, <2>2
    <2> QED BY <2>3
<1>3. ASSUME NEW f, NEW v \in Value, NEW t \in BOOLEAN PROVE flat(f)[<<v, t>>] = f[v][t]
    <2>1. <<v, t>> \in Outcomes /\ <<v, t>>[1] = v /\ <<v, t>>[2] = t
        BY DEF Outcomes
    <2> QED BY <2>1
<1> HIDE DEF flat
<1>4. ASSUME NEW v \in Value, NEW f \in [Value -> D] PROVE step(v, f) \in D
    <2>1. \A t \in BOOLEAN : {Itself(v, t)} \union Parts(v, t, flat(f)) \subseteq Predicate
        <3>1. flat(f) \in [Outcomes -> SUBSET Predicate]
            BY <1>2
        <3> HIDE DEF D
        <3> QED BY <3>1, PartsType, ItselfType
    <2> QED BY <2>1
<1>5. G \in [Value \X [Value -> D] -> D]
    <2> HIDE DEF step, D
    <2> QED BY <1>4
<1>6. Local(G, D)
    <2> SUFFICES ASSUME NEW v \in Value, NEW f \in [Value -> D], NEW g \in [Value -> D],
                        \A i \in DOMAIN Def[v].args : f[Def[v].args[i]] = g[Def[v].args[i]]
                 PROVE  step(v, f) = step(v, g)
        <3> HIDE DEF step, D
        <3> QED BY DEF Local
    <2>1. \A i \in DOMAIN Def[v].args, t \in BOOLEAN :
              flat(f)[<<Def[v].args[i], t>>] = flat(g)[<<Def[v].args[i], t>>]
        <3> HIDE DEF D
        <3> QED BY <1>3, DefTypes
    <2>2. \A t \in BOOLEAN : Parts(v, t, flat(f)) = Parts(v, t, flat(g))
        <3> HIDE DEF D
        <3> QED BY <2>1, PartsLocal
    <2> QED BY <2>2
<1>7. PICK f \in [Value -> D] : \A v \in Value : f[v] = step(v, f)
    <2>1. D # {}
        <3>1. [t \in BOOLEAN |-> {}] \in D
            OBVIOUS
        <3> QED BY <3>1
    <2>2. \E f \in [Value -> D] : \A v \in Value : f[v] = G[<<v, f>>]
        <3> HIDE DEF G, D
        <3> QED BY <1>5, <1>6, <2>1, RecursionOverValues
    <2> HIDE DEF step, D
    <2> QED BY <2>2
<1>8. flat(f) = F(flat(f))
    <2>1. \A c \in Outcomes : c[1] \in Value /\ c[2] \in BOOLEAN /\ c = <<c[1], c[2]>>
        BY DEF Outcomes
    <2>2. \A c \in Outcomes : flat(f)[c] = {Itself(c[1], c[2])} \union Parts(c[1], c[2], flat(f))
        BY <1>3, <1>7, <2>1
    <2>3. flat(f) \in [Outcomes -> SUBSET Predicate]
        BY <1>2
    <2> QED BY <2>2, <2>3
<1>9. DecomposeCond = F(DecomposeCond)
    <2> HIDE DEF F
    <2> QED BY <1>1, <1>8
<1> DEFINE T == {v \in Value : \A t \in BOOLEAN : DecomposeCond[<<v, t>>] \subseteq Predicate}
<1>10. ASSUME NEW v \in Value, NEW t \in BOOLEAN
       PROVE  DecomposeCond[<<v, t>>] = {Itself(v, t)} \union Parts(v, t, DecomposeCond)
    <2>1. <<v, t>> \in Outcomes /\ <<v, t>>[1] = v /\ <<v, t>>[2] = t
        BY DEF Outcomes
    <2> QED BY <1>9, <2>1
<1>11. Value \subseteq T
    <2>1. ASSUME NEW v \in Value, \A i \in DOMAIN Def[v].args : Def[v].args[i] \in T
          PROVE  v \in T
        <3> SUFFICES ASSUME NEW t \in BOOLEAN PROVE DecomposeCond[<<v, t>>] \subseteq Predicate
            OBVIOUS
        <3> DEFINE g == [c \in Outcomes |->
                            IF c[1] \in T THEN DecomposeCond[c] ELSE {}]
        <3>1. g \in [Outcomes -> SUBSET Predicate]
            <4>1. ASSUME NEW c \in Outcomes, c[1] \in T PROVE DecomposeCond[c] \subseteq Predicate
                <5>1. c = <<c[1], c[2]>> /\ c[2] \in BOOLEAN
                    BY DEF Outcomes
                <5> QED BY <4>1, <5>1
            <4> HIDE DEF T
            <4> QED BY <4>1
        <3>2. \A i \in DOMAIN Def[v].args, s \in BOOLEAN :
                  DecomposeCond[<<Def[v].args[i], s>>] = g[<<Def[v].args[i], s>>]
            <4>1. \A i \in DOMAIN Def[v].args, s \in BOOLEAN : <<Def[v].args[i], s>> \in Outcomes
                BY DefTypes DEF Outcomes
            <4> HIDE DEF T
            <4> QED BY <2>1, <4>1
        <3> HIDE DEF g, T
        <3>3. Parts(v, t, DecomposeCond) = Parts(v, t, g)
            BY <3>2, PartsLocal
        <3> QED BY <1>10, <3>1, <3>3, PartsType, ItselfType
    <2> HIDE DEF T
    <2> QED BY <2>1, ValueInduction
<1>12. DecomposeCond \in [Outcomes -> SUBSET Predicate]
    <2>1. ASSUME NEW c \in Outcomes PROVE DecomposeCond[c] \subseteq Predicate
        <3>1. c = <<c[1], c[2]>> /\ c[1] \in Value /\ c[2] \in BOOLEAN
            BY DEF Outcomes
        <3> QED BY <1>11, <3>1
    <2>2. DecomposeCond = [c \in Outcomes |-> DecomposeCond[c]]
        <3> DEFINE val(c) == {Itself(c[1], c[2])} \union Parts(c[1], c[2], DecomposeCond)
        <3>1. DecomposeCond = [c \in Outcomes |-> val(c)]
            BY <1>9
        <3> HIDE DEF val
        <3> QED BY <3>1
    <2> QED BY <2>1, <2>2
<1> QED BY <1>10, <1>12

\* A comparison and what it proves of its operands.
LEMMA ComparisonHolds ==
    ASSUME NEW op \in CmpOps, NEW m \in Nat, NEW n \in Nat, NEW taken \in BOOLEAN,
           Compares(op, m, n) <=> taken
    PROVE  LET kind == IF taken THEN KindTaken(op) ELSE Negation(KindTaken(op))
           IN  Admits(kind, m, {n}) /\ Admits(Flip(kind), n, {m})
<1>1. CASE op = "=="
    BY <1>1 DEF Compares, KindTaken, Negation, Flip, Admits
<1>2. CASE op = "!="
    BY <1>2 DEF Compares, KindTaken, Negation, Flip, Admits
<1>3. CASE op = "<"
    BY <1>3 DEF Compares, KindTaken, Negation, Flip, Admits
<1>4. CASE op = "<="
    BY <1>4 DEF Compares, KindTaken, Negation, Flip, Admits
<1>5. CASE op = ">"
    BY <1>5 DEF Compares, KindTaken, Negation, Flip, Admits
<1>6. CASE op = ">="
    BY <1>6 DEF Compares, KindTaken, Negation, Flip, Admits
<1> QED BY <1>1, <1>2, <1>3, <1>4, <1>5, <1>6 DEF CmpOps

\* What the operators make, with their operands named.
LEMMA OperateSteps ==
    ASSUME NEW e \in [Leaves -> Nat], NEW v \in Value
    PROVE  /\ Def[v].op = "!" => (Eval(e)[v] # 0 <=> Eval(e)[Def[v].args[1]] = 0)
           /\ Def[v].op = "&&" =>
                  (Eval(e)[v] # 0 <=> Eval(e)[Def[v].args[1]] # 0 /\ Eval(e)[Def[v].args[2]] # 0)
           /\ Def[v].op = "||" =>
                  (Eval(e)[v] # 0 <=> Eval(e)[Def[v].args[1]] # 0 \/ Eval(e)[Def[v].args[2]] # 0)
           /\ Def[v].op \in CmpOps /\ Len(Def[v].args) = 2 =>
                  (Eval(e)[v] # 0 <=>
                      Compares(Def[v].op, Eval(e)[Def[v].args[1]], Eval(e)[Def[v].args[2]]))
           /\ Def[v].op \in CmpOps /\ Len(Def[v].args) # 2 /\ Def[v].constFirst =>
                  (Eval(e)[v] # 0 <=> Compares(Def[v].op, Def[v].k, Eval(e)[Def[v].args[1]]))
           /\ Def[v].op \in CmpOps /\ Len(Def[v].args) # 2 /\ ~ Def[v].constFirst =>
                  (Eval(e)[v] # 0 <=> Compares(Def[v].op, Eval(e)[Def[v].args[1]], Def[v].k))
<1> DEFINE d == Def[v]
           a == Operands(Eval(e), v)
<1>1. d.op # "leaf" => Eval(e)[v] = Operate(d, a)
    BY EvalSteps
<1>2. /\ d.op # "leaf" => a[1] = Eval(e)[d.args[1]]
      /\ d.op \in {"&&", "||"} \/ Len(d.args) = 2 => a[2] = Eval(e)[d.args[2]]
      /\ Len(a) = Len(d.args)
    <2>1. d.args \in Seq(Value)
        BY DefTypes DEF Operation
    <2>2. DOMAIN a = DOMAIN d.args /\ \A i \in DOMAIN d.args : a[i] = Eval(e)[d.args[i]]
        BY DEF Operands
    <2>3. Len(a) = Len(d.args)
        <3> HIDE DEF a, d
        <3> QED BY <2>1, <2>2
    <2> QED BY <2>2, <2>3, OperandsOf
<1> HIDE DEF d, a
<1>3. /\ d.op = "!" => (Operate(d, a) # 0 <=> a[1] = 0)
      /\ d.op = "&&" => (Operate(d, a) # 0 <=> a[1] # 0 /\ a[2] # 0)
      /\ d.op = "||" => (Operate(d, a) # 0 <=> a[1] # 0 \/ a[2] # 0)
    BY DEF Operate
<1>4. ASSUME d.op \in CmpOps
      PROVE  /\ Len(a) = 2 => (Operate(d, a) # 0 <=> Compares(d.op, a[1], a[2]))
             /\ Len(a) # 2 /\ d.constFirst =>
                    (Operate(d, a) # 0 <=> Compares(d.op, d.k, a[1]))
             /\ Len(a) # 2 /\ ~ d.constFirst =>
                    (Operate(d, a) # 0 <=> Compares(d.op, a[1], d.k))
    <2>1. d.op \notin {"!", "&&", "||"}
        BY <1>4 DEF CmpOps
    <2> QED BY <2>1 DEF Operate
<1>5. d.op \in CmpOps \union {"!", "&&", "||"} => d.op # "leaf"
    BY DEF CmpOps
<1> QED
    <2> HIDE <1>3, <1>4
    <2>1. d.op = "!" => (Eval(e)[v] # 0 <=> Eval(e)[d.args[1]] = 0)
        BY <1>1, <1>2, <1>3
    <2>2. d.op = "&&" =>
              (Eval(e)[v] # 0 <=> Eval(e)[d.args[1]] # 0 /\ Eval(e)[d.args[2]] # 0)
        BY <1>1, <1>2, <1>3
    <2>3. d.op = "||" =>
              (Eval(e)[v] # 0 <=> Eval(e)[d.args[1]] # 0 \/ Eval(e)[d.args[2]] # 0)
        BY <1>1, <1>2, <1>3
    <2>4. d.op \in CmpOps => Eval(e)[v] = Operate(d, a) /\ a[1] = Eval(e)[d.args[1]]
        BY <1>1, <1>2, <1>5
    <2> QED BY <1>2, <1>4, <2>1, <2>2, <2>3, <2>4 DEF d

LEMMA HoldsSteps ==
    ASSUME NEW p, NEW e, NEW bounds,
           bounds = p.args \union {Eval(e)[w] : w \in p.other},
           Admits(p.kind, Eval(e)[p.value], bounds)
    PROVE  Holds(p, e)
BY DEF Holds

\* The relation a comparison proves holds.
LEMMA RelationHolds ==
    ASSUME NEW e \in [Leaves -> Nat], NEW v \in Value, NEW taken \in BOOLEAN,
           Def[v].op \in CmpOps, Eval(e)[v] # 0 <=> taken
    PROVE  Holds(Relation(v, taken), e)
<1> DEFINE kind == IF taken THEN KindTaken(Def[v].op) ELSE Negation(KindTaken(Def[v].op))
           a == Def[v].args
           k == Def[v].k
           p == Relation(v, taken)
<1>1. a[1] \in Value /\ k \in Nat /\ (Len(a) = 2 => a[2] \in Value)
    BY OperandsOf DEF CmpOps, Uint
<1>2. Eval(e)[a[1]] \in Nat /\ (Len(a) = 2 => Eval(e)[a[2]] \in Nat)
    BY <1>1, EvalSteps
<1>3. p = Canonical(v, kind)
    BY DEF Relation
<1>4. CASE Len(a) = 2
    <2>1. Compares(Def[v].op, Eval(e)[a[1]], Eval(e)[a[2]]) <=> taken
        BY <1>4, OperateSteps
    <2>2. Admits(kind, Eval(e)[a[1]], {Eval(e)[a[2]]})
        BY <1>2, <1>4, <2>1, ComparisonHolds
    <2> HIDE DEF kind, p
    <2>3. p.value = a[1] /\ p.kind = kind /\ p.args = {} /\ p.other = {a[2]}
        BY <1>3, <1>4 DEF Canonical
    <2> HIDE DEF a, k
    <2>4. {Eval(e)[a[2]]} = p.args \union {Eval(e)[w] : w \in p.other}
        BY <2>3
    <2>5. Holds(p, e)
        BY <2>2, <2>3, <2>4, HoldsSteps
    <2> QED BY <2>5 DEF p
<1>5. CASE Len(a) # 2 /\ Def[v].constFirst
    <2>1. Compares(Def[v].op, k, Eval(e)[a[1]]) <=> taken
        BY <1>5, OperateSteps
    <2>2. Admits(Flip(kind), Eval(e)[a[1]], {k})
        BY <1>1, <1>2, <2>1, ComparisonHolds
    <2> HIDE DEF kind, p
    <2>3. p.value = a[1] /\ p.kind = Flip(kind) /\ p.args = {k} /\ p.other = {}
        <3>1. p = Pred(a[1], Flip(kind), {k})
            BY <1>3, <1>5 DEF Canonical
        <3> QED BY <3>1 DEF Pred
    <2>6. Admits(p.kind, Eval(e)[p.value], {k})
        BY <2>2, <2>3
    <2> HIDE DEF a, k
    <2>4. {k} = p.args \union {Eval(e)[w] : w \in p.other}
        BY <2>3
    <2>5. Holds(p, e)
        BY <2>4, <2>6, HoldsSteps
    <2> QED BY <2>5 DEF p
<1>6. CASE Len(a) # 2 /\ ~ Def[v].constFirst
    <2>1. Compares(Def[v].op, Eval(e)[a[1]], k) <=> taken
        BY <1>6, OperateSteps
    <2>2. Admits(kind, Eval(e)[a[1]], {k})
        BY <1>1, <1>2, <2>1, ComparisonHolds
    <2> HIDE DEF kind, p
    <2>3. p.value = a[1] /\ p.kind = kind /\ p.args = {k} /\ p.other = {}
        <3>1. p = Pred(a[1], kind, {k})
            BY <1>3, <1>6 DEF Canonical
        <3> QED BY <3>1 DEF Pred
    <2> HIDE DEF a, k
    <2>4. {k} = p.args \union {Eval(e)[w] : w \in p.other}
        BY <2>3
    <2>5. Holds(p, e)
        BY <2>2, <2>3, <2>4, HoldsSteps
    <2> QED BY <2>5 DEF p
<1> QED BY <1>4, <1>5, <1>6

LEMMA ItselfHolds ==
    ASSUME NEW e, NEW v, NEW taken \in BOOLEAN, Eval(e)[v] # 0 <=> taken
    PROVE  Holds(Itself(v, taken), e)
<1> DEFINE p == Itself(v, taken)
           bounds == p.args \union {Eval(e)[w] : w \in p.other}
<1>1. p.value = v /\ p.kind = IF taken THEN "nonzero" ELSE "zero"
    BY DEF Itself, Pred
<1> HIDE DEF p, bounds
<1>2. Admits(p.kind, Eval(e)[p.value], bounds)
    BY <1>1 DEF Admits
<1>3. Holds(p, e)
    BY <1>2, HoldsSteps DEF bounds
<1> QED BY <1>3 DEF p

\* Everything an outcome of a condition is said to prove is true where the condition has
\* that outcome.
LEMMA DecomposeSound ==
    ASSUME NEW e \in [Leaves -> Nat]
    PROVE  \A v \in Value, taken \in BOOLEAN :
               (Eval(e)[v] # 0 <=> taken) => \A p \in DecomposeCond[<<v, taken>>] : Holds(p, e)
<1> DEFINE T == {v \in Value : \A taken \in BOOLEAN :
                    (Eval(e)[v] # 0 <=> taken) =>
                        \A p \in DecomposeCond[<<v, taken>>] : Holds(p, e)}
<1>1. ASSUME NEW v \in Value, \A i \in DOMAIN Def[v].args : Def[v].args[i] \in T
      PROVE  v \in T
    <2> SUFFICES ASSUME NEW taken \in BOOLEAN, Eval(e)[v] # 0 <=> taken
                 PROVE  \A p \in DecomposeCond[<<v, taken>>] : Holds(p, e)
        OBVIOUS
    <2> DEFINE a == Def[v].args
    <2>1. SUFFICES \A p \in Parts(v, taken, DecomposeCond) : Holds(p, e)
        BY DecomposeSteps, ItselfHolds
    <2>2. ASSUME NEW i \in DOMAIN a, NEW t \in BOOLEAN, Eval(e)[a[i]] # 0 <=> t
          PROVE  \A p \in DecomposeCond[<<a[i], t>>] : Holds(p, e)
        BY <1>1, <2>2
    <2> HIDE DEF T, a
    <2>3. CASE Def[v].op \in CmpOps
        <3>1. Parts(v, taken, DecomposeCond) = {Relation(v, taken)}
            BY <2>3, PartsCases, Zenon
        <3> QED BY <2>3, <3>1, RelationHolds
    <2>4. CASE Def[v].op = "!"
        <3>1. 1 \in DOMAIN a /\ (Eval(e)[v] # 0 <=> Eval(e)[a[1]] = 0)
            BY <2>4, OperandsOf, OperateSteps DEF a
        <3> DEFINE t == ~ taken
        <3>2. Parts(v, taken, DecomposeCond) = DecomposeCond[<<a[1], t>>]
            <4>1. Def[v].op \notin CmpOps /\ ~ Decomposes(Def[v].op, taken)
                BY <2>4 DEF CmpOps, Decomposes
            <4> QED BY <2>4, <4>1, Zenon DEF Parts, a
        <3>3. t \in BOOLEAN /\ (Eval(e)[a[1]] # 0 <=> t)
            BY <3>1
        <3> HIDE DEF t
        <3>4. \A p \in DecomposeCond[<<a[1], t>>] : Holds(p, e)
            BY <2>2, <3>1, <3>3
        <3> QED BY <3>2, <3>4, Zenon
    <2>5. CASE Decomposes(Def[v].op, taken)
        <3>1. Parts(v, taken, DecomposeCond) =
                  DecomposeCond[<<a[1], taken>>] \union DecomposeCond[<<a[2], taken>>]
            <4>1. Def[v].op \notin CmpOps /\ Def[v].op # "!"
                BY <2>5 DEF CmpOps, Decomposes
            <4> QED BY <2>5, <4>1, Zenon DEF Parts, a
        <3>2. Def[v].op \in {"&&", "||"}
            BY <2>5 DEF Decomposes
        <3>3. 1 \in DOMAIN a /\ 2 \in DOMAIN a
            BY <3>2, OperandsOf DEF a
        <3>4. (Eval(e)[a[1]] # 0 <=> taken) /\ (Eval(e)[a[2]] # 0 <=> taken)
            BY <2>5, OperateSteps DEF a, Decomposes
        <3>5. \A p \in DecomposeCond[<<a[1], taken>>] : Holds(p, e)
            BY <2>2, <3>3, <3>4
        <3>6. \A p \in DecomposeCond[<<a[2], taken>>] : Holds(p, e)
            BY <2>2, <3>3, <3>4
        <3> QED BY <3>1, <3>5, <3>6, Zenon
    <2>6. CASE ~ (Def[v].op \in CmpOps \/ Def[v].op = "!" \/ Decomposes(Def[v].op, taken))
        <3>1. Parts(v, taken, DecomposeCond) = {}
            BY <2>6, Zenon DEF Parts
        <3> QED BY <3>1
    <2> QED BY <2>3, <2>4, <2>5, <2>6
<1> HIDE DEF T
<1> QED BY <1>1, ValueInduction DEF T

-----------------------------------------------------------------------------
(* What a predicate is about.                                              *)

Mentions(p) == Leaves \cap UNION {Computing(w) : w \in {p.value} \union p.other}

LEMMA PredicateShape ==
    ASSUME NEW p \in Predicate
    PROVE  p.value \in Value /\ p.other \subseteq Value /\ p.args \subseteq Uint
BY DEF Predicate

\* Whether a predicate holds depends on the leaves it mentions.
LEMMA HoldsAgrees ==
    ASSUME NEW p \in Predicate, NEW d \in [Leaves -> Nat], NEW e \in [Leaves -> Nat],
           \A l \in Mentions(p) : d[l] = e[l], Holds(p, d)
    PROVE  Holds(p, e)
<1>1. p.value \in Value /\ p.other \subseteq Value
    BY PredicateShape
<1>2. \A w \in {p.value} \union p.other : Eval(d)[w] = Eval(e)[w]
    <2> TAKE w \in {p.value} \union p.other
    <2>1. w \in Value /\ \A l \in Leaves \cap Computing(w) : d[l] = e[l]
        BY <1>1 DEF Mentions
    <2> QED BY <2>1, EvalAgrees
<1>3. {Eval(d)[w] : w \in p.other} = {Eval(e)[w] : w \in p.other}
    BY <1>2
<1>4. Eval(d)[p.value] = Eval(e)[p.value]
    BY <1>2
<1> QED BY <1>3, <1>4 DEF Holds

\* An outcome of a condition proves things about the leaves the condition is computed from.
LEMMA DecomposeMentions ==
    \A v \in Value, taken \in BOOLEAN :
        \A p \in DecomposeCond[<<v, taken>>] : Mentions(p) \subseteq Computing(v)
<1> DEFINE T == {v \in Value : \A taken \in BOOLEAN :
                    \A p \in DecomposeCond[<<v, taken>>] : Mentions(p) \subseteq Computing(v)}
<1>1. ASSUME NEW v \in Value, \A i \in DOMAIN Def[v].args : Def[v].args[i] \in T
      PROVE  v \in T
    <2> SUFFICES ASSUME NEW taken \in BOOLEAN, NEW p \in DecomposeCond[<<v, taken>>]
                 PROVE  Mentions(p) \subseteq Computing(v)
        OBVIOUS
    <2> DEFINE a == Def[v].args
    <2>1. \A i \in DOMAIN a : Computing(a[i]) \subseteq Computing(v)
        BY ComputingSteps
    <2>2. ASSUME NEW i \in DOMAIN a, NEW t \in BOOLEAN, p \in DecomposeCond[<<a[i], t>>]
          PROVE  Mentions(p) \subseteq Computing(v)
        <3>1. Mentions(p) \subseteq Computing(a[i])
            BY <1>1, <2>2
        <3> QED BY <2>1, <3>1
    <2> HIDE DEF T
    <2>3. p = Itself(v, taken) \/ p \in Parts(v, taken, DecomposeCond)
        BY DecomposeSteps
    <2>4. CASE p = Itself(v, taken)
        <3>1. p.value = v /\ p.other = {}
            BY <2>4 DEF Itself, Pred
        <3> QED BY <3>1 DEF Mentions
    <2>5. CASE p \in Parts(v, taken, DecomposeCond) /\ Def[v].op \in CmpOps
        <3> DEFINE kind == IF taken THEN KindTaken(Def[v].op) ELSE Negation(KindTaken(Def[v].op))
        <3>1. Parts(v, taken, DecomposeCond) = {Relation(v, taken)}
            BY <2>5, PartsCases, Zenon
        <3>2. p = Canonical(v, kind)
            BY <2>5, <3>1 DEF Relation
        <3> HIDE DEF kind
        <3>3. /\ p.value = a[1]
              /\ p.other \subseteq (IF Len(a) = 2 THEN {a[2]} ELSE {})
            BY <3>2 DEF Canonical, Pred
        <3>4. 1 \in DOMAIN a /\ (Len(a) = 2 => 2 \in DOMAIN a)
            BY <2>5, OperandsOf DEF CmpOps
        <3>5. \A w \in {p.value} \union p.other : Computing(w) \subseteq Computing(v)
            <4> HIDE DEF a
            <4> QED BY <2>1, <3>3, <3>4
        <3> QED BY <3>5 DEF Mentions
    <2>6. CASE p \in Parts(v, taken, DecomposeCond) /\ Def[v].op = "!"
        <3> DEFINE t == ~ taken
        <3>1. Parts(v, taken, DecomposeCond) = DecomposeCond[<<a[1], t>>]
            <4>1. Def[v].op \notin CmpOps /\ ~ Decomposes(Def[v].op, taken)
                BY <2>6 DEF CmpOps, Decomposes
            <4> QED BY <2>6, <4>1, Zenon DEF Parts, a
        <3>2. 1 \in DOMAIN a /\ t \in BOOLEAN
            BY <2>6, OperandsOf
        <3> HIDE DEF t, a
        <3>3. p \in DecomposeCond[<<a[1], t>>]
            BY <2>6, <3>1, Zenon
        <3> QED BY <2>2, <3>2, <3>3
    <2>7. CASE p \in Parts(v, taken, DecomposeCond) /\ Decomposes(Def[v].op, taken)
        <3>1. Parts(v, taken, DecomposeCond) =
                  DecomposeCond[<<a[1], taken>>] \union DecomposeCond[<<a[2], taken>>]
            <4>1. Def[v].op \notin CmpOps /\ Def[v].op # "!"
                BY <2>7 DEF CmpOps, Decomposes
            <4> QED BY <2>7, <4>1, Zenon DEF Parts, a
        <3>2. Def[v].op \in {"&&", "||"}
            BY <2>7 DEF Decomposes
        <3>3. 1 \in DOMAIN a /\ 2 \in DOMAIN a
            BY <3>2, OperandsOf DEF a
        <3> HIDE DEF a
        <3>4. p \in DecomposeCond[<<a[1], taken>>] \/ p \in DecomposeCond[<<a[2], taken>>]
            BY <2>7, <3>1, Zenon
        <3> QED BY <2>2, <3>3, <3>4
    <2>8. CASE ~ (Def[v].op \in CmpOps \/ Def[v].op = "!" \/ Decomposes(Def[v].op, taken))
        <3>1. Parts(v, taken, DecomposeCond) = {}
            BY <2>8, Zenon DEF Parts
        <3> QED BY <2>3, <2>4, <3>1
    <2> QED BY <2>3, <2>4, <2>5, <2>6, <2>7, <2>8
<1> HIDE DEF T
<1> QED BY <1>1, ValueInduction DEF T

LEMMA EvalIsUint ==
    ASSUME NEW e \in [Leaves -> Uint]
    PROVE  e \in [Leaves -> Nat] /\ \A v \in Value : Eval(e)[v] \in Uint
<1>1. e \in [Leaves -> Nat] /\ 0 \in Uint /\ 1 \in Uint
    BY MaxIntIsPositive DEF Uint
<1>2. \A d, arg : Operate(d, arg) \in {0, 1}
    BY DEF Operate
<1>3. \A v \in Value : Eval(e)[v] = IF Def[v].op = "leaf" THEN e[v]
                                    ELSE Operate(Def[v], Operands(Eval(e), v))
    BY <1>1, EvalSteps
<1>4. \A v \in Value : Eval(e)[v] \in Uint
    <2> TAKE v \in Value
    <2>1. CASE Def[v].op = "leaf"
        BY <1>3, <2>1 DEF Leaves
    <2>2. CASE Def[v].op # "leaf"
        <3>1. Eval(e)[v] \in {0, 1}
            BY <1>2, <1>3, <2>2
        <3> QED BY <1>1, <3>1
    <2> QED BY <2>1, <2>2
<1> QED BY <1>1, <1>4

\* Predicates that hold together do not contradict one another.
LEMMA NoContradiction ==
    ASSUME NEW e \in [Leaves -> Uint], NEW P \in SUBSET Predicate, \A p \in P : Holds(p, e)
    PROVE  ~ PredicatesContradict(P)
<1> SUFFICES ASSUME NEW v \in {p.value : p \in P}
             PROVE  /\ ~ (Cardinality(Exact(P, v)) > 1)
                    /\ \E n \in Possible(P, v) : Exact(P, v) \subseteq {n}
    BY DEF PredicatesContradict
<1> DEFINE n == Eval(e)[v]
<1>1. v \in Value /\ n \in Uint /\ n \in Nat
    BY PredicateShape, EvalIsUint DEF Uint
<1> HIDE DEF n
<1>2. ASSUME NEW p \in P, p.value = v
      PROVE  \E bounds : p.args \subseteq bounds /\ Admits(p.kind, n, bounds)
    <2> DEFINE bounds == p.args \union {Eval(e)[w] : w \in p.other}
    <2>1. Admits(p.kind, Eval(e)[p.value], bounds)
        BY DEF Holds
    <2> QED BY <1>2, <2>1 DEF n
<1>3. \A kind : About(P, v, kind) = {p \in P : p.value = v /\ p.kind = kind}
    BY DEF About
<1>4. \A k \in ArgsOf(P, v, "ge") : k \in Nat /\ k <= n
    <2> SUFFICES ASSUME NEW p \in About(P, v, "ge"), NEW k \in p.args PROVE k \in Nat /\ k <= n
        BY DEF ArgsOf
    <2>1. PICK bounds : p.args \subseteq bounds /\ Admits("ge", n, bounds)
        BY <1>2, <1>3
    <2>2. k \in Nat
        BY PredicateShape, <1>3 DEF Uint
    <2>3. n >= k
        BY <2>1 DEF Admits
    <2> QED BY <1>1, <2>2, <2>3
<1>5. \A k \in ArgsOf(P, v, "gt") : k \in Nat /\ k < n
    <2> SUFFICES ASSUME NEW p \in About(P, v, "gt"), NEW k \in p.args PROVE k \in Nat /\ k < n
        BY DEF ArgsOf
    <2>1. PICK bounds : p.args \subseteq bounds /\ Admits("gt", n, bounds)
        BY <1>2, <1>3
    <2>2. k \in Nat
        BY PredicateShape, <1>3 DEF Uint
    <2>3. n > k
        BY <2>1 DEF Admits
    <2> QED BY <1>1, <2>2, <2>3
<1>6. \A k \in ArgsOf(P, v, "le") : k \in Nat /\ n <= k
    <2> SUFFICES ASSUME NEW p \in About(P, v, "le"), NEW k \in p.args PROVE k \in Nat /\ n <= k
        BY DEF ArgsOf
    <2>1. PICK bounds : p.args \subseteq bounds /\ Admits("le", n, bounds)
        BY <1>2, <1>3
    <2>2. k \in Nat
        BY PredicateShape, <1>3 DEF Uint
    <2> QED BY <2>1, <2>2 DEF Admits
<1>7. \A k \in ArgsOf(P, v, "lt") : k \in Nat /\ n < k
    <2> SUFFICES ASSUME NEW p \in About(P, v, "lt"), NEW k \in p.args PROVE k \in Nat /\ n < k
        BY DEF ArgsOf
    <2>1. PICK bounds : p.args \subseteq bounds /\ Admits("lt", n, bounds)
        BY <1>2, <1>3
    <2>2. k \in Nat
        BY PredicateShape, <1>3 DEF Uint
    <2> QED BY <2>1, <2>2 DEF Admits
<1>8. n \notin Excluded(P, v)
    <2>1. ASSUME NEW kind \in {"neq", "neq_all", "not_in_range"}
          PROVE  n \notin ArgsOf(P, v, kind)
        <3> SUFFICES ASSUME NEW p \in About(P, v, kind) PROVE n \notin p.args
            BY DEF ArgsOf
        <3>1. PICK bounds : p.args \subseteq bounds /\ Admits(kind, n, bounds)
            BY <1>2, <1>3
        <3> QED BY <3>1 DEF Admits
    <2>2. About(P, v, "nonzero") # {} => n # 0
        <3> SUFFICES ASSUME NEW p \in About(P, v, "nonzero") PROVE n # 0
            OBVIOUS
        <3>1. PICK bounds : Admits("nonzero", n, bounds)
            BY <1>2, <1>3
        <3> QED BY <3>1 DEF Admits
    <2> QED BY <2>1, <2>2 DEF Excluded
<1>9. Exact(P, v) \subseteq {n}
    <2>1. ASSUME NEW p \in About(P, v, "eq"), NEW k \in p.args PROVE k = n
        <3>1. p \in P /\ p.value = v /\ p.kind = "eq" /\ p \in Predicate
            BY <1>3
        <3>2. p.args = {k} /\ p.other = {}
            BY <2>1, <3>1 DEF Predicate
        <3>3. p.args \union {Eval(e)[w] : w \in p.other} = {k}
            BY <3>2
        <3>4. Admits(p.kind, Eval(e)[p.value], p.args \union {Eval(e)[w] : w \in p.other})
            BY <3>1 DEF Holds
        <3>5. Admits("eq", n, {k})
            BY <3>1, <3>3, <3>4 DEF n
        <3> QED BY <3>5 DEF Admits
    <2>2. About(P, v, "zero") # {} => n = 0
        <3> SUFFICES ASSUME NEW p \in About(P, v, "zero") PROVE n = 0
            OBVIOUS
        <3>1. PICK bounds : Admits("zero", n, bounds)
            BY <1>2, <1>3
        <3> QED BY <3>1 DEF Admits
    <2> QED BY <2>1, <2>2 DEF Exact, ArgsOf
<1>10. Lowest(P, v) <= n
    <2> DEFINE S == {0} \union ArgsOf(P, v, "ge") \union {k + 1 : k \in ArgsOf(P, v, "gt")}
    <2>1. S \subseteq 0..n /\ S # {}
        BY <1>1, <1>4, <1>5
    <2>2. Lowest(P, v) = MaxOf(S)
        BY DEF Lowest
    <2> HIDE DEF S
    <2>3. \E x \in S : \A y \in S : y <= x
        BY <1>1, <2>1, GreatestNumber
    <2>4. \E x \in S : \A y \in S : x >= y
        BY <1>1, <2>1, <2>3
    <2>5. MaxOf(S) \in S
        BY <2>4 DEF MaxOf
    <2>6. Lowest(P, v) \in 0..n
        BY <2>1, <2>2, <2>5
    <2> QED BY <1>1, <2>6
<1>11. n < Ceiling(P, v)
    <2> DEFINE S == {MaxInt + 1} \union ArgsOf(P, v, "lt") \union {k + 1 : k \in ArgsOf(P, v, "le")}
    <2>1. S \subseteq Nat /\ S # {} /\ \A x \in S : n < x
        <3>1. MaxInt + 1 \in Nat /\ n < MaxInt + 1
            BY <1>1, MaxIntIsPositive DEF Uint
        <3>2. \A k \in ArgsOf(P, v, "le") : k + 1 \in Nat /\ n < k + 1
            BY <1>1, <1>6
        <3> QED BY <1>7, <3>1, <3>2
    <2>2. Ceiling(P, v) = MinOf(S)
        BY DEF Ceiling
    <2> HIDE DEF S
    <2>3. \E x \in S : \A y \in S : x <= y
        BY <2>1, LeastNumber
    <2>4. MinOf(S) \in S
        BY <2>3 DEF MinOf
    <2> QED BY <2>1, <2>2, <2>4
<1>12. n \in Possible(P, v)
    BY <1>1, <1>8, <1>10, <1>11 DEF Possible
<1>13. ~ (Cardinality(Exact(P, v)) > 1)
    <2>1. Exact(P, v) = {} \/ Exact(P, v) = {n}
        BY <1>9
    <2>2. Cardinality({}) = 0 /\ Cardinality({n}) = 1
        BY FS_EmptySet, FS_Singleton
    <2> QED BY <2>1, <2>2
<1> QED BY <1>9, <1>12, <1>13

-----------------------------------------------------------------------------
(* The block graph.  What is reached in any number of steps is the least   *)
(* set closed under them: as many steps as there are blocks are enough.    *)

LEMMA BlocksAreFinite ==
    ASSUME prog.blocks \in Seq(Block)
    PROVE  /\ Len(prog.blocks) \in Nat
           /\ IsFiniteSet(All)
           /\ Cardinality(All) = Len(prog.blocks)
<1>1. Len(prog.blocks) \in Nat
    OBVIOUS
<1>2. Cardinality(1..Len(prog.blocks)) = Len(prog.blocks) /\ IsFiniteSet(1..Len(prog.blocks))
    <2>1. 1 \in Int /\ Len(prog.blocks) \in Int
        BY <1>1
    <2>2. 1 > Len(prog.blocks) => Len(prog.blocks) = 0
        BY <1>1
    <2>3. (Len(prog.blocks) - 1) + 1 = Len(prog.blocks)
        BY <1>1
    <2> QED BY <2>1, <2>2, <2>3, FS_Interval
<1> QED BY <1>1, <1>2 DEF All

\* What is closed among the blocks U.
LEMMA ClosureIn ==
    ASSUME prog.blocks \in Seq(Block), NEW U \in SUBSET All,
           NEW S \in SUBSET U, NEW next \in [U -> SUBSET U]
    PROVE  /\ Closure(S, next) \subseteq U
           /\ S \subseteq Closure(S, next)
           /\ \A b \in Closure(S, next) : next[b] \subseteq Closure(S, next)
           /\ \A K : /\ S \subseteq K
                     /\ \A b \in K \cap U : next[b] \subseteq K
                     => Closure(S, next) \subseteq K
<1> DEFINE D == SUBSET U
           step(R) == R \union UNION {next[b] : b \in R}
           G == [R \in D |-> step(R)]
           F(f) == [n \in Nat |-> IF n = 0 THEN S ELSE step(f[n - 1])]
           reach == CHOOSE f : f = F(f)
           N == Len(prog.blocks)
<1>1. PICK f \in [Nat -> D] : f[0] = S /\ \A n \in Nat : f[n + 1] = G[f[n]]
    <2>1. S \in D /\ G \in [D -> D]
        OBVIOUS
    <2> HIDE DEF D, G
    <2>2. \E f \in [Nat -> D] : Iterates(f, S, G)
        BY <2>1, IterationExists
    <2> QED BY <2>2 DEF Iterates
<1>2. f = F(f)
    <2>1. ASSUME NEW n \in Nat PROVE f[n] = F(f)[n]
        <3>1. CASE n = 0
            BY <1>1, <3>1
        <3>2. CASE n # 0
            <4>1. n - 1 \in Nat /\ (n - 1) + 1 = n
                BY <3>2
            <4>2. f[n] = G[f[n - 1]] /\ f[n - 1] \in D
                BY <1>1, <4>1
            <4> HIDE DEF step
            <4> QED BY <3>2, <4>2
        <3> QED BY <3>1, <3>2
    <2> HIDE DEF step
    <2> QED BY <1>1, <2>1
<1>3. reach = F(reach)
    <2> HIDE DEF F
    <2> QED BY <1>2
<1>4. Closure(S, next) = reach[N]
    BY DEF Closure
<1> HIDE DEF reach
<1>5. reach[0] = S /\ \A n \in Nat : reach[n + 1] = step(reach[n])
    <2>1. \A n \in Nat : n + 1 \in Nat /\ n + 1 # 0 /\ (n + 1) - 1 = n
        OBVIOUS
    <2> HIDE DEF step
    <2> QED BY <1>3, <2>1
<1> DEFINE T == {n \in Nat : reach[n] \subseteq U}
<1>6. \A n \in Nat : n \in T
    <2>1. 0 \in T
        BY <1>5
    <2>2. ASSUME NEW n \in Nat, n \in T PROVE n + 1 \in T
        <3>1. step(reach[n]) \subseteq U
            BY <2>2
        <3>2. reach[n + 1] = step(reach[n]) /\ n + 1 \in Nat
            <4> HIDE DEF step
            <4> QED BY <1>5
        <3>3. reach[n + 1] \subseteq U
            <4> HIDE DEF step
            <4> QED BY <3>1, <3>2
        <3> QED BY <3>2, <3>3
    <2> HIDE DEF T
    <2> QED BY <2>1, <2>2, NumberInduction
<1>7. reach \in [Nat -> SUBSET U]
    <2>1. \A n \in Nat : reach[n] \in SUBSET U
        BY <1>6
    <2>2. reach = [n \in Nat |-> reach[n]]
        <3> DEFINE val(n) == IF n = 0 THEN S ELSE step(reach[n - 1])
        <3>1. reach = [n \in Nat |-> val(n)]
            BY <1>3
        <3> HIDE DEF val
        <3> QED BY <3>1
    <2> QED BY <2>1, <2>2
<1>8. reach[N + 1] = reach[N]
    <2>1. \A n \in Nat : reach[n] \subseteq reach[n + 1]
        BY <1>5
    <2>2. \A n \in Nat : reach[n + 1] = reach[n] => reach[(n + 1) + 1] = reach[n + 1]
        <3> HIDE DEF step
        <3> QED BY <1>5
    <2>3. N \in Nat /\ IsFiniteSet(U) /\ Cardinality(U) <= N
        <3>1. N \in Nat /\ IsFiniteSet(All) /\ Cardinality(All) = N
            BY BlocksAreFinite
        <3> HIDE DEF N
        <3>2. IsFiniteSet(U) /\ Cardinality(U) <= Cardinality(All)
            BY <3>1, FS_Subset
        <3> QED BY <3>1, <3>2
    <2> HIDE DEF N
    <2> QED BY <1>7, <2>1, <2>2, <2>3, ChainSettles
<1>9. N \in Nat
    BY BlocksAreFinite
<1>10. \A n \in Nat : S \subseteq reach[n]
    <2> DEFINE V == {n \in Nat : S \subseteq reach[n]}
    <2>1. 0 \in V
        BY <1>5
    <2>2. ASSUME NEW n \in Nat, n \in V PROVE n + 1 \in V
        BY <1>5, <2>2
    <2>3. \A n \in Nat : n \in V
        <3> HIDE DEF V
        <3> QED BY <2>1, <2>2, NumberInduction
    <2> QED BY <2>3
<1>11. ASSUME NEW K, S \subseteq K, \A b \in K \cap U : next[b] \subseteq K
       PROVE  reach[N] \subseteq K
    <2> DEFINE V == {n \in Nat : reach[n] \subseteq K}
    <2>1. 0 \in V
        BY <1>5, <1>11
    <2>2. ASSUME NEW n \in Nat, n \in V PROVE n + 1 \in V
        <3>1. reach[n] \subseteq K \cap U
            BY <1>7, <2>2
        <3> QED BY <1>5, <1>11, <3>1
    <2>3. \A n \in Nat : n \in V
        <3> HIDE DEF V
        <3> QED BY <2>1, <2>2, NumberInduction
    <2> QED BY <1>9, <2>3
<1>12. \A b \in reach[N] : next[b] \subseteq reach[N]
    <2>1. reach[N] = reach[N] \union UNION {next[b] : b \in reach[N]}
        BY <1>5, <1>8, <1>9
    <2> QED BY <2>1
<1> QED
    <2> HIDE DEF N
    <2> QED BY <1>4, <1>6, <1>9, <1>10, <1>11, <1>12

LEMMA ClosureFacts ==
    ASSUME prog.blocks \in Seq(Block), NEW S \in SUBSET All, NEW next \in [All -> SUBSET All]
    PROVE  /\ Closure(S, next) \subseteq All
           /\ S \subseteq Closure(S, next)
           /\ \A b \in Closure(S, next) : next[b] \subseteq Closure(S, next)
           /\ \A K : /\ S \subseteq K
                     /\ \A b \in K \cap All : next[b] \subseteq K
                     => Closure(S, next) \subseteq K
BY ClosureIn

\* Where an operation leads is in the program.
LEMMA FlowTypes ==
    ASSUME IsProgram(prog)
    PROVE  /\ prog.blocks \in Seq(Block)
           /\ 1 \in All
           /\ \A b \in All : /\ B(b) \in Block
                             /\ Arms(b) \subseteq All
                             /\ Following(b) \subseteq All
                             /\ Flow(b) \subseteq All
<1>1. prog.blocks \in Seq(Block) /\ prog.blocks # <<>>
    BY DEF IsProgram
<1>2. Len(prog.blocks) \in Nat /\ Len(prog.blocks) # 0
    BY <1>1
<1>3. 1 \in All
    BY <1>2 DEF All
<1>4. ASSUME NEW b \in All
      PROVE  B(b) \in Block /\ Arms(b) \subseteq All /\ Following(b) \subseteq All
    <2>1. b \in DOMAIN prog.blocks /\ DOMAIN prog.blocks = All
        BY <1>1, <1>4 DEF All
    <2>2. B(b) \in Block
        BY <1>1, <2>1 DEF B
    <2>3. Linked(B(b), prog.blocks)
        BY <2>1 DEF IsProgram, B
    <2>4. Arms(b) \subseteq All
        BY <2>1, <2>3 DEF Arms, Linked
    <2> QED BY <2>2, <2>4 DEF Following
<1>5. \A b \in All : Flow(b) \subseteq All
    BY <1>4 DEF Flow
<1> QED BY <1>1, <1>3, <1>4, <1>5

LEMMA OnwardTypes ==
    ASSUME IsProgram(prog), NEW r, NEW b \in All, NEW more \in SUBSET All
    PROVE  /\ Onward(b, r, more) \subseteq All
           /\ \A live \in SUBSET more : Onward(b, r, live) \subseteq Onward(b, r, more)
<1>1. Arms(b) \subseteq All /\ Flow(b) \subseteq All
    BY FlowTypes
<1>2. \A c \in more : Following(c) \subseteq All
    BY FlowTypes
<1> QED BY <1>1, <1>2 DEF Onward

LEMMA ReachedFacts ==
    ASSUME IsProgram(prog), NEW r, NEW live \in SUBSET All
    PROVE  /\ Reached(r, live) \subseteq All
           /\ 1 \in Reached(r, live)
           /\ \A b \in Reached(r, live) : Onward(b, r, live) \subseteq Reached(r, live)
           /\ \A K : /\ 1 \in K
                     /\ \A b \in K \cap All : Onward(b, r, live) \subseteq K
                     => Reached(r, live) \subseteq K
<1> DEFINE next == [b \in All |-> Onward(b, r, live)]
<1>1. next \in [All -> SUBSET All]
    BY OnwardTypes
<1>2. {1} \in SUBSET All /\ prog.blocks \in Seq(Block)
    BY FlowTypes
<1>3. Reached(r, live) = Closure({1}, next)
    BY DEF Reached
<1>4. \A b \in All : next[b] = Onward(b, r, live)
    OBVIOUS
<1> HIDE DEF next
<1>5. /\ Closure({1}, next) \subseteq All
      /\ {1} \subseteq Closure({1}, next)
      /\ \A b \in Closure({1}, next) : next[b] \subseteq Closure({1}, next)
      /\ \A K : /\ {1} \subseteq K
                /\ \A b \in K \cap All : next[b] \subseteq K
                => Closure({1}, next) \subseteq K
    BY <1>1, <1>2, ClosureFacts
<1>6. \A b \in Reached(r, live) : Onward(b, r, live) \subseteq Reached(r, live)
    BY <1>3, <1>4, <1>5
<1>7. ASSUME NEW K, 1 \in K, \A b \in K \cap All : Onward(b, r, live) \subseteq K
      PROVE  Reached(r, live) \subseteq K
    <2>1. {1} \subseteq K /\ \A b \in K \cap All : next[b] \subseteq K
        BY <1>4, <1>7
    <2> QED BY <1>3, <1>5, <2>1
<1> QED BY <1>3, <1>5, <1>6, <1>7

\* The blocks are those reached when only they return, and no fewer.
LEMMA BlockGraphFacts ==
    ASSUME IsProgram(prog)
    PROVE  \E L \in SUBSET All :
               /\ DOMAIN BlockGraph = L
               /\ \A b \in L : BlockGraph[b] = Onward(b, Returns, L)
               /\ L = Reached(Returns, L)
<1> DEFINE D == SUBSET All
           returns == Returns
           step(live) == Reached(returns, live)
           G == [live \in D |-> step(live)]
           F(f) == [n \in Nat |-> IF n = 0 THEN All ELSE step(f[n - 1])]
           gated == CHOOSE f : f = F(f)
           N == Len(prog.blocks)
<1>1. \A live \in D : step(live) \in D
    BY ReachedFacts
<1>2. PICK f \in [Nat -> D] : f[0] = All /\ \A n \in Nat : f[n + 1] = G[f[n]]
    <2>1. All \in D /\ G \in [D -> D]
        <3> HIDE DEF step
        <3> QED BY <1>1
    <2> HIDE DEF D, G
    <2>2. \E f \in [Nat -> D] : Iterates(f, All, G)
        BY <2>1, IterationExists
    <2> QED BY <2>2 DEF Iterates
<1>3. f = F(f)
    <2>1. ASSUME NEW n \in Nat PROVE f[n] = F(f)[n]
        <3>1. CASE n = 0
            BY <1>2, <3>1
        <3>2. CASE n # 0
            <4>1. n - 1 \in Nat /\ (n - 1) + 1 = n
                BY <3>2
            <4>2. f[n] = G[f[n - 1]] /\ f[n - 1] \in D
                BY <1>2, <4>1
            <4> HIDE DEF step
            <4> QED BY <3>2, <4>2
        <3> QED BY <3>1, <3>2
    <2> HIDE DEF step
    <2> QED BY <1>2, <2>1
<1>4. gated = F(gated)
    <2> HIDE DEF F
    <2> QED BY <1>3
<1>5. BlockGraph = [b \in gated[N] |-> Onward(b, returns, gated[N])]
    BY DEF BlockGraph
<1> HIDE DEF gated
<1>6. gated[0] = All /\ \A n \in Nat : gated[n + 1] = step(gated[n])
    <2>1. \A n \in Nat : n + 1 \in Nat /\ n + 1 # 0 /\ (n + 1) - 1 = n
        OBVIOUS
    <2> HIDE DEF step
    <2> QED BY <1>4, <2>1
<1> HIDE DEF returns
<1>7. ASSUME NEW more \in D, NEW live \in SUBSET more PROVE step(live) \subseteq step(more)
    <2>1. \A b \in step(more) \cap All : Onward(b, returns, live) \subseteq step(more)
        BY ReachedFacts, OnwardTypes
    <2>2. 1 \in step(more)
        BY ReachedFacts
    <2>3. live \in SUBSET All
        OBVIOUS
    <2>4. \A K : /\ 1 \in K
                 /\ \A b \in K \cap All : Onward(b, returns, live) \subseteq K
                 => Reached(returns, live) \subseteq K
        BY <2>3, ReachedFacts
    <2>5. Reached(returns, live) \subseteq step(more)
        <3> HIDE DEF step
        <3> QED BY <2>1, <2>2, <2>4
    <2> QED BY <2>5
<1> HIDE DEF step
<1> DEFINE T == {n \in Nat : gated[n] \in D /\ gated[n + 1] \subseteq gated[n]}
<1>8. \A n \in Nat : n \in T
    <2>1. 0 \in T
        <3>1. gated[0] \in D /\ gated[0 + 1] = step(gated[0])
            BY <1>6
        <3> QED BY <1>1, <1>6, <3>1
    <2>2. ASSUME NEW n \in Nat, n \in T PROVE n + 1 \in T
        <3>1. n + 1 \in Nat /\ gated[n] \in D /\ gated[n + 1] \in SUBSET gated[n]
            BY <2>2
        <3>2. gated[n + 1] \in D
            BY <3>1
        <3>3. step(gated[n + 1]) \subseteq step(gated[n])
            BY <1>7, <3>1
        <3>4. gated[(n + 1) + 1] = step(gated[n + 1]) /\ gated[n + 1] = step(gated[n])
            BY <1>6, <3>1
        <3> QED BY <3>1, <3>2, <3>3, <3>4
    <2> HIDE DEF T
    <2> QED BY <2>1, <2>2, NumberInduction
<1> DEFINE out == [n \in Nat |-> All \ gated[n]]
<1>9. N \in Nat /\ N + 1 \in Nat
    BY FlowTypes, BlocksAreFinite
<1>10. out[N + 1] = out[N]
    <2>1. out \in [Nat -> SUBSET All]
        OBVIOUS
    <2>2. \A n \in Nat : out[n] \subseteq out[n + 1]
        BY <1>8
    <2>3. ASSUME NEW n \in Nat, out[n + 1] = out[n] PROVE out[(n + 1) + 1] = out[n + 1]
        <3>1. n + 1 \in Nat /\ (n + 1) + 1 \in Nat
            OBVIOUS
        <3>2. gated[n + 1] = gated[n]
            BY <1>8, <2>3, <3>1
        <3>3. gated[(n + 1) + 1] = gated[n + 1]
            BY <1>6, <3>1, <3>2
        <3> QED BY <3>1, <3>3
    <2>4. N \in Nat /\ IsFiniteSet(All) /\ Cardinality(All) <= N
        BY FlowTypes, BlocksAreFinite
    <2> HIDE DEF out, N
    <2> QED BY <2>1, <2>2, <2>3, <2>4, ChainSettles
<1>11. gated[N + 1] = gated[N]
    <2>1. gated[N] \in D /\ gated[N + 1] \in D
        <3>1. N \in T /\ N + 1 \in T
            BY <1>8, <1>9
        <3> QED BY <3>1
    <2>2. out[N] = All \ gated[N] /\ out[N + 1] = All \ gated[N + 1]
        BY <1>9
    <2> HIDE DEF out, N
    <2> QED BY <1>10, <2>1, <2>2
<1>12. gated[N] \in SUBSET All /\ gated[N] = step(gated[N])
    BY <1>6, <1>8, <1>9, <1>11
<1> DEFINE L == gated[N]
<1>13. DOMAIN BlockGraph = L /\ \A b \in L : BlockGraph[b] = Onward(b, Returns, L)
    BY <1>5 DEF returns
<1>14. L = Reached(Returns, L)
    BY <1>12 DEF step, returns
<1> QED BY <1>12, <1>13, <1>14

\* The blocks and edges of the program.
Graph ==
    /\ Blocks \subseteq All
    /\ 1 \in Blocks
    /\ \A b \in Blocks : Successors(b) = Onward(b, Returns, Blocks) /\ Successors(b) \subseteq Blocks
    /\ \A K : /\ 1 \in K
              /\ \A b \in K \cap Blocks : Successors(b) \subseteq K
              => Blocks \subseteq K

LEMMA GraphFacts ==
    ASSUME IsProgram(prog), succ = BlockGraph
    PROVE  Graph
<1>1. PICK L \in SUBSET All :
          /\ DOMAIN BlockGraph = L
          /\ \A b \in L : BlockGraph[b] = Onward(b, Returns, L)
          /\ L = Reached(Returns, L)
    BY BlockGraphFacts
<1>2. Blocks = L /\ \A b \in L : Successors(b) = Onward(b, Returns, L)
    BY <1>1 DEF Blocks, Successors
<1>3. /\ 1 \in L
      /\ \A b \in L : Onward(b, Returns, L) \subseteq L
      /\ \A K : /\ 1 \in K
                /\ \A b \in K \cap All : Onward(b, Returns, L) \subseteq K
                => L \subseteq K
    BY <1>1, ReachedFacts
<1>4. ASSUME NEW K, 1 \in K, \A b \in K \cap Blocks : Successors(b) \subseteq K
      PROVE  Blocks \subseteq K
    <2>1. \A b \in (K \cap L) \cap All : Onward(b, Returns, L) \subseteq K \cap L
        BY <1>2, <1>3, <1>4
    <2>2. L \subseteq K \cap L
        BY <1>3, <1>4, <2>1
    <2> QED BY <1>2, <2>2
<1>5. Blocks \subseteq All /\ 1 \in Blocks
    BY <1>1, <1>2, <1>3
<1>6. \A b \in Blocks : Successors(b) = Onward(b, Returns, Blocks) /\ Successors(b) \subseteq Blocks
    BY <1>2, <1>3
<1> QED BY <1>4, <1>5, <1>6 DEF Graph

-----------------------------------------------------------------------------
(* Sequences of blocks, by the blocks they hold.                           *)

Held(w) == {w[i] : i \in DOMAIN w}

LEMMA HeldOfBoth ==
    ASSUME NEW S, NEW s \in Seq(S), NEW t \in Seq(S)
    PROVE  s \o t \in Seq(S) /\ Held(s \o t) = Held(s) \union Held(t)
<1>1. s \o t \in Seq(S) /\ Len(s \o t) = Len(s) + Len(t)
    OBVIOUS
<1>2. \A i \in DOMAIN s : i \in DOMAIN (s \o t) /\ (s \o t)[i] = s[i]
    OBVIOUS
<1>3. ASSUME NEW i \in DOMAIN t
      PROVE  Len(s) + i \in DOMAIN (s \o t) /\ (s \o t)[Len(s) + i] = t[i]
    OBVIOUS
<1>4. ASSUME NEW i \in DOMAIN (s \o t) PROVE (s \o t)[i] \in Held(s) \union Held(t)
    <2>1. CASE i <= Len(s)
        BY <2>1 DEF Held
    <2>2. CASE i > Len(s)
        <3>1. i - Len(s) \in DOMAIN t /\ (s \o t)[i] = t[i - Len(s)]
            BY <2>2
        <3> QED BY <3>1 DEF Held
    <2> QED BY <2>1, <2>2
<1>5. Held(s) \union Held(t) \subseteq Held(s \o t)
    BY <1>2, <1>3 DEF Held
<1>6. Held(s \o t) \subseteq Held(s) \union Held(t)
    BY <1>4 DEF Held
<1> QED BY <1>1, <1>5, <1>6

LEMMA HeldOnTop ==
    ASSUME NEW S, NEW w \in Seq(S), w # <<>>
    PROVE  LET top   == w[Len(w)]
               below == SubSeq(w, 1, Len(w) - 1)
           IN  /\ top \in S
               /\ below \in Seq(S)
               /\ Held(w) = Held(below) \union {top}
<1> DEFINE top == w[Len(w)]
           below == SubSeq(w, 1, Len(w) - 1)
<1>1. Len(w) \in Nat \ {0} /\ Len(w) \in DOMAIN w /\ top \in S
    OBVIOUS
<1>2. /\ below \in Seq(S)
      /\ DOMAIN below = 1..(Len(w) - 1)
      /\ \A i \in 1..(Len(w) - 1) : below[i] = w[i]
    <2>1. Len(w) - 1 \in Nat /\ 1..(Len(w) - 1) \subseteq DOMAIN w
        BY <1>1
    <2>2. \A i \in 1..(Len(w) - 1) : w[i] \in S
        BY <2>1
    <2>3. below = [i \in 1..(Len(w) - 1) |-> w[i]]
        BY <1>1
    <2>4. below \in [1..(Len(w) - 1) -> S]
        <3> HIDE DEF below
        <3> QED BY <2>2, <2>3
    <2>5. DOMAIN below = 1..(Len(w) - 1) /\ \A i \in 1..(Len(w) - 1) : below[i] = w[i]
        <3> HIDE DEF below
        <3> QED BY <2>3
    <2>6. below \in Seq(S)
        <3> HIDE DEF below
        <3> QED BY <2>1, <2>4
    <2> QED BY <2>5, <2>6
<1>3. DOMAIN w = 1..(Len(w) - 1) \union {Len(w)}
    <2>1. DOMAIN w = 1..Len(w)
        OBVIOUS
    <2>2. \A n \in Nat \ {0} : 1..n = 1..(n - 1) \union {n}
        OBVIOUS
    <2> QED BY <1>1, <2>1, <2>2
<1> HIDE DEF below
<1>4. Held(w) = Held(below) \union {top}
    BY <1>2, <1>3 DEF Held
<1> QED BY <1>1, <1>2, <1>4 DEF below

LEMMA InOrderFacts ==
    ASSUME prog.blocks \in Seq(Block), NEW S
    PROVE  InOrder(S) \in Seq(S \cap All) /\ Held(InOrder(S)) = S \cap All
<1> DEFINE D == Seq(S \cap All)
           N == Len(prog.blocks)
           step(n, w) == IF n \in S THEN Append(w, n) ELSE w
           G == [x \in (1..N) \X D |-> step(x[1], x[2])]
           F(f) == [n \in 0..N |-> IF n = 0 THEN <<>>
                                   ELSE IF n \in S THEN Append(f[n - 1], n) ELSE f[n - 1]]
           upto == CHOOSE f : f = F(f)
<1>1. N \in Nat
    BY BlocksAreFinite
<1>2. \A n \in 1..N, w \in D : step(n, w) \in D
    BY DEF All
<1>3. PICK f \in [0..N -> D] : f[0] = <<>> /\ \A n \in 1..N : f[n] = step(n, f[n - 1])
    <2>1. G \in [(1..N) \X D -> D]
        <3> HIDE DEF step, D, N
        <3> QED BY <1>2
    <2>2. <<>> \in D
        OBVIOUS
    <2>3. \E f \in [0..N -> D] : StepByStep(f, <<>>, N, G)
        <3> HIDE DEF D, G, N
        <3> QED BY <1>1, <2>1, <2>2, RecursionUpTo
    <2>4. PICK f \in [0..N -> D] : StepByStep(f, <<>>, N, G)
        BY <2>3
    <2>5. ASSUME NEW n \in 1..N PROVE f[n] = step(n, f[n - 1])
        <3>1. n - 1 \in 0..N
            BY <1>1
        <3>2. f[n - 1] \in D
            BY <2>4, <3>1
        <3>3. f[n] = G[<<n, f[n - 1]>>]
            BY <2>4 DEF StepByStep
        <3> HIDE DEF step, D, N
        <3> QED BY <3>2, <3>3
    <2>6. f[0] = <<>>
        BY <2>4 DEF StepByStep
    <2> QED BY <2>4, <2>5, <2>6
<1>4. f = F(f)
    <2>1. ASSUME NEW n \in 0..N PROVE f[n] = F(f)[n]
        <3>1. CASE n = 0
            BY <1>3, <3>1
        <3>2. CASE n # 0
            <4>1. n \in 1..N
                BY <1>1, <3>2
            <4> QED BY <1>3, <3>2, <4>1
        <3> QED BY <3>1, <3>2
    <2> QED BY <1>3, <2>1
<1>5. upto = F(upto)
    <2> HIDE DEF F
    <2> QED BY <1>4
<1>6. InOrder(S) = upto[N]
    BY DEF InOrder
<1> HIDE DEF upto
<1>7. upto[0] = <<>> /\ \A n \in 1..N : upto[n] = step(n, upto[n - 1])
    <2>1. 0 \in 0..N /\ \A n \in 1..N : n \in 0..N /\ n # 0
        BY <1>1
    <2> HIDE DEF N
    <2> QED BY <1>5, <2>1
<1> DEFINE T == {n \in Nat : n <= N => upto[n] \in D /\ Held(upto[n]) = S \cap (1..n)}
<1>8. \A n \in Nat : n \in T
    <2>1. 0 \in T
        <3>1. Held(<<>>) = {}
            BY DEF Held
        <3>2. S \cap (1..0) = {} /\ <<>> \in Seq(S \cap All) /\ 0 \in Nat
            OBVIOUS
        <3>3. upto[0] = <<>>
            BY <1>7
        <3> HIDE DEF N, step
        <3> QED BY <3>1, <3>2, <3>3
    <2>2. ASSUME NEW n \in Nat, n \in T PROVE n + 1 \in T
        <3> SUFFICES ASSUME n + 1 <= N
                     PROVE  upto[n + 1] \in D /\ Held(upto[n + 1]) = S \cap (1..(n + 1))
            OBVIOUS
        <3>1. n + 1 \in 1..N /\ (n + 1) - 1 = n /\ n <= N
            BY <1>1
        <3>2. upto[n] \in D /\ Held(upto[n]) = S \cap (1..n)
            BY <2>2, <3>1
        <3>3. upto[n + 1] = step(n + 1, upto[n])
            <4> HIDE DEF step, N
            <4> QED BY <1>7, <3>1
        <3>4. 1..(n + 1) = 1..n \union {n + 1}
            OBVIOUS
        <3>5. CASE n + 1 \in S
            <4>1. upto[n + 1] = Append(upto[n], n + 1)
                BY <3>3, <3>5
            <4>2. n + 1 \in S \cap All
                BY <3>1, <3>5 DEF All
            <4>3. ASSUME NEW s \in Seq(S \cap All), NEW x \in S \cap All
                  PROVE  Append(s, x) \in Seq(S \cap All) /\ Held(Append(s, x)) = Held(s) \union {x}
                <5>1. DOMAIN Append(s, x) = DOMAIN s \union {Len(s) + 1}
                    OBVIOUS
                <5>2. /\ \A i \in DOMAIN s : Append(s, x)[i] = s[i]
                      /\ Append(s, x)[Len(s) + 1] = x
                    OBVIOUS
                <5> QED BY <5>1, <5>2 DEF Held
            <4> QED BY <3>2, <3>4, <3>5, <4>1, <4>2, <4>3
        <3>6. CASE n + 1 \notin S
            BY <3>2, <3>3, <3>4, <3>6
        <3> QED BY <3>5, <3>6
    <2> HIDE DEF T
    <2> QED BY <2>1, <2>2, NumberInduction
<1>9. upto[N] \in D /\ Held(upto[N]) = S \cap (1..N)
    BY <1>1, <1>8
<1> QED BY <1>6, <1>9 DEF All

-----------------------------------------------------------------------------
(* The program does not change.                                            *)

\* What is made of the text of the program is made of it again.
LEMMA SameText ==
    ASSUME prog' = prog
    PROVE  /\ All' = All
           /\ \A b : B(b)' = B(b) /\ Arms(b)' = Arms(b) /\ Following(b)' = Following(b)
           /\ \A b : Flow(b)' = Flow(b) /\ Defines(b)' = Defines(b) /\ Seeds(b)' = Seeds(b)
           /\ \A b : Reads(b)' = Reads(b)
<1>1. All' = All
    BY DEF All
<1>2. \A b : B(b)' = B(b)
    BY DEF B
<1>3. \A b : Arms(b)' = Arms(b)
    BY <1>2 DEF Arms
<1>4. \A b : Following(b)' = Following(b)
    BY <1>1 DEF Following
<1>5. \A b : Flow(b)' = Flow(b)
    BY <1>2, <1>3, <1>4 DEF Flow
<1>6. \A b : Defines(b)' = Defines(b)
    BY <1>2 DEF Defines, PhisOf
<1>7. \A b : Seeds(b)' = Seeds(b)
    BY DEF Seeds
<1>8. \A b : Reads(b)' = Reads(b)
    BY <1>2 DEF Reads, Tests
<1> QED BY <1>1, <1>2, <1>3, <1>4, <1>5, <1>6, <1>7, <1>8

LEMMA SameClosure ==
    ASSUME prog' = prog
    PROVE  \A S, next : Closure(S, next)' = Closure(S, next)
BY DEF Closure

LEMMA SameGraph ==
    ASSUME prog' = prog
    PROVE  BlockGraph' = BlockGraph
<1>1. \A S : Routine(S)' = Routine(S)
    BY SameText, SameClosure DEF Routine
<1>2. Returns' = Returns
    BY <1>1, SameText DEF Returns
<1>3. \A b, r, live : Onward(b, r, live)' = Onward(b, r, live)
    BY SameText DEF Onward
<1>4. \A r, live : Reached(r, live)' = Reached(r, live)
    <2> TAKE r, live
    <2>1. [b \in All |-> Onward(b, r, live)]' = [b \in All |-> Onward(b, r, live)]
        BY <1>3, SameText
    <2> QED BY <2>1, SameClosure DEF Reached
<1> DEFINE F(f) == [n \in Nat |-> IF n = 0 THEN All ELSE Reached(Returns, f[n - 1])]
           gated == CHOOSE f : f = F(f)
           blocks == gated[Len(prog.blocks)]
<1>5. \A f : F(f)' = F(f)
    BY <1>2, <1>4, SameText
<1>6. gated' = gated
    BY <1>5
<1>7. blocks' = blocks
    BY <1>6
<1>8. BlockGraph = [b \in blocks |-> Onward(b, Returns, blocks)]
    BY DEF BlockGraph
<1>9. BlockGraph' = [b \in blocks' |-> Onward(b, Returns, blocks)']
    BY DEF BlockGraph
<1> HIDE DEF blocks
<1>10. \A b : Onward(b, Returns, blocks)' = Onward(b, Returns, blocks)
    BY <1>2, <1>7, SameText DEF Onward
<1> QED BY <1>7, <1>8, <1>9, <1>10

-----------------------------------------------------------------------------
(* The machine: a run stays in the block graph, its frames are of calls in *)
(* it, and what it holds are integers of the AVM.                          *)

\* The integers that operations make.
LEMMA Quotients ==
    \A m \in Nat, n \in Nat \ {0} : /\ m \div n \in Nat /\ m \div n <= m
                                   /\ m % n \in Nat /\ m % n < n
OBVIOUS

LEMMA ResultTypes ==
    ASSUME NEW e \in [Leaves -> Uint], NEW l \in Leaves, ~ Fails(l, e)
    PROVE  Results(l, e) \subseteq Uint
<1> DEFINE m == Makes[l]
<1>1. /\ m.op \in {"read", "int", "bytes", "len"} \union Arith \union ByteOps
      /\ m.ins \in Seq(Leaves) /\ m.imm \in Seq(Nat)
    BY MakesIsOperation
<1>2. /\ m.op \in Arith => Len(m.ins) = 2
      /\ m.op = "len" => Len(m.ins) = 1
      /\ m.op \in ByteOps => Len(m.ins) \in {1, 2, 3}
    <2>1. LET Takes(ins, imm) == Len(m.ins) = ins /\ Len(m.imm) = imm
          IN  CASE m.op \in {"int", "bytes"}         -> Takes(0, 1)
                [] m.op = "len"                      -> Takes(1, 0)
                [] m.op \in {"extract", "substring"} -> Takes(1, 2)
                [] m.op \in Arith \union {"getbyte", "extract_uint16"} -> Takes(2, 0)
                [] m.op \in {"extract3", "substring3", "setbyte"}      -> Takes(3, 0)
                [] OTHER                             -> TRUE
        BY MakesHasOperands
    <2> HIDE DEF m
    <2> QED BY <2>1 DEF Arith, ByteOps, Slices
<1>3. ~ Fail(m, e) /\ Results(l, e) = Outputs(m, e, Readable[l])
    BY DEF Fails, Results
<1>4. Readable[l] \subseteq Uint
    BY ReadableAreUints DEF Leaves, Uint
<1> HIDE DEF m
<1>5. CASE m.op \in Arith
    <2>1. 1 \in DOMAIN m.ins /\ 2 \in DOMAIN m.ins
        BY <1>1, <1>2, <1>5
    <2>2. Left(m, e) \in Uint /\ Right(m, e) \in Uint
        BY <1>1, <2>1 DEF Left, Right
    <2> DEFINE x == Left(m, e)
               y == Right(m, e)
    <2>3. x \in Nat /\ y \in Nat /\ x <= MaxInt /\ y <= MaxInt /\ MaxInt \in Nat
        BY <2>2, MaxIntIsPositive DEF Uint
    <2>4. CASE m.op = "+"
        <3>1. Outputs(m, e, Readable[l]) = {x + y} /\ ~ (x + y > MaxInt)
            BY <1>3, <2>4 DEF Outputs, Fail, ByteOps, Slices
        <3> HIDE DEF x, y
        <3> QED BY <1>3, <2>3, <3>1 DEF Uint
    <2>5. CASE m.op = "-"
        <3>1. Outputs(m, e, Readable[l]) = {x - y} /\ ~ (x < y)
            BY <1>3, <2>5 DEF Outputs, Fail, ByteOps, Slices
        <3> HIDE DEF x, y
        <3> QED BY <1>3, <2>3, <3>1 DEF Uint
    <2>6. CASE m.op = "*"
        <3>1. Outputs(m, e, Readable[l]) = {x * y} /\ ~ (x * y > MaxInt)
            BY <1>3, <2>6 DEF Outputs, Fail, ByteOps, Slices
        <3> HIDE DEF x, y
        <3>2. x * y \in Nat
            BY <2>3
        <3> QED BY <1>3, <2>3, <3>1, <3>2 DEF Uint
    <2>7. CASE m.op = "/"
        <3>1. Outputs(m, e, Readable[l]) = {x \div y} /\ ~ (y = 0)
            BY <1>3, <2>7 DEF Outputs, Fail, ByteOps, Slices
        <3> HIDE DEF x, y
        <3>2. x \div y \in Nat /\ x \div y <= x
            BY <2>3, <3>1, Quotients
        <3> QED BY <1>3, <2>3, <3>1, <3>2 DEF Uint
    <2>8. CASE m.op = "%"
        <3>1. Outputs(m, e, Readable[l]) = {x % y} /\ ~ (y = 0)
            BY <1>3, <2>8 DEF Outputs, Fail, ByteOps, Slices
        <3> HIDE DEF x, y
        <3>2. x % y \in Nat /\ x % y < y
            BY <2>3, <3>1, Quotients
        <3> QED BY <1>3, <2>3, <3>1, <3>2 DEF Uint
    <2> QED BY <1>5, <2>4, <2>5, <2>6, <2>7, <2>8 DEF Arith
<1>6. CASE m.op = "len"
    <2>1. 1 \in DOMAIN m.ins
        BY <1>1, <1>2, <1>6
    <2>2. e[m.ins[1]] \in Uint
        BY <1>1, <2>1
    <2>3. Outputs(m, e, Readable[l]) = {e[m.ins[1]]}
        BY <1>6 DEF Outputs, Slices
    <2> QED BY <1>3, <2>2, <2>3
<1>7. CASE m.op \in ByteOps
    <2>1. Len(m.ins) \in DOMAIN m.ins
        <3>1. Len(m.ins) \in {1, 2, 3} /\ DOMAIN m.ins = 1..Len(m.ins)
            BY <1>1, <1>2, <1>7
        <3>2. \A n \in {1, 2, 3} : n \in 1..n
            OBVIOUS
        <3> QED BY <3>1, <3>2
    <2>2. e[BufferOf(m)] \in Uint
        BY <1>1, <2>1 DEF BufferOf
    <2>3. CASE m.op = "setbyte"
        BY <1>3, <2>2, <2>3 DEF Outputs, Slices
    <2>4. CASE m.op \in {"getbyte", "extract_uint16"}
        <3>1. Outputs(m, e, Readable[l]) = Readable[l]
            BY <2>4 DEF Outputs, Slices
        <3> QED BY <1>3, <1>4, <3>1
    <2>5. CASE m.op \in Slices
        <3> DEFINE w == Window(m, e)
        <3>1. /\ Outputs(m, e, Readable[l]) = {w.to - w.from}
              /\ w.from <= w.to /\ w.to <= e[BufferOf(m)]
            BY <1>3, <2>5 DEF Outputs, Fail, Slices, ByteOps
        <3>2. w.from \in Nat /\ w.to \in Nat
            <4>1. \A i \in DOMAIN m.ins : e[m.ins[i]] \in Nat
                BY <1>1 DEF Uint
            <4>2. \A i \in DOMAIN m.imm : m.imm[i] \in Nat
                BY <1>1
            <4>3. e[BufferOf(m)] \in Nat
                BY <2>2 DEF Uint
            <4>4. m.op \in {"extract", "substring"} => 1 \in DOMAIN m.imm /\ 2 \in DOMAIN m.imm
                <5>1. m.op \in {"extract", "substring"} => Len(m.imm) = 2
                    BY MakesHasOperands DEF m, Arith
                <5> QED BY <1>1, <5>1
            <4>5. m.op \in {"extract3", "substring3"} => 1 \in DOMAIN m.ins /\ 2 \in DOMAIN m.ins
                <5>1. m.op \in {"extract3", "substring3"} => Len(m.ins) = 3
                    BY MakesHasOperands DEF m, Arith
                <5> QED BY <1>1, <5>1
            <4>6. CASE m.op = "extract"
                BY <4>2, <4>3, <4>4, <4>6 DEF Window
            <4>7. CASE m.op = "substring"
                BY <4>2, <4>4, <4>7 DEF Window
            <4>8. CASE m.op = "extract3"
                BY <4>1, <4>5, <4>8 DEF Window
            <4>9. CASE m.op = "substring3"
                BY <4>1, <4>5, <4>9 DEF Window
            <4> QED BY <2>5, <4>6, <4>7, <4>8, <4>9 DEF Slices
        <3> HIDE DEF w
        <3>3. w.to - w.from \in Uint
            <4>1. e[BufferOf(m)] \in Nat /\ e[BufferOf(m)] <= MaxInt /\ MaxInt \in Nat
                BY <2>2, MaxIntIsPositive DEF Uint
            <4> QED BY <3>1, <3>2, <4>1 DEF Uint
        <3> QED BY <1>3, <3>1, <3>3
    <2> QED BY <1>7, <2>3, <2>4, <2>5 DEF ByteOps
<1>8. CASE m.op \in {"read", "int", "bytes"}
    <2>1. Outputs(m, e, Readable[l]) = Readable[l]
        BY <1>8 DEF Outputs, Slices
    <2> QED BY <1>3, <1>4, <2>1
<1> QED BY <1>1, <1>5, <1>6, <1>7, <1>8

LEMMA ReadingTypes ==
    ASSUME NEW e \in [Leaves -> Uint], NEW S \in SUBSET Leaves, NEW read \in Readings(S, e)
    PROVE  \A l \in S : read[l] \in Uint
<1> TAKE l \in S
<1>1. read[l] \in IF Fails(l, e) THEN {0} ELSE Results(l, e)
    BY DEF Readings
<1>2. 0 \in Uint
    BY MaxIntIsPositive DEF Uint
<1> QED BY <1>1, <1>2, ResultTypes

\* The call a frame is of: the one that continues where the frame does.
Site(f) == CHOOSE c \in All : Following(c) = f.cont

LEMMA SiteFacts ==
    ASSUME NEW f, NEW c \in All, f.cont = Following(c)
    PROVE  Site(f) = c
<1>1. \A b, d \in All : Following(b) = Following(d) => b = d
    <2> SUFFICES ASSUME NEW b \in All, NEW d \in All, Following(b) = Following(d), b # d
                 PROVE  FALSE
        OBVIOUS
    <2>1. b \in Int /\ d \in Int
        BY DEF All
    <2>2. CASE b < d
        <3>1. b + 1 \in All
            BY <2>1, <2>2 DEF All
        <3>2. b + 1 \in Following(d)
            BY <3>1 DEF Following
        <3> QED BY <2>1, <2>2, <3>2 DEF Following
    <2>3. CASE d < b
        <3>1. d + 1 \in All
            BY <2>1, <2>3 DEF All
        <3>2. d + 1 \in Following(b)
            BY <3>1 DEF Following
        <3> QED BY <2>1, <2>3, <3>2 DEF Following
    <2> QED BY <2>1, <2>2, <2>3
<1>2. Site(f) \in All /\ Following(Site(f)) = f.cont
    BY DEF Site
<1> QED BY <1>1, <1>2

\* Where the routine called by the i-th frame is: in the block the run is in, or in its
\* own call.
Inner(i) == IF i = Len(frames) THEN at ELSE Site(frames[i + 1])

Frame == [cont : SUBSET All, own : SUBSET Leaves, env : [Leaves -> Uint]]

MachineInv ==
    /\ prog \in Programs /\ succ = BlockGraph
    /\ mode \in {"analyse", "run", "halted"}
    /\ at \in Blocks
    /\ env \in [Leaves -> Uint]
    /\ own \subseteq Leaves
    /\ frames \in Seq(Frame)
    /\ mode = "analyse" => frames = <<>>
    /\ \A i \in DOMAIN frames :
           /\ Site(frames[i]) \in Blocks
           /\ B(Site(frames[i])).op = "callsub"
           /\ frames[i].cont = Following(Site(frames[i]))
           /\ Inner(i) \in Routine(Arms(Site(frames[i])))

LEMMA MachineGraph ==
    ASSUME prog \in Programs, succ = BlockGraph
    PROVE  IsProgram(prog) /\ prog.blocks \in Seq(Block) /\ Graph
BY ProgramsArePrograms, GraphFacts, FlowTypes

\* A routine is closed under the steps inside it.
LEMMA RoutineFacts ==
    ASSUME IsProgram(prog), NEW S \in SUBSET All
    PROVE  /\ Routine(S) \subseteq All
           /\ S \subseteq Routine(S)
           /\ \A b \in Routine(S) : Flow(b) \subseteq Routine(S)
<1> DEFINE next == [b \in All |-> Flow(b)]
<1>1. next \in [All -> SUBSET All] /\ prog.blocks \in Seq(Block)
    BY FlowTypes
<1>2. Routine(S) = Closure(S, next) /\ \A b \in All : next[b] = Flow(b)
    BY DEF Routine
<1> HIDE DEF next
<1>3. /\ Closure(S, next) \subseteq All
      /\ S \subseteq Closure(S, next)
      /\ \A b \in Closure(S, next) : next[b] \subseteq Closure(S, next)
    BY <1>1, ClosureFacts
<1> QED BY <1>2, <1>3

\* A step leads along an edge, inside the routine.
LEMMA TakenFacts ==
    ASSUME IsProgram(prog), Graph, NEW a \in Blocks, NEW b \in Taken(a)
    PROVE  /\ b \in Flow(a) /\ b \in Successors(a) /\ b \in Blocks
           /\ B(a).op \notin {"callsub", "retsub", "return"}
<1>1. a \in All /\ B(a) \in Block
    BY FlowTypes DEF Graph
<1>2. B(a).op \in BlockOps \ {"callsub", "retsub", "return"}
    BY <1>1 DEF Taken, Block, BlockOps, Conditional, MultiWay
<1>3. b \in Flow(a)
    <2>1. CASE B(a).op \in MultiWay
        <3>1. Taken(a) = IF Matching(a) = {} THEN Following(a)
                         ELSE {B(a).arms[MinOf(Matching(a))]}
            BY <2>1 DEF Taken, MultiWay
        <3>2. Matching(a) # {} => MinOf(Matching(a)) \in DOMAIN B(a).arms
            <4> SUFFICES ASSUME Matching(a) # {} PROVE MinOf(Matching(a)) \in DOMAIN B(a).arms
                OBVIOUS
            <4>1. Matching(a) \subseteq DOMAIN B(a).arms
                BY DEF Matching
            <4>2. Matching(a) \subseteq Nat
                BY <1>1, <4>1 DEF Block
            <4>3. \E x \in Matching(a) : \A y \in Matching(a) : x <= y
                BY <4>2, LeastNumber
            <4>4. MinOf(Matching(a)) \in Matching(a)
                BY <4>3 DEF MinOf
            <4> QED BY <4>1, <4>4
        <3>3. b \in Arms(a) \union Following(a)
            BY <3>1, <3>2 DEF Arms
        <3>4. Flow(a) = Arms(a) \union Following(a)
            BY <2>1 DEF Flow, MultiWay, Conditional
        <3> QED BY <3>3, <3>4
    <2>2. CASE B(a).op \in Conditional
        <3>1. b \in Arms(a) \union Following(a)
            BY <2>2 DEF Taken, Conditional, MultiWay
        <3>2. Flow(a) = Arms(a) \union Following(a)
            BY <2>2 DEF Flow, MultiWay, Conditional
        <3> QED BY <3>1, <3>2
    <2>3. CASE B(a).op \in {"next", "b", "assert"}
        BY <2>3 DEF Taken, Flow, Conditional, MultiWay
    <2> QED BY <1>2, <2>1, <2>2, <2>3 DEF BlockOps
<1>4. Successors(a) = Flow(a)
    BY <1>2 DEF Graph, Onward
<1> QED BY <1>2, <1>3, <1>4 DEF Graph

\* A call leads along an edge.
LEMMA CallFacts ==
    ASSUME IsProgram(prog), Graph, NEW a \in Blocks, B(a).op = "callsub"
    PROVE  Arms(a) = Successors(a) /\ Arms(a) \subseteq Blocks /\ Arms(a) \subseteq Routine(Arms(a))
<1>1. Arms(a) \subseteq All
    BY FlowTypes DEF Graph
<1> QED BY <1>1, RoutineFacts DEF Graph, Onward

\* So does the return from it.
LEMMA ReturnFacts ==
    ASSUME IsProgram(prog), Graph, NEW r \in Blocks, NEW c \in Blocks,
           B(r).op = "retsub", B(c).op = "callsub", r \in Routine(Arms(c))
    PROVE  Following(c) \subseteq Successors(r) /\ Following(c) \subseteq Blocks
<1>1. <<r, c>> \in Returns
    BY DEF Returns, Graph
<1>2. Following(c) \subseteq Onward(r, Returns, Blocks)
    BY <1>1 DEF Onward
<1> QED BY <1>2 DEF Graph

\* What a block that is entered leaves.
LEMMA EnterFacts ==
    ASSUME IsProgram(prog), NEW b \in All, NEW e \in [Leaves -> Uint], NEW d \in SUBSET Leaves,
           Enter(b, e, d)
    PROVE  /\ at' = b /\ mode' = "run" /\ own' = d \union Defines(b)
           /\ own' \subseteq Leaves
           /\ env' \in [Leaves -> Uint]
           /\ \A l \in Leaves \ B(b).defs : env'[l] = e[l]
           /\ \A p \in Seeds(b) : Holds(p, env')
           /\ UNCHANGED program
<1>1. B(b).defs \subseteq Leaves /\ PhisOf(b) \subseteq Leaves
    <2>1. B(b) \in Block
        BY FlowTypes
    <2> QED BY <2>1 DEF Block, PhisOf
<1>2. /\ at' = b /\ mode' = "run" /\ own' = d \union Defines(b) /\ UNCHANGED program
      /\ \A p \in Seeds(b) : Holds(p, env')
    BY DEF Enter
<1>3. own' \subseteq Leaves
    BY <1>1, <1>2 DEF Defines
<1>4. PICK read \in Readings(B(b).defs, e) :
          env' = [l \in Leaves |-> IF l \in B(b).defs THEN read[l] ELSE e[l]]
    BY DEF Enter
<1>5. \A l \in B(b).defs : read[l] \in Uint
    BY <1>1, ReadingTypes
<1>6. env' \in [Leaves -> Uint]
    BY <1>4, <1>5
<1> QED BY <1>2, <1>3, <1>4, <1>6

LEMMA SameSite ==
    ASSUME UNCHANGED program
    PROVE  /\ \A f : Site(f)' = Site(f)
           /\ \A S : Routine(S)' = Routine(S)
<1>1. prog' = prog
    BY DEF program
<1>2. \A b : Following(b)' = Following(b) /\ All' = All
    BY <1>1, SameText
<1>3. \A f : Site(f)' = Site(f)
    BY <1>2 DEF Site
<1>4. \A S : Routine(S)' = Routine(S)
    BY <1>1, SameText, SameClosure DEF Routine
<1> QED BY <1>3, <1>4

LEMMA MachineInit == InitMachine => MachineInv
<1> SUFFICES ASSUME InitMachine PROVE MachineInv
    OBVIOUS
<1>1. prog \in Programs /\ succ = BlockGraph /\ Graph
    BY MachineGraph DEF InitMachine
<1>2. 1 \in Blocks /\ 0 \in Uint
    BY <1>1, MaxIntIsPositive DEF Graph, Uint
<1>3. env \in [Leaves -> Uint] /\ own \subseteq Leaves
    BY <1>2 DEF InitMachine
<1>4. frames = <<>> /\ frames \in Seq(Frame) /\ \A i \in DOMAIN frames : FALSE
    BY DEF InitMachine
<1> QED BY <1>1, <1>2, <1>3, <1>4 DEF InitMachine, MachineInv

\* What a run begins with.
LEMMA BeginFacts ==
    ASSUME IsProgram(prog), Begin
    PROVE  \E e \in [Leaves -> Uint] :
               /\ Enter(1, e, {}) /\ \A p \in prog.entry : Holds(p, e)
               /\ \A l \in Fixed : e[l] \in Readable[l]
<1>1. PICK read \in Readings(Fixed \ Constants, [l \in {} |-> 0]) :
          LET e == [l \in Leaves |-> IF l \in Constants THEN Constant(l)
                                     ELSE IF l \in Fixed THEN read[l] ELSE 0] IN
          (\A p \in prog.entry : Holds(p, e)) /\ Enter(1, e, {})
    BY DEF Begin
<1> DEFINE e == [l \in Leaves |-> IF l \in Constants THEN Constant(l)
                                  ELSE IF l \in Fixed THEN read[l] ELSE 0]
<1>2. Fixed \subseteq Leaves /\ 0 \in Uint
    BY FixedAreLeaves, MaxIntIsPositive DEF Leaves, Uint
<1>3. \A l \in Leaves : Readable[l] \subseteq Uint
    BY ReadableAreUints DEF Leaves, Uint
<1>4. \A l \in Constants : Constant(l) \in Uint /\ Constant(l) \in Readable[l]
    <2> TAKE l \in Constants
    <2>1. l \in Leaves /\ (IsInt(l) \/ IsLiteral(l))
        BY <1>2 DEF Constants
    <2>2. Readable[l] = {Constant(l)}
        BY <2>1, ConstantsAreFixed
    <2> QED BY <1>3, <2>1, <2>2
<1>5. \A l \in Fixed \ Constants : read[l] \in Uint /\ read[l] \in Readable[l]
    <2> TAKE l \in Fixed \ Constants
    <2> DEFINE none == [x \in {} |-> 0]
    <2>1. Makes[l].op \in {"read", "int", "bytes"}
        BY FixedAreRead
    <2>2. ~ Fails(l, none) /\ Results(l, none) = Readable[l]
        BY <2>1 DEF Fails, Fail, Results, Outputs, ByteOps, Slices
    <2>3. read[l] \in IF Fails(l, none) THEN {0} ELSE Results(l, none)
        BY <1>1 DEF Readings
    <2> HIDE DEF none
    <2> QED BY <1>2, <1>3, <2>2, <2>3
<1>6. e \in [Leaves -> Uint]
    BY <1>2, <1>4, <1>5
<1>7. \A l \in Fixed : e[l] \in Readable[l]
    BY <1>2, <1>4, <1>5
<1> QED BY <1>1, <1>6, <1>7

\* A block that is entered keeps the machine in order, whatever becomes of the frames.
LEMMA EnterKeeps ==
    ASSUME prog \in Programs, succ = BlockGraph,
           NEW b \in Blocks, NEW e \in [Leaves -> Uint], NEW d \in SUBSET Leaves, Enter(b, e, d),
           frames' \in Seq(Frame),
           \A i \in DOMAIN frames' :
               LET c == Site(frames'[i]) IN
               /\ c \in Blocks /\ B(c).op = "callsub" /\ frames'[i].cont = Following(c)
               /\ (IF i = Len(frames') THEN b ELSE Site(frames'[i + 1])) \in Routine(Arms(c))
    PROVE  MachineInv'
<1>1. IsProgram(prog) /\ Graph
    BY MachineGraph
<1>2. b \in All
    BY <1>1 DEF Graph
<1>3. /\ at' = b /\ mode' = "run" /\ own' \subseteq Leaves /\ env' \in [Leaves -> Uint]
      /\ UNCHANGED program
    BY <1>1, <1>2, EnterFacts
<1>4. prog' = prog /\ succ' = succ /\ BlockGraph' = BlockGraph
    BY <1>3, SameGraph DEF program
<1>5. /\ Blocks' = Blocks /\ All' = All
      /\ \A x : B(x)' = B(x) /\ Following(x)' = Following(x) /\ Arms(x)' = Arms(x)
    BY <1>4, SameText DEF Blocks
<1>6. Frame' = Frame
    BY <1>5 DEF Frame
<1>7. /\ \A f : Site(f)' = Site(f)
      /\ \A S : Routine(S)' = Routine(S)
    BY <1>3, SameSite
<1>8. ASSUME NEW i \in DOMAIN frames'
      PROVE  /\ Site(frames[i])' \in Blocks'
             /\ B(Site(frames[i]))'.op = "callsub"
             /\ frames'[i].cont = Following(Site(frames[i]))'
             /\ Inner(i)' \in Routine(Arms(Site(frames[i])))'
    <2> DEFINE c == Site(frames'[i])
    <2>1. /\ c \in Blocks /\ B(c).op = "callsub" /\ frames'[i].cont = Following(c)
          /\ (IF i = Len(frames') THEN b ELSE Site(frames'[i + 1])) \in Routine(Arms(c))
        BY <1>8
    <2>2. Site(frames[i])' = c /\ Site(frames[i + 1])' = Site(frames'[i + 1])
        BY <1>7
    <2>3. Inner(i)' = IF i = Len(frames') THEN b ELSE Site(frames'[i + 1])
        BY <1>3, <2>2 DEF Inner
    <2>4. /\ B(Site(frames[i]))' = B(c) /\ Following(Site(frames[i]))' = Following(c)
          /\ Routine(Arms(Site(frames[i])))' = Routine(Arms(c))
        BY <1>5, <1>7, <2>2
    <2> HIDE DEF c
    <2> QED BY <1>5, <2>1, <2>2, <2>3, <2>4
<1> QED BY <1>3, <1>4, <1>5, <1>6, <1>8 DEF MachineInv

LEMMA BeginKeeps == MachineInv /\ Begin => MachineInv'
<1> SUFFICES ASSUME MachineInv, Begin PROVE MachineInv'
    OBVIOUS
<1> USE DEF MachineInv
<1>1. IsProgram(prog) /\ Graph
    BY MachineGraph
<1>2. PICK e \in [Leaves -> Uint] : Enter(1, e, {})
    BY <1>1, BeginFacts
<1>3. 1 \in Blocks
    BY <1>1 DEF Graph
<1>4. frames' = <<>> /\ frames' \in Seq(Frame) /\ \A i \in DOMAIN frames' : FALSE
    BY DEF Begin
<1> QED BY <1>2, <1>3, <1>4, EnterKeeps

\* The values a block is entered with.
LEMMA MergedTypes ==
    ASSUME IsProgram(prog), env \in [Leaves -> Uint], NEW a, NEW b \in All,
           NEW e \in [Leaves -> Uint]
    PROVE  Merged(a, b, e) \in [Leaves -> Uint]
<1>1. B(b).phi \in SUBSET ((Leaves \ Fixed) \X Nat \X Leaves)
    BY FlowTypes DEF Block
<1>2. \A t \in B(b).phi : t[3] \in Leaves
    BY <1>1
<1>3. ASSUME NEW l \in Leaves, \E t \in B(b).phi : t[1] = l /\ t[2] = a
      PROVE  (CHOOSE t \in B(b).phi : t[1] = l /\ t[2] = a)[3] \in Leaves
    BY <1>2, <1>3
<1> QED BY <1>3 DEF Merged

LEMMA StepKeeps == MachineInv /\ Step => MachineInv'
<1> SUFFICES ASSUME MachineInv, Step PROVE MachineInv'
    OBVIOUS
<1> USE DEF MachineInv
<1>1. IsProgram(prog) /\ Graph
    BY MachineGraph
<1>2. PICK b \in Taken(at) : Enter(b, Merged(at, b, env), own)
    BY DEF Step
<1>3. b \in Flow(at) /\ b \in Blocks /\ b \in All
    BY <1>1, TakenFacts DEF Graph
<1>4. Merged(at, b, env) \in [Leaves -> Uint]
    BY <1>1, <1>3, MergedTypes
<1>5. frames' = frames
    BY DEF Step
<1>6. ASSUME NEW i \in DOMAIN frames'
      PROVE  LET c == Site(frames'[i]) IN
             /\ c \in Blocks /\ B(c).op = "callsub" /\ frames'[i].cont = Following(c)
             /\ (IF i = Len(frames') THEN b ELSE Site(frames'[i + 1])) \in Routine(Arms(c))
    <2> DEFINE c == Site(frames[i])
    <2>1. /\ c \in Blocks /\ B(c).op = "callsub" /\ frames[i].cont = Following(c)
          /\ (IF i = Len(frames) THEN at ELSE Site(frames[i + 1])) \in Routine(Arms(c))
        BY <1>5, <1>6 DEF Inner
    <2>2. \A x \in Routine(Arms(c)) : Flow(x) \subseteq Routine(Arms(c))
        <3>1. Arms(c) \subseteq All
            BY <1>1, <2>1, FlowTypes DEF Graph
        <3> QED BY <1>1, <3>1, RoutineFacts
    <2> HIDE DEF c
    <2>3. at \in Routine(Arms(c)) => b \in Routine(Arms(c))
        BY <1>3, <2>2
    <2> QED BY <1>5, <2>1, <2>3 DEF c
<1> HIDE DEF MachineInv
<1>7. prog \in Programs /\ succ = BlockGraph /\ own \in SUBSET Leaves /\ frames' \in Seq(Frame)
    BY <1>5 DEF MachineInv
<1> QED BY <1>2, <1>3, <1>4, <1>6, <1>7, EnterKeeps

LEMMA CallKeeps == MachineInv /\ Call => MachineInv'
<1> SUFFICES ASSUME MachineInv, Call PROVE MachineInv'
    OBVIOUS
<1>1. IsProgram(prog) /\ Graph /\ at \in Blocks /\ B(at).op = "callsub"
    BY MachineGraph DEF Call, MachineInv
<1> DEFINE f == [cont |-> Following(at), own |-> own, env |-> env]
           n == Len(frames)
<1>2. PICK b \in Arms(at) : Enter(b, Merged(at, b, env), {})
    BY DEF Call
<1>3. frames' = Append(frames, f)
    BY DEF Call
<1>4. b \in Blocks /\ b \in Routine(Arms(at))
    BY <1>1, CallFacts
<1>5. at \in All /\ Following(at) \subseteq All
    BY <1>1, FlowTypes DEF Graph
<1>6. f \in Frame /\ Site(f) = at
    <2>1. f \in Frame
        BY <1>5 DEF Frame, MachineInv
    <2>2. f.cont = Following(at)
        OBVIOUS
    <2> HIDE DEF f
    <2> QED BY <1>5, <2>1, <2>2, SiteFacts
<1>7. f.cont = Following(at)
    OBVIOUS
<1> HIDE DEF f
<1>8. frames \in Seq(Frame) /\ frames' \in Seq(Frame)
    BY <1>3, <1>6 DEF MachineInv
<1>9. /\ n \in Nat
      /\ Len(frames') = n + 1 /\ DOMAIN frames' = 1 .. n + 1
      /\ frames'[n + 1] = f /\ \A i \in 1..n : frames'[i] = frames[i]
    BY <1>3, <1>6, <1>8
<1>10. ASSUME NEW i \in DOMAIN frames'
       PROVE  LET c == Site(frames'[i]) IN
              /\ c \in Blocks /\ B(c).op = "callsub" /\ frames'[i].cont = Following(c)
              /\ (IF i = Len(frames') THEN b ELSE Site(frames'[i + 1])) \in Routine(Arms(c))
    <2>1. CASE i = n + 1
        BY <1>1, <1>4, <1>6, <1>7, <1>9, <2>1
    <2>2. CASE i \in 1..n
        <3> DEFINE c == Site(frames[i])
        <3>1. /\ c \in Blocks /\ B(c).op = "callsub" /\ frames[i].cont = Following(c)
              /\ (IF i = n THEN at ELSE Site(frames[i + 1])) \in Routine(Arms(c))
            BY <1>8, <2>2 DEF Inner, MachineInv
        <3>2. frames'[i] = frames[i] /\ i # n + 1
            BY <1>9, <2>2
        <3>3. i = n => Site(frames'[i + 1]) = at
            BY <1>6, <1>9
        <3>4. i # n => frames'[i + 1] = frames[i + 1]
            BY <1>9, <2>2
        <3> HIDE DEF c
        <3>5. Site(frames'[i]) = c
            BY <3>2 DEF c
        <3>6. (IF i = Len(frames') THEN b ELSE Site(frames'[i + 1])) \in Routine(Arms(c))
            <4> HIDE DEF n
            <4> QED BY <1>9, <3>1, <3>2, <3>3, <3>4
        <3> QED BY <3>1, <3>2, <3>5, <3>6
    <2> QED BY <1>9, <2>1, <2>2
<1>11. /\ prog \in Programs /\ succ = BlockGraph /\ {} \in SUBSET Leaves
       /\ env \in [Leaves -> Uint]
    BY DEF MachineInv
<1>12. Merged(at, b, env) \in [Leaves -> Uint]
    BY <1>1, <1>4, <1>11, MergedTypes DEF Graph
<1> QED BY <1>2, <1>4, <1>8, <1>10, <1>11, <1>12, EnterKeeps

LEMMA ReturnKeeps == MachineInv /\ Return => MachineInv'
<1> SUFFICES ASSUME MachineInv, Return PROVE MachineInv'
    OBVIOUS
<1>1. IsProgram(prog) /\ Graph /\ at \in Blocks /\ B(at).op = "retsub" /\ frames # <<>>
    BY MachineGraph DEF Return, MachineInv
<1> DEFINE n == Len(frames)
           f == frames[n]
           e == [l \in Leaves |-> IF l \in f.own THEN f.env[l] ELSE env[l]]
<1>2. frames \in Seq(Frame) /\ n \in Nat /\ n # 0 /\ n \in DOMAIN frames /\ f \in Frame
    BY <1>1 DEF MachineInv
<1>3. frames' = SubSeq(frames, 1, n - 1)
    BY DEF Return
<1>4. PICK b \in f.cont : Enter(b, Merged(at, b, e), f.own)
    BY DEF Return
<1>5. /\ Site(f) \in Blocks /\ B(Site(f)).op = "callsub" /\ f.cont = Following(Site(f))
      /\ at \in Routine(Arms(Site(f)))
    BY <1>2 DEF MachineInv, Inner
<1>6. e \in [Leaves -> Uint] /\ f.own \in SUBSET Leaves
    BY <1>2 DEF Frame, MachineInv
<1>7. b \in Following(Site(f)) /\ b \in Blocks
    BY <1>1, <1>4, <1>5, ReturnFacts
<1> HIDE DEF e, f
<1>8. b \in Flow(Site(f))
    BY <1>5, <1>7 DEF Flow
<1>9. /\ frames' \in Seq(Frame) /\ Len(frames') = n - 1 /\ DOMAIN frames' = 1 .. n - 1
      /\ \A i \in 1 .. n - 1 : frames'[i] = frames[i]
    <2> HIDE DEF n
    <2>1. n - 1 \in Nat /\ n - 1 <= Len(frames)
        BY <1>2 DEF n
    <2>2. \A i \in 1 .. n - 1 : frames[i] \in Frame
        BY <1>2, <2>1
    <2> QED BY <1>2, <1>3, <2>1, <2>2
<1>10. ASSUME NEW i \in DOMAIN frames'
       PROVE  LET c == Site(frames'[i]) IN
              /\ c \in Blocks /\ B(c).op = "callsub" /\ frames'[i].cont = Following(c)
              /\ (IF i = Len(frames') THEN b ELSE Site(frames'[i + 1])) \in Routine(Arms(c))
    <2> DEFINE c == Site(frames[i])
    <2>1. i \in 1 .. n - 1 /\ i \in DOMAIN frames /\ i # n /\ frames'[i] = frames[i]
        BY <1>2, <1>9
    <2>2. /\ c \in Blocks /\ B(c).op = "callsub" /\ frames[i].cont = Following(c)
          /\ Site(frames[i + 1]) \in Routine(Arms(c))
        BY <2>1 DEF Inner, MachineInv
    <2>3. \A x \in Routine(Arms(c)) : Flow(x) \subseteq Routine(Arms(c))
        <3>1. Arms(c) \subseteq All
            BY <1>1, <2>2, FlowTypes DEF Graph
        <3> QED BY <1>1, <3>1, RoutineFacts
    <2> HIDE DEF c
    <2>4. i = n - 1 => frames[i + 1] = f
        BY <1>2 DEF f
    <2>5. i = n - 1 => b \in Routine(Arms(c))
        BY <1>8, <2>2, <2>3, <2>4
    <2>6. i # n - 1 => frames'[i + 1] = frames[i + 1]
        BY <1>2, <1>9, <2>1
    <2>7. Site(frames'[i]) = c
        BY <2>1 DEF c
    <2>8. (IF i = Len(frames') THEN b ELSE Site(frames'[i + 1])) \in Routine(Arms(c))
        <3> HIDE DEF n
        <3> QED BY <1>9, <2>2, <2>5, <2>6
    <2> QED BY <2>1, <2>2, <2>7, <2>8
<1>11. prog \in Programs /\ succ = BlockGraph
    BY DEF MachineInv
<1>12. Merged(at, b, e) \in [Leaves -> Uint]
    BY <1>1, <1>6, <1>7, MergedTypes DEF Graph, MachineInv
<1> QED BY <1>4, <1>6, <1>7, <1>9, <1>10, <1>11, <1>12, EnterKeeps

LEMMA StillKeeps ==
    ASSUME MachineInv, UNCHANGED <<program, at, env, own, frames>>,
           mode' \in {"run", "halted"} \/ mode' = mode, mode = "analyse" => mode' = mode
    PROVE  MachineInv'
<1>1. /\ prog' = prog /\ succ' = succ /\ at' = at /\ env' = env /\ own' = own
      /\ frames' = frames /\ UNCHANGED program
    BY DEF program
<1>2. BlockGraph' = BlockGraph /\ Blocks' = Blocks /\ All' = All
    BY <1>1, SameText, SameGraph DEF Blocks
<1>3. Frame' = Frame
    BY <1>2 DEF Frame
<1>4. ASSUME NEW i \in DOMAIN frames'
      PROVE  /\ Site(frames[i])' \in Blocks'
             /\ B(Site(frames[i]))'.op = "callsub"
             /\ frames'[i].cont = Following(Site(frames[i]))'
             /\ Inner(i)' \in Routine(Arms(Site(frames[i])))'
    <2>1. /\ Site(frames[i]) \in Blocks
          /\ B(Site(frames[i])).op = "callsub"
          /\ frames[i].cont = Following(Site(frames[i]))
          /\ Inner(i) \in Routine(Arms(Site(frames[i])))
        BY <1>1, <1>4 DEF MachineInv
    <2>2. Site(frames[i])' = Site(frames[i]) /\ Site(frames[i + 1])' = Site(frames[i + 1])
        BY <1>1, SameSite
    <2>3. Inner(i)' = Inner(i)
        BY <1>1, <2>2 DEF Inner
    <2>4. /\ B(Site(frames[i]))' = B(Site(frames[i]))
          /\ Following(Site(frames[i]))' = Following(Site(frames[i]))
          /\ Routine(Arms(Site(frames[i])))' = Routine(Arms(Site(frames[i])))
        BY <1>1, <2>2, SameText, SameSite
    <2> QED BY <1>1, <1>2, <2>1, <2>2, <2>3, <2>4
<1> QED BY <1>1, <1>2, <1>3, <1>4 DEF MachineInv

\* The machine keeps to its program, and its frames to their calls.
LEMMA MachineStep == MachineInv /\ (Begin \/ Run \/ UNCHANGED machineVars) => MachineInv'
<1> SUFFICES ASSUME MachineInv, Begin \/ Run \/ UNCHANGED machineVars PROVE MachineInv'
    OBVIOUS
<1>1. CASE Halt
    BY <1>1, StillKeeps DEF Halt
<1>2. CASE UNCHANGED machineVars
    BY <1>2, StillKeeps DEF machineVars, runVars
<1> QED BY <1>1, <1>2, BeginKeeps, StepKeeps, CallKeeps, ReturnKeeps DEF Run

-----------------------------------------------------------------------------
(* Calls.  In a program whose routines do not call themselves, what a      *)
(* caller has defined is as it left it when the call returns.              *)

\* The blocks a run may be in while the call at c is in progress.
During(c) ==
    Closure(Arms(c), [b \in All |-> Flow(b) \union (IF B(b).op = "callsub" THEN Arms(b) ELSE {})])

CallsDoNotRecur == \A c \in Blocks : B(c).op = "callsub" => c \notin During(c)

\* The calls in progress, outermost first: each is made during those before it.
Nested ==
    \A i \in DOMAIN frames :
        /\ at \in During(Site(frames[i]))
        /\ \A j \in DOMAIN frames : i < j => Site(frames[j]) \in During(Site(frames[i]))

\* Block b follows a definition of every leaf in S.
Follows(b, S) == \A l \in S : \E d \in Definitions(l) : b \in Routine({d})

OwnFollow ==
    /\ own \subseteq Leaves \ Fixed /\ Follows(at, own)
    /\ \A i \in DOMAIN frames : /\ frames[i].own \subseteq Leaves \ Fixed
                                /\ Follows(Site(frames[i]), frames[i].own)

\* What a caller has defined is as it left it.
ValuesKept ==
    \A i \in DOMAIN frames : \A l \in frames[i].own : env[l] = frames[i].env[l]

\* A routine has defined a leaf, or is where none of its paths has.
OwnComplete ==
    /\ \A l \in Leaves \ Fixed : l \in own \/ at \in Undefined(l)
    /\ \A i \in DOMAIN frames : \A l \in Leaves \ Fixed :
           l \in frames[i].own \/ Site(frames[i]) \in Undefined(l)

Scoped == SingleAssignment /\ PhisHaveArguments /\ CallsDoNotRecur

CallsInv == Nested /\ OwnFollow /\ ValuesKept /\ OwnComplete

\* What the routines in progress have defined.
Defined == own \union UNION {frames[i].own : i \in DOMAIN frames}

Running == mode = "run" /\ MachineInv /\ Scoped /\ CallsInv

LEMMA SameScope ==
    ASSUME UNCHANGED program
    PROVE  /\ Scoped' = Scoped
           /\ \A l : Undefined(l)' = Undefined(l) /\ Definitions(l)' = Definitions(l)
           /\ \A c : During(c)' = During(c)
<1>1. prog' = prog /\ succ' = succ /\ Blocks' = Blocks
    BY DEF program, Blocks
<1>2. \A l : Definitions(l)' = Definitions(l)
    BY <1>1, SameText DEF Definitions
<1>3. Entries' = Entries
    BY <1>1, SameText DEF Entries
<1>4. \A l : Undefined(l)' = Undefined(l)
    <2> TAKE l
    <2>1. [b \in All |-> Flow(b) \ Definitions(l)]' = [b \in All |-> Flow(b) \ Definitions(l)]
        BY <1>1, <1>2, SameText
    <2> QED BY <1>1, <1>2, <1>3, <2>1, SameClosure DEF Undefined
<1>5. \A c : During(c)' = During(c)
    <2> TAKE c
    <2> DEFINE next == [b \in All |-> Flow(b) \union (IF B(b).op = "callsub" THEN Arms(b) ELSE {})]
    <2>1. next' = next
        BY <1>1, SameText
    <2> HIDE DEF next
    <2>2. Closure(Arms(c), next)' = Closure(Arms(c), next)
        BY <1>1, <2>1, SameText, SameClosure
    <2> QED BY <2>2 DEF During, next
<1>6. SingleAssignment' = SingleAssignment
    <2>1. \A b : MergedAt(b)' = MergedAt(b)
        BY <1>1, SameText DEF MergedAt
    <2> QED BY <1>1, <1>2, <1>4, <2>1, SameText DEF SingleAssignment, Successors
<1>7. PhisHaveArguments' = PhisHaveArguments
    <2>1. \A b : PhisOf(b)' = PhisOf(b) /\ B(b)' = B(b)
        BY <1>1, SameText DEF PhisOf
    <2>2. \A b : Predecessors(b)' = Predecessors(b)
        BY <1>1 DEF Predecessors, Successors
    <2> QED BY <1>1, <2>1, <2>2 DEF PhisHaveArguments
<1>8. CallsDoNotRecur' = CallsDoNotRecur
    BY <1>1, <1>5, SameText DEF CallsDoNotRecur
<1> QED BY <1>2, <1>4, <1>5, <1>6, <1>7, <1>8 DEF Scoped

\* A call is closed under the steps and the calls made during it.
LEMMA DuringFacts ==
    ASSUME IsProgram(prog), NEW c \in All
    PROVE  /\ During(c) \subseteq All
           /\ Arms(c) \subseteq During(c)
           /\ \A b \in During(c) : /\ Flow(b) \subseteq During(c)
                                   /\ B(b).op = "callsub" => Arms(b) \subseteq During(c)
                                   /\ Routine({b}) \subseteq During(c)
<1> DEFINE more(b) == Flow(b) \union (IF B(b).op = "callsub" THEN Arms(b) ELSE {})
           next == [b \in All |-> more(b)]
           D == Closure(Arms(c), next)
<1>1. prog.blocks \in Seq(Block) /\ Arms(c) \in SUBSET All
    BY FlowTypes
<1>2. \A b \in All : more(b) \subseteq All
    BY FlowTypes
<1>3. next \in [All -> SUBSET All]
    <2> HIDE DEF more
    <2> QED BY <1>2
<1>4. During(c) = D
    BY DEF During
<1> HIDE DEF next
<1>5. /\ D \subseteq All /\ Arms(c) \subseteq D
      /\ \A b \in D : next[b] \subseteq D
    BY <1>1, <1>3, ClosureFacts
<1>6. \A b \in D : more(b) \subseteq D
    <2> HIDE DEF more
    <2> QED BY <1>5 DEF next
<1> HIDE DEF D
<1>7. \A b \in D : Flow(b) \subseteq D /\ (B(b).op = "callsub" => Arms(b) \subseteq D)
    BY <1>6
<1>8. ASSUME NEW b \in D PROVE Routine({b}) \subseteq D
    <2> DEFINE flow == [x \in All |-> Flow(x)]
    <2>1. flow \in [All -> SUBSET All] /\ {b} \in SUBSET All
        BY <1>5, <1>8, FlowTypes
    <2>2. {b} \subseteq D /\ \A x \in D \cap All : flow[x] \subseteq D
        BY <1>7, <1>8
    <2>3. Routine({b}) = Closure({b}, flow)
        BY DEF Routine
    <2> HIDE DEF flow
    <2> QED BY <1>1, <2>1, <2>2, <2>3, ClosureFacts
<1> QED BY <1>4, <1>5, <1>7, <1>8

\* Without a definition of l on the way, the next block defines it or has none before it.
LEMMA UndefinedFacts ==
    ASSUME IsProgram(prog), Graph, NEW l
    PROVE  /\ \A b \in Entries : b \in Undefined(l) \union Definitions(l)
           /\ \A b \in Undefined(l) : Flow(b) \subseteq Undefined(l) \union Definitions(l)
<1> DEFINE here == Definitions(l)
           next == [b \in All |-> Flow(b) \ here]
           S == Entries \ here
<1>1. prog.blocks \in Seq(Block) /\ next \in [All -> SUBSET All]
    BY FlowTypes
<1>2. S \in SUBSET All
    BY FlowTypes DEF Entries, Graph
<1>3. Undefined(l) = Closure(S, next) /\ \A b \in All : next[b] = Flow(b) \ here
    BY DEF Undefined
<1> HIDE DEF next, S
<1>4. /\ Closure(S, next) \subseteq All /\ S \subseteq Closure(S, next)
      /\ \A b \in Closure(S, next) : next[b] \subseteq Closure(S, next)
    BY <1>1, <1>2, ClosureFacts
<1> QED BY <1>3, <1>4 DEF S

LEMMA AtMostOne ==
    ASSUME NEW S, IsFiniteSet(S), ~ (Cardinality(S) > 1), NEW x \in S, NEW y \in S
    PROVE  x = y
<1>1. Cardinality(S) \in Nat
    BY FS_CardinalityType
<1>2. Cardinality(S) = 0 \/ Cardinality(S) = 1
    BY <1>1
<1> QED BY <1>2, FS_EmptySet, FS_Singleton

\* A leaf that can change has one definition.
LEMMA OneDefinition ==
    ASSUME IsProgram(prog), Graph, SingleAssignment, NEW l \in Leaves \ Fixed,
           NEW b \in Definitions(l), NEW d \in Definitions(l)
    PROVE  b = d
<1>1. l \in (Leaves \ Fixed) \cap UNION {Defines(x) \union Reads(x) \union MergedAt(x) : x \in Blocks}
    BY DEF Definitions
<1>2. Cardinality(Definitions(l)) <= 1
    BY <1>1 DEF SingleAssignment
<1>3. IsFiniteSet(Definitions(l))
    <2>1. IsFiniteSet(All)
        BY FlowTypes, BlocksAreFinite
    <2>2. Definitions(l) \in SUBSET All
        BY DEF Definitions, Graph
    <2> QED BY <2>1, <2>2, FS_Subset
<1>4. Cardinality(Definitions(l)) \in Nat
    BY <1>3, FS_CardinalityType
<1>5. ~ (Cardinality(Definitions(l)) > 1)
    BY <1>2, <1>4
<1> QED BY <1>3, <1>5, AtMostOne

\* What a block reads has been defined on every path to it, and so has what a phi takes.
LEMMA ReadsAreDefined ==
    ASSUME SingleAssignment, NEW b \in Blocks, NEW l \in Leaves \ Fixed, l \in Reads(b)
    PROVE  b \notin Undefined(l)
<1>1. l \in (Leaves \ Fixed) \cap UNION {Defines(x) \union Reads(x) \union MergedAt(x) : x \in Blocks}
    OBVIOUS
<1> QED BY <1>1 DEF SingleAssignment

LEMMA ArgumentsAreDefined ==
    ASSUME SingleAssignment, NEW a \in Blocks, NEW b \in Blocks, b \in Successors(a),
           NEW t \in B(b).phi, NEW l, NEW m, t = <<m, a, l>>, l \in Leaves \ Fixed
    PROVE  a \notin Undefined(l)
<1>1. l \in MergedAt(b) /\ <<t[2], t[3]>> = <<a, l>>
    BY DEF MergedAt
<1>2. l \in (Leaves \ Fixed) \cap UNION {Defines(x) \union Reads(x) \union MergedAt(x) : x \in Blocks}
    BY <1>1
<1> QED BY <1>1, <1>2 DEF SingleAssignment

-----------------------------------------------------------------------------
(* How control passes from one block to the next.                          *)

\* The run leads to block b: by a step, a call or a return.
Leads(b) ==
    /\ b \in Blocks /\ b \in Successors(at)
    /\ B(at).op = "retsub" => frames # <<>> /\ b \in Following(Site(frames[Len(frames)]))
    /\ B(at).op \notin {"callsub", "retsub"} => b \in Taken(at)

\* It enters b with the values e, phis taking what they merge, and with the leaves d its
\* routine has defined.
Brings(b, e, d) ==
    /\ e \in [Leaves -> Uint]
    /\ \A l \in Leaves \ Defines(b) : e[l] = env[l]
    /\ \A m \in PhisOf(b) : \E t \in B(b).phi : t[1] = m /\ t[2] = at /\ e[m] = env[t[3]]
    /\ d \subseteq Leaves \ Fixed /\ d \subseteq Defined /\ Follows(b, d)
    /\ \A l \in (Leaves \ Fixed) \ d : b \in Undefined(l) \union Definitions(l)

\* What is then known of a call in progress, the frame f.
FrameAt(b, f) ==
    /\ Site(f) \in Blocks /\ B(Site(f)).op = "callsub"
    /\ Site(f) \in {at} \union {Site(frames[i]) : i \in DOMAIN frames}
    /\ b \in During(Site(f))
    /\ f.own \subseteq Leaves \ Fixed /\ f.own \subseteq Defined /\ Follows(Site(f), f.own)
    /\ \A l \in f.own \ Defines(b) : env[l] = f.env[l]
    /\ \A l \in (Leaves \ Fixed) \ f.own : Site(f) \in Undefined(l)

FramesAt(b, after) ==
    \A i \in DOMAIN after :
        /\ FrameAt(b, after[i])
        /\ \A j \in DOMAIN after : i < j => Site(after[j]) \in During(Site(after[i]))

Passes(b, e, d) == Leads(b) /\ Brings(b, e, d) /\ FramesAt(b, frames') /\ Enter(b, e, d)

\* The phis of b take one of their arguments each, and nothing else changes.
LEMMA MergedFacts ==
    ASSUME PhisHaveArguments, NEW a \in Blocks, NEW b \in Blocks, b \in Successors(a),
           NEW e, \A l \in Leaves : e[l] = env[l], PhisOf(b) \subseteq Leaves
    PROVE  /\ \A l \in Leaves \ Defines(b) : Merged(a, b, e)[l] = env[l]
           /\ \A m \in PhisOf(b) : \E t \in B(b).phi :
                  t[1] = m /\ t[2] = a /\ Merged(a, b, e)[m] = env[t[3]]
<1>1. ASSUME NEW l \in Leaves \ Defines(b) PROVE Merged(a, b, e)[l] = env[l]
    <2>1. ~ \E t \in B(b).phi : t[1] = l /\ t[2] = a
        BY DEF Defines, PhisOf
    <2> QED BY <2>1 DEF Merged
<1>2. ASSUME NEW m \in PhisOf(b)
      PROVE  \E t \in B(b).phi : t[1] = m /\ t[2] = a /\ Merged(a, b, e)[m] = env[t[3]]
    <2> DEFINE t == CHOOSE t \in B(b).phi : t[1] = m /\ t[2] = a
    <2>1. a \in Predecessors(b)
        BY DEF Predecessors
    <2>2. \E x \in B(b).phi : x[1] = m /\ x[2] = a
        BY <2>1 DEF PhisHaveArguments
    <2>3. t \in B(b).phi /\ t[1] = m /\ t[2] = a
        BY <2>2
    <2>4. Merged(a, b, e)[m] = env[t[3]]
        BY <2>2 DEF Merged
    <2> HIDE DEF t
    <2> QED BY <2>3, <2>4
<1> QED BY <1>1, <1>2

\* What is known of each caller.
LEMMA OlderFrames ==
    ASSUME Running, NEW i \in DOMAIN frames
    PROVE  LET c == Site(frames[i]) IN
           /\ c \in Blocks /\ c \in All /\ B(c).op = "callsub"
           /\ at \in During(c)
           /\ \A j \in DOMAIN frames : i < j => Site(frames[j]) \in During(c)
           /\ frames[i].own \subseteq Leaves \ Fixed /\ frames[i].own \subseteq Defined
           /\ Follows(c, frames[i].own)
           /\ \A l \in frames[i].own : env[l] = frames[i].env[l]
           /\ \A l \in (Leaves \ Fixed) \ frames[i].own : c \in Undefined(l)
<1> DEFINE c == Site(frames[i])
<1>1. c \in Blocks /\ B(c).op = "callsub"
    BY DEF Running, MachineInv
<1>2. c \in All
    BY <1>1, MachineGraph DEF Running, MachineInv, Graph
<1>3. at \in During(c) /\ \A j \in DOMAIN frames : i < j => Site(frames[j]) \in During(c)
    BY DEF Running, CallsInv, Nested
<1>4. frames[i].own \subseteq Leaves \ Fixed /\ Follows(c, frames[i].own)
    BY DEF Running, CallsInv, OwnFollow
<1>5. \A l \in frames[i].own : env[l] = frames[i].env[l]
    BY DEF Running, CallsInv, ValuesKept
<1>6. \A l \in (Leaves \ Fixed) \ frames[i].own : c \in Undefined(l)
    BY DEF Running, CallsInv, OwnComplete
<1>7. frames[i].own \subseteq Defined
    BY DEF Defined
<1> HIDE DEF c
<1>8. /\ c \in Blocks /\ c \in All /\ B(c).op = "callsub"
      /\ at \in During(c)
      /\ \A j \in DOMAIN frames : i < j => Site(frames[j]) \in During(c)
      /\ frames[i].own \subseteq Leaves \ Fixed /\ frames[i].own \subseteq Defined
      /\ Follows(c, frames[i].own)
      /\ \A l \in frames[i].own : env[l] = frames[i].env[l]
      /\ \A l \in (Leaves \ Fixed) \ frames[i].own : c \in Undefined(l)
    BY <1>1, <1>2, <1>3, <1>4, <1>5, <1>6, <1>7
<1> QED BY <1>8 DEF c

\* A frame that stays is as it was.
LEMMA FrameStays ==
    ASSUME Running, NEW i \in DOMAIN frames, NEW b, b \in During(Site(frames[i]))
    PROVE  FrameAt(b, frames[i])
BY OlderFrames DEF FrameAt

\* What a block defines can change.
LEMMA DefinesFacts ==
    ASSUME IsProgram(prog), NEW b \in All
    PROVE  /\ Defines(b) \subseteq Leaves \ Fixed
           /\ B(b).defs \subseteq Leaves \ Fixed /\ PhisOf(b) \subseteq Leaves \ Fixed
<1>1. B(b).defs \subseteq Leaves \ Fixed /\ B(b).phi \subseteq (Leaves \ Fixed) \X Nat \X Leaves
    BY FlowTypes DEF Block
<1>2. PhisOf(b) \subseteq Leaves \ Fixed
    BY <1>1 DEF PhisOf
<1> QED BY <1>1, <1>2 DEF Defines

LEMMA StepPasses ==
    ASSUME Running, Step
    PROVE  \E b \in Blocks : Passes(b, Merged(at, b, env), own)
<1>1. IsProgram(prog) /\ Graph /\ at \in Blocks /\ at \in All
    BY MachineGraph DEF Running, MachineInv, Graph
<1>2. PICK b \in Taken(at) : Enter(b, Merged(at, b, env), own)
    BY DEF Step
<1> DEFINE e == Merged(at, b, env)
<1>3. b \in Flow(at) /\ b \in Successors(at) /\ b \in Blocks /\ b \in All
      /\ B(at).op \notin {"callsub", "retsub", "return"}
    BY <1>1, TakenFacts DEF Graph
<1>4. env \in [Leaves -> Uint] /\ PhisOf(b) \subseteq Leaves
    BY <1>1, <1>3, DefinesFacts DEF Running, MachineInv
<1>5. e \in [Leaves -> Uint]
    BY <1>1, <1>3, <1>4, MergedTypes
<1>6. /\ \A l \in Leaves \ Defines(b) : e[l] = env[l]
      /\ \A m \in PhisOf(b) : \E t \in B(b).phi : t[1] = m /\ t[2] = at /\ e[m] = env[t[3]]
    BY <1>1, <1>3, <1>4, MergedFacts DEF Running, Scoped
<1> HIDE DEF e
<1>7. own \subseteq Leaves \ Fixed /\ own \subseteq Defined /\ Follows(b, own)
    <2>1. own \subseteq Leaves \ Fixed /\ Follows(at, own)
        BY DEF Running, CallsInv, OwnFollow
    <2>2. ASSUME NEW l \in own PROVE \E x \in Definitions(l) : b \in Routine({x})
        <3>1. PICK x \in Definitions(l) : at \in Routine({x})
            BY <2>1 DEF Follows
        <3>2. {x} \in SUBSET All
            BY <1>1 DEF Definitions, Graph
        <3> QED BY <1>1, <1>3, <3>1, <3>2, RoutineFacts
    <2> QED BY <2>1, <2>2 DEF Follows, Defined
<1>8. \A l \in (Leaves \ Fixed) \ own : b \in Undefined(l) \union Definitions(l)
    BY <1>1, <1>3, UndefinedFacts DEF Running, CallsInv, OwnComplete
<1>9. frames' = frames
    BY DEF Step
<1>10. FramesAt(b, frames')
    <2>1. ASSUME NEW i \in DOMAIN frames
          PROVE  /\ FrameAt(b, frames[i])
                 /\ \A j \in DOMAIN frames : i < j => Site(frames[j]) \in During(Site(frames[i]))
        <3>1. /\ Site(frames[i]) \in All /\ at \in During(Site(frames[i]))
              /\ \A j \in DOMAIN frames : i < j => Site(frames[j]) \in During(Site(frames[i]))
            BY OlderFrames
        <3>2. b \in During(Site(frames[i]))
            BY <1>1, <1>3, <3>1, DuringFacts
        <3> QED BY <3>1, <3>2, FrameStays
    <2> QED BY <1>9, <2>1 DEF FramesAt
<1>11. Leads(b)
    BY <1>3 DEF Leads
<1>12. Brings(b, e, own)
    BY <1>5, <1>6, <1>7, <1>8 DEF Brings
<1> QED BY <1>2, <1>3, <1>10, <1>11, <1>12 DEF Passes, e

LEMMA CallPasses ==
    ASSUME Running, Call
    PROVE  \E b \in Blocks : Passes(b, Merged(at, b, env), {})
<1>1. IsProgram(prog) /\ Graph /\ at \in Blocks /\ at \in All /\ B(at).op = "callsub"
    BY MachineGraph DEF Running, MachineInv, Graph, Call
<1> DEFINE f == [cont |-> Following(at), own |-> own, env |-> env]
           n == Len(frames)
<1>2. PICK b \in Arms(at) : Enter(b, Merged(at, b, env), {})
    BY DEF Call
<1> DEFINE e == Merged(at, b, env)
<1>3. b \in Successors(at) /\ b \in Blocks /\ b \in Entries /\ b \in All
    BY <1>1, CallFacts DEF Entries, Graph
<1>4. env \in [Leaves -> Uint] /\ PhisOf(b) \subseteq Leaves
    BY <1>1, <1>3, DefinesFacts DEF Running, MachineInv
<1>5. e \in [Leaves -> Uint]
    BY <1>1, <1>3, <1>4, MergedTypes
<1>6. /\ \A l \in Leaves \ Defines(b) : e[l] = env[l]
      /\ \A m \in PhisOf(b) : \E t \in B(b).phi : t[1] = m /\ t[2] = at /\ e[m] = env[t[3]]
    BY <1>1, <1>3, <1>4, MergedFacts DEF Running, Scoped
<1>7. frames' = Append(frames, f) /\ f.cont = Following(at) /\ f.own = own /\ f.env = env
    BY DEF Call
<1> HIDE DEF e, f
<1>8. Site(f) = at
    BY <1>1, <1>7, SiteFacts
<1>9. /\ n \in Nat /\ DOMAIN frames' = 1 .. n + 1 /\ DOMAIN frames = 1..n
      /\ frames'[n + 1] = f /\ \A i \in 1..n : frames'[i] = frames[i]
    <2>1. frames \in Seq(Frame)
        BY DEF Running, MachineInv
    <2> QED BY <1>7, <2>1
<1> HIDE DEF n
<1>10. b \in During(at)
    BY <1>1, DuringFacts
<1>11. FrameAt(b, f)
    <2>1. own \subseteq Leaves \ Fixed /\ Follows(at, own)
        BY DEF Running, CallsInv, OwnFollow
    <2>2. \A l \in (Leaves \ Fixed) \ own : at \in Undefined(l)
        BY DEF Running, CallsInv, OwnComplete
    <2>3. own \subseteq Defined
        BY DEF Defined
    <2> QED BY <1>1, <1>7, <1>8, <1>10, <2>1, <2>2, <2>3 DEF FrameAt
<1>12. FramesAt(b, frames')
    <2> SUFFICES ASSUME NEW i \in DOMAIN frames'
                 PROVE  /\ FrameAt(b, frames'[i])
                        /\ \A j \in DOMAIN frames' :
                               i < j => Site(frames'[j]) \in During(Site(frames'[i]))
        BY DEF FramesAt
    <2>1. CASE i = n + 1
        <3>1. ~ \E j \in DOMAIN frames' : i < j
            BY <1>9, <2>1
        <3> QED BY <1>9, <1>11, <2>1, <3>1
    <2>2. CASE i \in 1..n
        <3> DEFINE c == Site(frames[i])
        <3>1. i \in DOMAIN frames /\ frames'[i] = frames[i]
            BY <1>9, <2>2
        <3>2. /\ c \in All /\ at \in During(c)
              /\ \A j \in DOMAIN frames : i < j => Site(frames[j]) \in During(c)
            BY <3>1, OlderFrames
        <3>3. b \in During(c)
            <4> HIDE DEF c
            <4> QED BY <1>1, <3>2, DuringFacts
        <3>4. FrameAt(b, frames[i])
            BY <3>1, <3>3, FrameStays
        <3> HIDE DEF c
        <3>5. ASSUME NEW j \in DOMAIN frames', i < j PROVE Site(frames'[j]) \in During(c)
            <4>1. CASE j = n + 1
                BY <1>8, <1>9, <3>2, <4>1
            <4>2. CASE j \in 1..n
                BY <1>9, <3>2, <3>5, <4>2
            <4> QED BY <1>9, <4>1, <4>2
        <3> QED BY <3>1, <3>4, <3>5 DEF c
    <2> QED BY <1>9, <2>1, <2>2
<1>13. Leads(b)
    BY <1>1, <1>3 DEF Leads
<1>14. Brings(b, e, {})
    <2>1. Follows(b, {})
        BY DEF Follows
    <2>2. \A l : b \in Undefined(l) \union Definitions(l)
        BY <1>1, <1>3, UndefinedFacts
    <2> QED BY <1>5, <1>6, <2>1, <2>2 DEF Brings
<1> QED BY <1>2, <1>3, <1>12, <1>13, <1>14 DEF Passes, e

LEMMA ReturnPasses ==
    ASSUME Running, Return
    PROVE  \E b \in Blocks : \E e, d : Passes(b, e, d)
<1>1. /\ IsProgram(prog) /\ Graph /\ at \in Blocks /\ at \in All
      /\ B(at).op = "retsub" /\ frames # <<>>
    BY MachineGraph DEF Running, MachineInv, Graph, Return
<1> DEFINE n == Len(frames)
           f == frames[n]
           back == [l \in Leaves |-> IF l \in f.own THEN f.env[l] ELSE env[l]]
           c == Site(f)
<1>2. frames \in Seq(Frame) /\ n \in Nat /\ n # 0 /\ n \in DOMAIN frames /\ f \in Frame
    BY <1>1 DEF Running, MachineInv
<1>3. /\ c \in Blocks /\ c \in All /\ B(c).op = "callsub"
      /\ f.own \subseteq Leaves \ Fixed /\ f.own \subseteq Defined /\ Follows(c, f.own)
      /\ \A l \in f.own : env[l] = f.env[l]
      /\ \A l \in (Leaves \ Fixed) \ f.own : c \in Undefined(l)
    BY <1>2, OlderFrames
<1>4. f.cont = Following(c) /\ at \in Routine(Arms(c))
    BY <1>2 DEF Running, MachineInv, Inner
<1>5. PICK b \in f.cont : Enter(b, Merged(at, b, back), f.own)
    BY DEF Return
<1> DEFINE e == Merged(at, b, back)
<1>6. frames' = SubSeq(frames, 1, n - 1) /\ env \in [Leaves -> Uint]
    BY DEF Return, Running, MachineInv
<1>7. back \in [Leaves -> Uint]
    BY <1>2, <1>6 DEF Frame
<1>8. \A l \in Leaves : back[l] = env[l]
    BY <1>3
<1> HIDE DEF e, back, c, f
<1>9. b \in Successors(at) /\ b \in Blocks /\ b \in Following(c) /\ b \in All
    BY <1>1, <1>3, <1>4, <1>5, ReturnFacts DEF Graph
<1>10. b \in Flow(c)
    BY <1>3, <1>9 DEF Flow
<1>11. e \in [Leaves -> Uint]
    BY <1>1, <1>6, <1>7, <1>9, MergedTypes DEF e
<1>12. /\ \A l \in Leaves \ Defines(b) : e[l] = env[l]
       /\ \A m \in PhisOf(b) : \E t \in B(b).phi : t[1] = m /\ t[2] = at /\ e[m] = env[t[3]]
    <2>1. PhisOf(b) \subseteq Leaves /\ PhisHaveArguments
        BY <1>1, <1>9, DefinesFacts DEF Running, Scoped
    <2> QED BY <1>1, <1>8, <1>9, <2>1, MergedFacts DEF e
<1>13. Follows(b, f.own)
    <2> SUFFICES ASSUME NEW l \in f.own PROVE \E x \in Definitions(l) : b \in Routine({x})
        BY DEF Follows
    <2>1. PICK x \in Definitions(l) : c \in Routine({x})
        BY <1>3 DEF Follows
    <2>2. {x} \in SUBSET All
        BY <1>1 DEF Definitions, Graph
    <2> QED BY <1>1, <1>10, <2>1, <2>2, RoutineFacts
<1>14. DOMAIN frames' = 1 .. n - 1 /\ \A i \in 1 .. n - 1 : frames'[i] = frames[i] /\ i \in DOMAIN frames
    <2> HIDE DEF n
    <2>1. n - 1 \in Nat /\ n - 1 <= Len(frames)
        BY <1>2 DEF n
    <2> QED BY <1>2, <1>6, <2>1
<1>15. FramesAt(b, frames')
    <2> SUFFICES ASSUME NEW i \in DOMAIN frames'
                 PROVE  /\ FrameAt(b, frames'[i])
                        /\ \A j \in DOMAIN frames' :
                               i < j => Site(frames'[j]) \in During(Site(frames'[i]))
        BY DEF FramesAt
    <2> DEFINE x == Site(frames[i])
    <2>1. i \in DOMAIN frames /\ frames'[i] = frames[i] /\ i < n
        BY <1>2, <1>14
    <2>2. x \in All /\ \A j \in DOMAIN frames : i < j => Site(frames[j]) \in During(x)
        BY <2>1, OlderFrames
    <2>3. c \in During(x)
        BY <1>2, <2>1, <2>2 DEF c, f
    <2>4. \A j \in DOMAIN frames' : i < j => Site(frames'[j]) \in During(x)
        BY <1>14, <2>2
    <2> HIDE DEF x
    <2>5. b \in During(x)
        BY <1>1, <1>10, <2>2, <2>3, DuringFacts
    <2>6. FrameAt(b, frames[i])
        BY <2>1, <2>5, FrameStays DEF x
    <2> QED BY <2>1, <2>4, <2>6 DEF x
<1>16. Leads(b)
    BY <1>1, <1>9 DEF Leads, c, f
<1>17. Brings(b, e, f.own)
    <2>1. \A l \in (Leaves \ Fixed) \ f.own : b \in Undefined(l) \union Definitions(l)
        BY <1>1, <1>3, <1>10, UndefinedFacts
    <2> QED BY <1>3, <1>11, <1>12, <1>13, <2>1 DEF Brings
<1> QED BY <1>5, <1>9, <1>15, <1>16, <1>17 DEF Passes, e

\* Every way a run goes on.
LEMMA RunPasses ==
    ASSUME Running, Step \/ Call \/ Return
    PROVE  \E b \in Blocks : \E e, d : Passes(b, e, d)
BY StepPasses, CallPasses, ReturnPasses

\* Control passes to a block of the program, and what changes is what the block defines.
LEMMA PassFacts ==
    ASSUME Running, NEW b \in Blocks, NEW e, NEW d, Passes(b, e, d)
    PROVE  /\ IsProgram(prog) /\ Graph /\ at \in Blocks /\ at \in All /\ b \in All
           /\ at' = b /\ mode' = "run" /\ own' = d \union Defines(b) /\ UNCHANGED program
           /\ env \in [Leaves -> Uint] /\ env' \in [Leaves -> Uint]
           /\ \A l \in Leaves \ Defines(b) : env'[l] = env[l]
           /\ \A l \in Leaves \ B(b).defs : env'[l] = e[l]
           /\ \A p \in Seeds(b) : Holds(p, env')
           /\ Defined' \subseteq Defined \union Defines(b)
<1>1. IsProgram(prog) /\ Graph /\ at \in Blocks /\ at \in All /\ b \in All
    BY MachineGraph DEF Running, MachineInv, Graph
<1>2. e \in [Leaves -> Uint] /\ d \in SUBSET Leaves
    BY DEF Passes, Brings
<1>3. /\ at' = b /\ mode' = "run" /\ own' = d \union Defines(b) /\ UNCHANGED program
      /\ env' \in [Leaves -> Uint] /\ \A l \in Leaves \ B(b).defs : env'[l] = e[l]
      /\ \A p \in Seeds(b) : Holds(p, env')
    BY <1>1, <1>2, EnterFacts DEF Passes
<1>4. \A l \in Leaves \ Defines(b) : env'[l] = env[l]
    BY <1>3 DEF Passes, Brings, Defines
<1>5. Defined' \subseteq Defined \union Defines(b)
    <2>1. d \subseteq Defined
        BY DEF Passes, Brings
    <2>2. \A i \in DOMAIN frames' : frames'[i].own \subseteq Defined
        BY DEF Passes, FramesAt, FrameAt
    <2> QED BY <1>3, <2>1, <2>2 DEF Defined
<1>6. env \in [Leaves -> Uint]
    BY DEF Running, MachineInv
<1> QED BY <1>1, <1>3, <1>4, <1>5, <1>6

\* Wherever the run is, what the block reads has been defined by its routine.
LEMMA ReadsAreOwn ==
    ASSUME SingleAssignment, OwnComplete, at \in Blocks, NEW l \in Leaves \ Fixed
    PROVE  l \in Reads(at) => l \in own
BY ReadsAreDefined DEF OwnComplete

LEMMA PassKeeps ==
    ASSUME Running, NEW b \in Blocks, NEW e, NEW d, Passes(b, e, d)
    PROVE  Scoped' /\ CallsInv'
<1>1. IsProgram(prog) /\ Graph /\ at \in Blocks /\ at \in All /\ b \in All
    BY PassFacts
<1>2. /\ at' = b /\ own' = d \union Defines(b) /\ UNCHANGED program
      /\ \A l \in Leaves \ Defines(b) : env'[l] = env[l]
    BY PassFacts
<1>3. /\ Scoped' = Scoped
      /\ \A l : Undefined(l)' = Undefined(l) /\ Definitions(l)' = Definitions(l)
      /\ \A c : During(c)' = During(c)
    BY <1>2, SameScope
<1>4. /\ \A f : Site(f)' = Site(f)
      /\ \A S : Routine(S)' = Routine(S)
    BY <1>2, SameSite
<1>5. Defines(b) \subseteq Leaves \ Fixed
    BY <1>1, DefinesFacts
<1>6. \A i : Site(frames[i])' = Site(frames'[i])
    BY <1>4
<1>7. ASSUME NEW i \in DOMAIN frames'
      PROVE  /\ FrameAt(b, frames'[i])
             /\ \A j \in DOMAIN frames' : i < j => Site(frames'[j]) \in During(Site(frames'[i]))
    BY DEF Passes, FramesAt
<1>8. Nested'
    BY <1>2, <1>3, <1>6, <1>7 DEF FrameAt, Nested
<1>9. OwnFollow'
    <2>1. d \subseteq Leaves \ Fixed /\ Follows(b, d)
        BY DEF Passes, Brings
    <2>2. own' \subseteq Leaves \ Fixed
        BY <1>2, <1>5, <2>1
    <2>3. Follows(b, own')
        <3> SUFFICES ASSUME NEW l \in Defines(b) PROVE \E x \in Definitions(l) : b \in Routine({x})
            BY <1>2, <2>1 DEF Follows
        <3>1. b \in Definitions(l)
            BY DEF Definitions
        <3>2. b \in Routine({b})
            <4>1. {b} \in SUBSET All
                BY <1>1
            <4> QED BY <1>1, <4>1, RoutineFacts
        <3> QED BY <3>1, <3>2
    <2>4. Follows(at, own)'
        <3>1. \A l \in own' : \E x \in Definitions(l) : b \in Routine({x})
            BY <2>3 DEF Follows
        <3> QED BY <1>2, <1>3, <1>4, <3>1 DEF Follows
    <2>5. ASSUME NEW i \in DOMAIN frames'
          PROVE  frames'[i].own \subseteq Leaves \ Fixed /\ Follows(Site(frames[i]), frames[i].own)'
        <3>1. /\ frames'[i].own \subseteq Leaves \ Fixed
              /\ Follows(Site(frames'[i]), frames'[i].own)
            BY <1>7 DEF FrameAt
        <3>2. \A l \in frames'[i].own : \E x \in Definitions(l) : Site(frames'[i]) \in Routine({x})
            BY <3>1 DEF Follows
        <3>3. Follows(Site(frames[i]), frames[i].own)'
            BY <1>3, <1>4, <1>6, <3>2 DEF Follows
        <3> QED BY <3>1, <3>3
    <2> QED BY <2>2, <2>4, <2>5 DEF OwnFollow
<1>10. ValuesKept'
    <2> SUFFICES ASSUME NEW i \in DOMAIN frames', NEW l \in frames'[i].own
                 PROVE  env'[l] = frames'[i].env[l]
        BY DEF ValuesKept
    <2> DEFINE c == Site(frames'[i])
    <2>1. /\ c \in Blocks /\ B(c).op = "callsub" /\ b \in During(c)
          /\ l \in Leaves \ Fixed /\ Follows(c, frames'[i].own)
          /\ l \notin Defines(b) => env[l] = frames'[i].env[l]
        BY <1>7 DEF FrameAt
    <2> HIDE DEF c
    <2>2. CASE l \notin Defines(b)
        BY <1>2, <2>1, <2>2
    <2>3. CASE l \in Defines(b)
        <3>1. PICK x \in Definitions(l) : c \in Routine({x})
            BY <2>1 DEF Follows
        <3>2. b \in Definitions(l) /\ SingleAssignment
            BY <2>3 DEF Definitions, Running, Scoped
        <3>3. x = b
            BY <1>1, <2>1, <3>2, OneDefinition
        <3>4. Routine({b}) \subseteq During(c)
            <4>1. c \in All
                BY <1>1, <2>1 DEF Graph
            <4> QED BY <1>1, <2>1, <4>1, DuringFacts
        <3>5. c \in During(c)
            BY <3>1, <3>3, <3>4
        <3> QED BY <2>1, <3>5 DEF Running, Scoped, CallsDoNotRecur
    <2> QED BY <2>2, <2>3
<1>11. OwnComplete'
    <2>1. ASSUME NEW l \in Leaves \ Fixed PROVE l \in own' \/ b \in Undefined(l)
        <3>1. l \in d \/ b \in Undefined(l) \union Definitions(l)
            BY DEF Passes, Brings
        <3> QED BY <1>2, <3>1 DEF Definitions
    <2>2. ASSUME NEW i \in DOMAIN frames', NEW l \in Leaves \ Fixed
          PROVE  l \in frames'[i].own \/ Site(frames'[i]) \in Undefined(l)
        BY <1>7 DEF FrameAt
    <2> QED BY <1>2, <1>3, <1>6, <2>1, <2>2 DEF OwnComplete
<1> QED BY <1>3, <1>8, <1>9, <1>10, <1>11 DEF Running, CallsInv

LEMMA BeginsInOrder ==
    ASSUME MachineInv, Scoped, Begin
    PROVE  Scoped' /\ CallsInv'
<1>1. IsProgram(prog) /\ Graph /\ 1 \in All /\ 1 \in Blocks
    BY MachineGraph, FlowTypes DEF MachineInv, Graph
<1>2. PICK e \in [Leaves -> Uint] : Enter(1, e, {})
    BY <1>1, BeginFacts
<1>3. at' = 1 /\ own' = Defines(1) /\ UNCHANGED program
    BY <1>2 DEF Enter
<1>4. frames' = <<>> /\ \A i \in DOMAIN frames' : FALSE
    BY DEF Begin, MachineInv
<1>5. /\ Scoped' = Scoped
      /\ \A l : Undefined(l)' = Undefined(l) /\ Definitions(l)' = Definitions(l)
    BY <1>3, SameScope
<1>6. \A S : Routine(S)' = Routine(S)
    BY <1>3, SameSite
<1>7. Defines(1) \subseteq Leaves \ Fixed
    BY <1>1, DefinesFacts
<1>8. Nested' /\ ValuesKept'
    BY <1>4 DEF Nested, ValuesKept
<1>9. OwnFollow'
    <2>1. \A l \in own' : \E d \in Definitions(l) : 1 \in Routine({d})
        <3>1. {1} \in SUBSET All
            BY <1>1
        <3>2. 1 \in Routine({1})
            BY <1>1, <3>1, RoutineFacts
        <3> QED BY <1>1, <1>3, <3>2 DEF Definitions
    <2>2. Follows(at, own)'
        BY <1>3, <1>5, <1>6, <2>1 DEF Follows
    <2> QED BY <1>3, <1>4, <1>7, <2>2 DEF OwnFollow
<1>10. OwnComplete'
    <2>1. ASSUME NEW l \in Leaves \ Fixed PROVE l \in own' \/ 1 \in Undefined(l)
        <3>1. 1 \in Undefined(l) \union Definitions(l)
            BY <1>1, UndefinedFacts DEF Entries
        <3> QED BY <1>3, <3>1 DEF Definitions
    <2> QED BY <1>3, <1>4, <1>5, <2>1 DEF OwnComplete
<1> QED BY <1>5, <1>8, <1>9, <1>10 DEF CallsInv

\* Nothing changes when the run stands still.
LEMMA CallsStay ==
    ASSUME CallsInv, UNCHANGED <<program, at, env, own, frames>>
    PROVE  CallsInv'
<1>1. at' = at /\ env' = env /\ own' = own /\ frames' = frames /\ UNCHANGED program
    OBVIOUS
<1>2. /\ \A l : Undefined(l)' = Undefined(l) /\ Definitions(l)' = Definitions(l)
      /\ \A c : During(c)' = During(c)
    BY <1>1, SameScope
<1>3. /\ \A f : Site(f)' = Site(f)
      /\ \A S : Routine(S)' = Routine(S)
    BY <1>1, SameSite
<1>4. \A i : Site(frames[i])' = Site(frames[i])
    BY <1>1, <1>3
<1>5. Nested' = Nested /\ ValuesKept' = ValuesKept
    BY <1>1, <1>2, <1>4 DEF Nested, ValuesKept
<1>6. OwnFollow'
    <2>1. Follows(at, own)'
        BY <1>1, <1>2, <1>3 DEF Follows, OwnFollow, CallsInv
    <2>2. ASSUME NEW i \in DOMAIN frames PROVE Follows(Site(frames[i]), frames[i].own)'
        <3>1. \A l \in frames[i].own : \E d \in Definitions(l) : Site(frames[i]) \in Routine({d})
            BY <2>2 DEF OwnFollow, Follows, CallsInv
        <3> QED BY <1>1, <1>2, <1>3, <1>4, <3>1 DEF Follows
    <2> QED BY <1>1, <2>1, <2>2 DEF OwnFollow, CallsInv
<1>7. OwnComplete'
    BY <1>1, <1>2, <1>4 DEF OwnComplete, CallsInv
<1> QED BY <1>5, <1>6, <1>7 DEF CallsInv

\* The invariant of calls, for the proofs of an analysis.
RunsInScope == Scoped /\ (mode = "run" => CallsInv)

LEMMA ScopeStep == MachineInv /\ RunsInScope /\ (Begin \/ Run \/ UNCHANGED machineVars) => RunsInScope'
<1> SUFFICES ASSUME MachineInv, RunsInScope, Begin \/ Run \/ UNCHANGED machineVars
             PROVE  RunsInScope'
    OBVIOUS
<1>1. CASE Begin
    BY <1>1, BeginsInOrder DEF RunsInScope
<1>2. CASE Step \/ Call \/ Return
    <2>1. Running
        BY <1>2 DEF Running, RunsInScope, Step, Call, Return
    <2> QED BY <1>2, <2>1, RunPasses, PassKeeps DEF RunsInScope
<1>3. CASE Halt
    <2>1. mode' = "halted" /\ Scoped' = Scoped
        BY <1>3, SameScope DEF Halt
    <2> QED BY <2>1 DEF RunsInScope
<1>4. CASE UNCHANGED machineVars
    <2>1. mode' = mode /\ Scoped' = Scoped
        BY <1>4, SameScope DEF machineVars, runVars
    <2>2. CallsInv => CallsInv'
        BY <1>4, CallsStay DEF machineVars, runVars
    <2> QED BY <2>1, <2>2 DEF RunsInScope
<1> QED BY <1>1, <1>2, <1>3, <1>4 DEF Run

=============================================================================
