-------------------------- MODULE BranchConditions --------------------------
(***************************************************************************)
(* Predicates on SSA values (tealtools/cfg/path_predicates.py): what a     *)
(* branch outcome proves about the condition and the values it is computed *)
(* from, and when a set of predicates is contradictory.                    *)
(*                                                                         *)
(* A value is a leaf (something the program reads) or is computed by one   *)
(* operator from others.  A comparison is of two values, or of one value   *)
(* and a constant on either side.                                          *)
(***************************************************************************)
EXTENDS Naturals, Sequences, FiniteSets

CONSTANTS
    Value,      \* SSA values
    Def,        \* value -> [op, args, k, constFirst]
    Fixed,      \* leaves that read an immutable transaction or global field
    Readable,   \* leaf -> the integers a run may read there
    MaxInt      \* largest integer value

CmpOps == {"==", "!=", "<", "<=", ">", ">="}

Operation == [op : {"leaf", "!", "&&", "||"} \union CmpOps,
              args : Seq(Value), k : 0..MaxInt, constFirst : BOOLEAN]

\* The values computed from leaves in n operations.
Built[n \in Nat] ==
    IF n = 0 THEN {}
    ELSE LET S == Built[n - 1]
         IN {v \in Value : \A i \in DOMAIN Def[v].args : Def[v].args[i] \in S}

ASSUME MaxIntIsPositive == MaxInt \in Nat \ {0}
ASSUME DefIsOperation == Def \in [Value -> Operation]
ASSUME DefHasOperands ==
    \A v \in Value : Len(Def[v].args) \in CASE Def[v].op = "leaf"         -> {0}
                                            [] Def[v].op = "!"            -> {1}
                                            [] Def[v].op \in {"&&", "||"} -> {2}
                                            [] OTHER                      -> {1, 2}
ASSUME ValuesAreComputed == IsFiniteSet(Value) /\ Value = Built[Cardinality(Value)]
ASSUME ReadableAreUints == \A v \in Value : Def[v].op = "leaf" => Readable[v] \subseteq 0..MaxInt
ASSUME FixedAreLeaves == \A v \in Fixed : v \in Value /\ Def[v].op = "leaf"

Uint == 0..MaxInt

Compared == {"eq", "neq", "lt", "le", "gt", "ge"}

\* BranchCondition; what it compares with is a set of constants and one of values: none,
\* one of either, or several constants.
Predicate ==
    [value : Value, kind : {"nonzero", "zero"}, args : {{}}, other : {{}}]
    \union [value : Value, kind : Compared, args : {{k} : k \in Uint}, other : {{}}]
    \union [value : Value, kind : Compared, args : {{}}, other : {{w} : w \in Value}]
    \union [value : Value, kind : {"not_in_range", "neq_all"}, args : SUBSET Uint, other : {{}}]

Pred(v, kind, args) == [value |-> v, kind |-> kind, args |-> args, other |-> {}]

-----------------------------------------------------------------------------
(* What a run makes of it.                                                 *)

Compares(op, m, n) ==
    CASE op = "==" -> m = n [] op = "!=" -> m # n [] op = "<" -> m < n
      [] op = "<=" -> m <= n [] op = ">" -> m > n [] OTHER    -> m >= n

\* What the operation d makes of its arguments.
Operate(d, arg) ==
    LET Bit(b) == IF b THEN 1 ELSE 0
        Sides  == IF Len(arg) = 2 THEN arg
                  ELSE IF d.constFirst THEN <<d.k, arg[1]>> ELSE <<arg[1], d.k>>
    IN  CASE d.op = "!"  -> Bit(arg[1] = 0)
          [] d.op = "&&" -> Bit(arg[1] # 0 /\ arg[2] # 0)
          [] d.op = "||" -> Bit(arg[1] # 0 \/ arg[2] # 0)
          [] OTHER       -> Bit(Compares(d.op, Sides[1], Sides[2]))

\* The value of v when leaf l reads env[l].
Eval(env) ==
    LET of[v \in Value] ==
            IF Def[v].op = "leaf" THEN env[v]
            ELSE Operate(Def[v], [i \in DOMAIN Def[v].args |-> of[Def[v].args[i]]])
    IN of

\* What a predicate of this kind says of n, given what it compares with.
Admits(kind, n, bounds) ==
    CASE kind = "nonzero" -> n # 0
      [] kind = "zero"    -> n = 0
      [] kind = "eq"      -> n \in bounds
      [] kind \in {"neq", "not_in_range", "neq_all"} -> n \notin bounds
      [] kind = "lt"      -> \A k \in bounds : n < k
      [] kind = "le"      -> \A k \in bounds : n <= k
      [] kind = "gt"      -> \A k \in bounds : n > k
      [] OTHER            -> \A k \in bounds : n >= k

Holds(p, env) ==
    LET of == Eval(env) IN Admits(p.kind, of[p.value], p.args \union {of[w] : w \in p.other})

-----------------------------------------------------------------------------
(* What the analysis makes of it.                                          *)

\* _CMP_OP_TO_KIND_TAKEN
KindTaken(op) ==
    CASE op = "==" -> "eq" [] op = "!=" -> "neq" [] op = "<"  -> "lt"
      [] op = "<=" -> "le" [] op = ">"  -> "gt"  [] OTHER     -> "ge"

\* _KIND_NEGATION
Negation(kind) ==
    CASE kind = "eq" -> "neq" [] kind = "neq" -> "eq"
      [] kind = "lt" -> "ge"  [] kind = "ge"  -> "lt"
      [] kind = "le" -> "gt"  [] OTHER        -> "le"

\* _KIND_FLIP: the operands swapped.
Flip(kind) ==
    CASE kind = "lt" -> "gt" [] kind = "gt" -> "lt"
      [] kind = "le" -> "ge" [] kind = "ge" -> "le"
      [] OTHER -> kind

\* _canonical_binary_pred: the variable on the left of a constant.
Canonical(v, kind) ==
    LET d == Def[v] IN
    IF Len(d.args) = 2
    THEN [value |-> d.args[1], kind |-> kind, args |-> {}, other |-> {d.args[2]}]
    ELSE Pred(d.args[1], IF d.constFirst THEN Flip(kind) ELSE kind, {d.k})

\* The connectives decompose on one side only.
Decomposes(op, taken) == (op = "&&" /\ taken) \/ (op = "||" /\ ~ taken)

\* What a comparison proves of its operands.
Relation(v, taken) ==
    Canonical(v, IF taken THEN KindTaken(Def[v].op) ELSE Negation(KindTaken(Def[v].op)))

\* What v proves beside itself, given what is proved by other conditions.
Parts(v, taken, proved) ==
    LET d == Def[v] IN
    CASE d.op \in CmpOps -> {Relation(v, taken)}
      [] d.op = "!" -> proved[<<d.args[1], ~ taken>>]
      [] Decomposes(d.op, taken) ->
             proved[<<d.args[1], taken>>] \union proved[<<d.args[2], taken>>]
      [] OTHER -> {}

Itself(v, taken) == Pred(v, IF taken THEN "nonzero" ELSE "zero", {})

\* _decompose_cond: every predicate proved by condition v being truthy or not.
DecomposeCond ==
    LET prove[c \in Value \X BOOLEAN] ==
            {Itself(c[1], c[2])} \union Parts(c[1], c[2], prove)
    IN prove

-----------------------------------------------------------------------------
(* predicates_contradict, per value, without facts.                        *)

MaxOf(S) == CHOOSE m \in S : \A n \in S : m >= n
MinOf(S) == CHOOSE m \in S : \A n \in S : m <= n

About(P, v, kind) == {p \in P : p.value = v /\ p.kind = kind}

ArgsOf(P, v, kind) == UNION {p.args : p \in About(P, v, kind)}

\* The lowest value the ordered predicates leave.
Lowest(P, v) == MaxOf({0} \union ArgsOf(P, v, "ge") \union {k + 1 : k \in ArgsOf(P, v, "gt")})

CeilingOffByOne(P, v) ==
    MinOf({MaxInt + 1} \union ArgsOf(P, v, "lt") \union ArgsOf(P, v, "le"))

\* One above the highest value left.
Ceiling(P, v) ==
    MinOf({MaxInt + 1} \union ArgsOf(P, v, "lt") \union {k + 1 : k \in ArgsOf(P, v, "le")})

Exact(P, v) == ArgsOf(P, v, "eq") \union (IF About(P, v, "zero") = {} THEN {} ELSE {0})

Excluded(P, v) ==
    ArgsOf(P, v, "neq") \union ArgsOf(P, v, "neq_all") \union ArgsOf(P, v, "not_in_range")
        \union (IF About(P, v, "nonzero") = {} THEN {} ELSE {0})

Possible(P, v) == {n \in Uint : Lowest(P, v) <= n /\ n < Ceiling(P, v)} \ Excluded(P, v)

\* Two exact values, an exact value ruled out, or nothing left between the bounds
\* (the code looks for the latter in ranges of at most 257 values).
PredicatesContradict(P) ==
    \E v \in {p.value : p \in P} :
        \/ Cardinality(Exact(P, v)) > 1
        \/ ~ \E n \in Possible(P, v) : Exact(P, v) \subseteq {n}

=============================================================================
