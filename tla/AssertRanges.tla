---------------------------- MODULE AssertRanges ----------------------------
(***************************************************************************)
(* Ranges from a program's own asserts: propagate_assert_ranges            *)
(* (tealtools/analysis/_range_refinement.py), which narrows the one range  *)
(* a value has, and ValueFacts.range_at (analysis/context.py), which       *)
(* narrows it for one use.  Both rest on AssertDominance                   *)
(* (cfg/dominance.py).  A run of the same blocks then reads the values.    *)
(***************************************************************************)
EXTENDS BlockMachine

CONSTANT Bounded    \* leaves whose field or operation bounds what they read

\* A bounded leaf is read, or the length of what is read.
ASSUME BoundedAreRead ==
    \A l \in Bounded :
        /\ l \in Leaves /\ Readable[l] # {}
        /\ \/ Makes[l].op \in {"read", "bytes", "getbyte", "extract_uint16"}
           \/ /\ Makes[l].op = "len"
              /\ Makes[Buffer(l)].op \in {"read", "bytes"}
              /\ \A n \in Readable[Buffer(l)] : \E i, j \in Readable[l] : i <= n /\ n <= j

\* None of them is merged from others.
ASSUME BoundedAreNoPhis ==
    \A p \in Programs : \A b \in DOMAIN p.blocks : \A t \in p.blocks[b].phi :
        \A l \in Bounded : t[1] # l /\ (Makes[l].op = "len" => t[1] # Buffer(l))

VARIABLES
    range,      \* the leaves that have a range -> [lo, hi]
    todo,       \* guards left in this round, in source order
    changed,    \* this round narrowed a range
    rounds      \* rounds begun

analysisVars == <<range, todo, changed, rounds>>
vars         == <<machineVars, analysisVars>>

Interval(lo, hi) == [lo |-> lo, hi |-> hi]

Nothing == Interval(1, 0)

Span(S) == Interval(MinOf(S), MaxOf(S))

Greater(m, n) == IF m >= n THEN m ELSE n
Lesser(m, n)  == IF m <= n THEN m ELSE n

-----------------------------------------------------------------------------
(* Ranges before any guard is looked at.                                   *)

Seeded ==
    [l \in Bounded \union {c \in Leaves : IsInt(c)} |-> Span(Readable[l])]

\* _arith_result_range, clamped: what a op b may be when it does not fail.
ResultRange(op, a, b) ==
    CASE op = "+" -> Interval(a.lo + b.lo, Lesser(MaxInt, a.hi + b.hi))
      [] op = "-" -> Interval(Greater(0, a.lo - b.hi), a.hi - b.lo)
      [] op = "*" -> Interval(a.lo * b.lo, Lesser(MaxInt, a.hi * b.hi))
      [] op = "/" -> IF b.hi = 0 THEN Nothing
                     ELSE Interval(a.lo \div b.hi, a.hi \div Greater(b.lo, 1))
      [] op = "%" -> IF b.hi = 0 THEN Nothing
                     ELSE Interval(0, Lesser(a.hi, b.hi - 1))

PhiArgs(m) == UNION {{t[3] : t \in {u \in B(b).phi : u[1] = m}} : b \in Blocks}

Computed == {v \in Made : Makes[v].op \in Arith}

\* propagate_ranges, propagate_range_arithmetic: a phi spans its arguments, an
\* operation its operands, once all of them have a range.
Unconditional ==
    LET Operands(l) == IF l \in Phis THEN PhiArgs(l) ELSE InputsOf(l)
        Spanned(l, r) ==
            IF l \in Phis THEN Span(UNION {{r[a].lo, r[a].hi} : a \in PhiArgs(l)})
            ELSE ResultRange(Makes[l].op, r[Makes[l].ins[2]], r[Makes[l].ins[1]])
        ranges[n \in Nat] ==
            IF n = 0 THEN Seeded
            ELSE LET r == ranges[n - 1]
                     found == {l \in (Phis \union Computed) \ DOMAIN r :
                                  /\ Operands(l) \subseteq DOMAIN r
                                  /\ Spanned(l, r).lo <= Spanned(l, r).hi}
                 IN [l \in DOMAIN r \union found |->
                        IF l \in found THEN Spanned(l, r) ELSE r[l]]
    IN ranges[Cardinality(Phis \union Computed)]

-----------------------------------------------------------------------------
(* Dominance.                                                              *)

FromBlocksWithoutPredecessors(g) ==
    Closure({b \in Blocks : Predecessors(b) = {}} \ {g}, [b \in Blocks |-> Successors(b) \ {g}])

\* reachable_avoiding, from where the program starts.
ReachableAvoiding(g) == Closure({1} \ {g}, [b \in Blocks |-> Successors(b) \ {g}])

\* The assert that ends block g comes before what block b reads.
Dominates(g, b) == b # g /\ b \notin ReachableAvoiding(g)

PhiFed(v) == \E b \in Blocks : v \in MergedAt(b)

UsesApartFromTests(v, g) == {b \in Blocks : v \in B(b).uses}

\* The uses of v apart from the test of guard g.
UsesApart(v, g) == {b \in Blocks : v \in B(b).uses \/ (b # g /\ v \in Tests(b))}

NarrowingIgnoresPhis(v, g) == \A b \in UsesApart(v, g) : Dominates(g, b)

NarrowingIsSound(v, g) ==
    /\ ~ PhiFed(v)
    /\ \A b \in UsesApart(v, g) : Dominates(g, b)

-----------------------------------------------------------------------------
(* What a guard says.                                                      *)

Guards == InOrder({b \in Blocks : B(b).op = "assert"})

Swap(op) == CASE op = "<" -> ">" [] op = ">" -> "<" [] op = "<=" -> ">=" [] op = ">=" -> "<="
              [] OTHER -> op

\* The relations the assert of block g proves, given the ranges r: a value without a
\* range bounds no other.  The results of comparisons have no range here.
Relations(g, r) ==
    LET d == Def[B(g).cond]
        Rel(v, op, other) == [value |-> v, op |-> op, other |-> other]
        Beside(v, op, w) == IF v \in Leaves /\ w \in DOMAIN r THEN <<Rel(v, op, r[w])>> ELSE <<>>
    IN  CASE d.op = "leaf" -> <<Rel(B(g).cond, "!=", Interval(0, 0))>>
          [] d.op \in CmpOps ->
                 IF Len(d.args) = 2
                 THEN Beside(d.args[1], d.op, d.args[2])
                          \o Beside(d.args[2], Swap(d.op), d.args[1])
                 ELSE IF d.args[1] \in Leaves
                 THEN <<Rel(d.args[1], IF d.constFirst THEN Swap(d.op) ELSE d.op,
                            Interval(d.k, d.k))>>
                 ELSE <<>>
          [] OTHER -> <<>>

\* _apply: x rel y narrows the range of x.
Apply(op, x, y) ==
    CASE op = "<"  -> Interval(x.lo, Lesser(x.hi, y.hi - 1))
      [] op = "<=" -> Interval(x.lo, Lesser(x.hi, y.hi))
      [] op = ">"  -> Interval(Greater(x.lo, y.lo + 1), x.hi)
      [] op = ">=" -> Interval(Greater(x.lo, y.lo), x.hi)
      [] op = "==" -> Interval(Greater(x.lo, y.lo), Lesser(x.hi, y.hi))
      [] OTHER ->
             IF y.lo # y.hi \/ x.lo >= x.hi THEN x
             ELSE IF y.lo = x.lo THEN Interval(x.lo + 1, x.hi)
             ELSE IF y.hi = x.hi THEN Interval(x.lo, x.hi - 1)
             ELSE x

\* The range in r to narrow from.
From(v, r) == IF v \in DOMAIN r THEN r[v] ELSE Interval(0, MaxInt)

TighterToNothing(x, c) == Apply(c.op, x, c.other)

\* x narrowed by relation c, if that leaves something of it.
Tighter(x, c) ==
    LET y == Apply(c.op, x, c.other) IN IF y.lo <= y.hi THEN y ELSE x

\* The range x of v narrowed by the relations about v, one after the other.
Narrowed(v, x, relations) ==
    LET after[n \in 0..Len(relations)] ==
            IF n = 0 THEN x
            ELSE IF relations[n].value = v THEN Tighter(after[n - 1], relations[n])
            ELSE after[n - 1]
    IN after[Len(relations)]

-----------------------------------------------------------------------------
(* propagate_assert_ranges                                                 *)

Init ==
    /\ InitMachine
    /\ range = Unconditional
    /\ todo = Guards
    /\ changed = FALSE
    /\ rounds = 1

\* The range guard g leaves v.
NewRange(v, g) == Narrowed(v, From(v, range), Relations(g, range))

\* The leaves guard g says something about.
Concerned(g) == LET relations == Relations(g, range) IN {relations[i].value : i \in DOMAIN relations}

\* Those guard g narrows; phis it leaves alone.
Narrowing(g) ==
    {v \in Concerned(g) \ Phis : NewRange(v, g) # From(v, range) /\ NarrowingIsSound(v, g)}

Refine ==
    /\ mode = "analyse"
    /\ todo # <<>>
    /\ LET g        == Head(todo)
           narrowed == Narrowing(g) IN
       /\ range' = [v \in DOMAIN range \union narrowed |->
                       IF v \in narrowed THEN NewRange(v, g) ELSE range[v]]
       /\ changed' = (changed \/ narrowed # {})
    /\ todo' = Tail(todo)
    /\ UNCHANGED <<rounds, machineVars>>

AnotherRound ==
    /\ mode = "analyse"
    /\ todo = <<>>
    /\ changed
    /\ todo' = Guards
    /\ changed' = FALSE
    /\ rounds' = rounds + 1
    /\ UNCHANGED <<range, machineVars>>

Start == todo = <<>> /\ ~ changed /\ Begin /\ UNCHANGED analysisVars

Execute == Run /\ UNCHANGED analysisVars

Next == Refine \/ AnotherRound \/ Start \/ Execute

Spec == Init /\ [][Next]_vars

-----------------------------------------------------------------------------
(* range_at                                                                *)

\* The range of v where block b reads it: the unconditional one, narrowed by every
\* guard that dominates the block.
RangeAt(v, b) ==
    LET ranges == Unconditional
        after[n \in 0..Len(prog.blocks)] ==
            IF n = 0 THEN From(v, ranges)
            ELSE IF n \in Blocks /\ B(n).op = "assert" /\ Dominates(n, b)
            THEN Narrowed(v, after[n - 1], Relations(n, ranges))
            ELSE after[n - 1]
    IN after[Len(prog.blocks)]

-----------------------------------------------------------------------------
In(n, r) == r.lo <= n /\ n <= r.hi

TypeOK ==
    /\ DOMAIN range \subseteq Leaves
    /\ \A v \in DOMAIN range : range[v] \in [lo : Uint, hi : Uint]
    /\ \A i \in DOMAIN todo : B(todo[i]).op = "assert"
    /\ MachineOK

\* What guard g tests: the one read its own narrowing does not cover.
OwnTest(g) == IF B(g).op = "assert" THEN Concerned(g) ELSE {}

\* "The test errs toward skipping a refinement, never toward applying one unsoundly":
\* wherever a run reads a value, except in the test of the guard that narrowed it,
\* the value is in the one range the value has.
NarrowedRangesHold ==
    mode = "run" /\ ~ Panics =>
        \A v \in DOMAIN range \cap (B(at).uses \union (Tests(at) \ OwnTest(at))) :
            In(env[v], range[v])

\* A value that reaches a phi does so in its range, whichever way it came.
PhiArgumentsInRange ==
    [][mode = "run" /\ mode' = "run" =>
           \A t \in B(at').phi :
               t[2] = at /\ t[3] \in DOMAIN range => In(env[t[3]], range[t[3]])]_vars

\* Wherever a run reads a value, it is in the range range_at gives that read.
RangeAtHolds ==
    mode = "run" /\ ~ Panics =>
        \A v \in Leaves \cap Reads(at) : In(env[v], RangeAt(v, at))

ComparesWithItself(g) ==
    LET d == Def[B(g).cond]
    IN  d.op \in CmpOps /\ \E i, j \in DOMAIN d.args : i # j /\ d.args[i] = d.args[j]

\* Two guards never narrow each other's values in turn, so a range 2^64 wide is not
\* walked down step by step: where no guard compares a value with itself, each side of
\* each guard narrows in one round at most.
FewRounds ==
    (\A g \in Blocks : B(g).op = "assert" => ~ ComparesWithItself(g))
        => rounds <= 2 * Len(Guards) + 1

=============================================================================
