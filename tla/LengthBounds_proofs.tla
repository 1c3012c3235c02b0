------------------------- MODULE LengthBounds_proofs -------------------------
(***************************************************************************)
(* What the asserts leave of the ranges (analysis/_range_refinement.py,    *)
(* cfg/dominance.py) and what check_bounds (dataflow/bounds.py) concludes  *)
(* from them: no value a run reads is outside the range left to it, the    *)
(* refinement ends, and an access proved in bounds, or out of bounds, is   *)
(* so in every run, for facts of any size and slices of any depth.         *)
(***************************************************************************)
EXTENDS LengthBounds, BlockMachine_proofs

\* Ranges of integers of the AVM; every range the analysis keeps is one and is not empty.
Intervals == {r \in [lo : Uint, hi : Uint] : r.lo <= r.hi}

-----------------------------------------------------------------------------
(* Arithmetic.                                                             *)

LEMMA ProductsGrow ==
    \A m \in Nat, n \in Nat, k \in Nat, l \in Nat : m <= n /\ k <= l => m * k <= n * l
<1> SUFFICES ASSUME NEW m \in Nat, NEW n \in Nat, NEW k \in Nat, NEW l \in Nat, m <= n, k <= l
             PROVE  m * k <= n * l
    OBVIOUS
<1>1. PICK a \in Nat : n = m + a
    <2>1. n - m \in Nat /\ n = m + (n - m)
        OBVIOUS
    <2> QED BY <2>1
<1>2. PICK b \in Nat : l = k + b
    <2>1. l - k \in Nat /\ l = k + (l - k)
        OBVIOUS
    <2> QED BY <2>1
<1>3. n * l = m * k + (a * k + n * b)
    <2>1. n * l = n * k + n * b
        BY <1>2
    <2>2. n * k = m * k + a * k
        BY <1>1
    <2> QED BY <2>1, <2>2
<1>4. m * k \in Nat /\ a * k + n * b \in Nat
    OBVIOUS
<1> QED BY <1>3, <1>4

LEMMA QuotientsGrow ==
    \A p \in Nat, q \in Nat, d \in Nat \ {0}, e \in Nat \ {0} :
        p <= q /\ e <= d => p \div d <= q \div e
<1> SUFFICES ASSUME NEW p \in Nat, NEW q \in Nat, NEW d \in Nat \ {0}, NEW e \in Nat \ {0},
                    p <= q, e <= d
             PROVE  p \div d <= q \div e
    OBVIOUS
<1> DEFINE s == p \div d
           t == q \div e
<1>1. s \in Nat /\ t \in Nat /\ d * s <= p /\ q < e * (t + 1)
    OBVIOUS
<1> HIDE DEF s, t
<1>2. ASSUME t + 1 <= s PROVE FALSE
    <2>1. e * (t + 1) <= d * s
        BY <1>1, <1>2, ProductsGrow
    <2>2. e * (t + 1) \in Nat /\ d * s \in Nat
        BY <1>1
    <2> QED BY <1>1, <2>1, <2>2
<1>3. s <= t
    BY <1>1, <1>2
<1> QED BY <1>3 DEF s, t

\* What an operation that does not fail makes of values in the ranges a and b.
LEMMA ResultInRange ==
    ASSUME NEW a \in Intervals, NEW b \in Intervals, NEW x \in Uint, NEW y \in Uint,
           In(x, a), In(y, b)
    PROVE  /\ x + y <= MaxInt => In(x + y, ResultRange("+", a, b))
           /\ x >= y => In(x - y, ResultRange("-", a, b))
           /\ x * y <= MaxInt => In(x * y, ResultRange("*", a, b))
           /\ y # 0 => In(x \div y, ResultRange("/", a, b))
           /\ y # 0 => In(x % y, ResultRange("%", a, b))
<1>1. /\ a.lo \in Nat /\ a.hi \in Nat /\ b.lo \in Nat /\ b.hi \in Nat
      /\ x \in Nat /\ y \in Nat /\ MaxInt \in Nat
      /\ a.lo <= x /\ x <= a.hi /\ b.lo <= y /\ y <= b.hi
    BY MaxIntIsPositive DEF Intervals, Uint, In
<1>2. ASSUME x + y <= MaxInt PROVE In(x + y, ResultRange("+", a, b))
    BY <1>1, <1>2 DEF ResultRange, Interval, In, Lesser
<1>3. ASSUME x >= y PROVE In(x - y, ResultRange("-", a, b))
    BY <1>1, <1>3 DEF ResultRange, Interval, In, Greater
<1>4. ASSUME x * y <= MaxInt PROVE In(x * y, ResultRange("*", a, b))
    <2>1. a.lo * b.lo <= x * y /\ x * y <= a.hi * b.hi
        BY <1>1, ProductsGrow
    <2> QED BY <1>4, <2>1 DEF ResultRange, Interval, In, Lesser
<1>5. ASSUME y # 0 PROVE In(x \div y, ResultRange("/", a, b))
    <2>1. b.hi # 0 /\ Greater(b.lo, 1) \in Nat \ {0} /\ Greater(b.lo, 1) <= y
        BY <1>1, <1>5 DEF Greater
    <2>2. a.lo \div b.hi <= x \div y /\ x \div y <= a.hi \div Greater(b.lo, 1)
        BY <1>1, <1>5, <2>1, QuotientsGrow
    <2> QED BY <2>1, <2>2 DEF ResultRange, Interval, In
<1>6. ASSUME y # 0 PROVE In(x % y, ResultRange("%", a, b))
    <2>1. x % y \in Nat /\ x % y < y /\ x % y <= x
        BY <1>1, <1>6
    <2>2. b.hi # 0
        BY <1>1, <1>6
    <2> HIDE <1>6
    <2> DEFINE z == x % y
    <2> HIDE DEF z
    <2>3. In(z, Interval(0, Lesser(a.hi, b.hi - 1)))
        BY <1>1, <2>1, <2>2 DEF Interval, In, Lesser, z
    <2> QED BY <2>2, <2>3 DEF ResultRange, z
<1> QED BY <1>2, <1>3, <1>4, <1>5, <1>6

\* A range an operation gets is of integers, unless there is none.
LEMMA ResultRangeTypes ==
    ASSUME NEW a \in Intervals, NEW b \in Intervals, NEW op \in Arith,
           ResultRange(op, a, b).lo <= ResultRange(op, a, b).hi
    PROVE  ResultRange(op, a, b) \in Intervals
<1>1. /\ a.lo \in Nat /\ a.hi \in Nat /\ b.lo \in Nat /\ b.hi \in Nat /\ MaxInt \in Nat
      /\ a.hi <= MaxInt /\ b.hi <= MaxInt
    BY MaxIntIsPositive DEF Intervals, Uint
<1>2. CASE op = "+"
    BY <1>1, <1>2 DEF ResultRange, Interval, Intervals, Uint, Lesser
<1>3. CASE op = "-"
    BY <1>1, <1>3 DEF ResultRange, Interval, Intervals, Uint, Greater
<1>4. CASE op = "*"
    <2>1. a.lo * b.lo \in Nat /\ a.hi * b.hi \in Nat
        BY <1>1
    <2> QED BY <1>1, <1>4, <2>1 DEF ResultRange, Interval, Intervals, Uint, Lesser
<1>5. CASE op = "/"
    <2>1. CASE b.hi = 0
        BY <1>5, <2>1 DEF ResultRange, Interval, Nothing
    <2>2. CASE b.hi # 0
        <3>1. Greater(b.lo, 1) \in Nat \ {0}
            BY <1>1 DEF Greater
        <3>2. /\ a.lo \div b.hi \in Nat
              /\ a.hi \div Greater(b.lo, 1) \in Nat /\ a.hi \div Greater(b.lo, 1) <= a.hi
            BY <1>1, <2>2, <3>1, Quotients
        <3>3. ResultRange(op, a, b) = Interval(a.lo \div b.hi, a.hi \div Greater(b.lo, 1))
            BY <1>5, <2>2 DEF ResultRange
        <3> QED BY <1>1, <3>2, <3>3 DEF Interval, Intervals, Uint
    <2> QED BY <2>1, <2>2
<1>6. CASE op = "%"
    BY <1>1, <1>6 DEF ResultRange, Interval, Nothing, Intervals, Uint, Lesser
<1> QED BY <1>2, <1>3, <1>4, <1>5, <1>6 DEF Arith

\* The range of a set of integers.
LEMMA SpanFacts ==
    ASSUME NEW S \in SUBSET Uint, S # {}
    PROVE  Span(S) \in Intervals /\ \A n \in S : In(n, Span(S))
<1>1. MaxInt \in Nat /\ S \subseteq 0..MaxInt /\ S \subseteq Nat
    BY MaxIntIsPositive DEF Uint
<1>2. \E m \in S : \A n \in S : m <= n
    BY <1>1, LeastNumber
<1>3. \E m \in S : \A n \in S : n <= m
    BY <1>1, GreatestNumber
<1>4. \E m \in S : \A n \in S : m >= n
    BY <1>1, <1>3
<1>5. MinOf(S) \in S /\ \A n \in S : MinOf(S) <= n
    BY <1>2 DEF MinOf
<1>6. MaxOf(S) \in S /\ \A n \in S : MaxOf(S) >= n
    BY <1>4 DEF MaxOf
<1> QED BY <1>1, <1>5, <1>6 DEF Span, Interval, Intervals, In

-----------------------------------------------------------------------------
(* What a guard says of a value narrows its range to what it may be.       *)

Relating == [value : Leaves, op : CmpOps, other : Intervals]

\* The relation c holds of the value n.
True(c, n) == \E m \in Uint : In(m, c.other) /\ Compares(c.op, n, m)

LEMMA TighterFacts ==
    ASSUME NEW x \in Intervals, NEW c \in Relating
    PROVE  /\ Tighter(x, c) \in Intervals
           /\ \A n \in Uint : In(n, x) /\ True(c, n) => In(n, Tighter(x, c))
<1> DEFINE y == c.other
           z == Apply(c.op, x, y)
<1>1. /\ x.lo \in Nat /\ x.hi \in Nat /\ x.lo <= x.hi /\ x.hi <= MaxInt
      /\ y.lo \in Nat /\ y.hi \in Nat /\ y.lo <= y.hi
      /\ c.op \in CmpOps /\ MaxInt \in Nat
    BY MaxIntIsPositive DEF Intervals, Uint, Relating
<1>2. Tighter(x, c) = IF z.lo <= z.hi THEN z ELSE x
    BY DEF Tighter
<1>3. ASSUME z.lo <= z.hi PROVE z \in Intervals
    <2>1. CASE c.op \in {"<", "<=", ">", ">=", "=="}
        BY <1>1, <1>3, <2>1 DEF Apply, Interval, Intervals, Uint, Lesser, Greater
    <2>2. CASE c.op = "!="
        BY <1>1, <1>3, <2>2 DEF Apply, Interval, Intervals, Uint
    <2> QED BY <1>1, <2>1, <2>2 DEF CmpOps
<1>4. ASSUME NEW n \in Uint, In(n, x), True(c, n) PROVE In(n, z)
    <2>1. PICK m \in Uint : In(m, y) /\ Compares(c.op, n, m)
        BY <1>4 DEF True
    <2>2. n \in Nat /\ m \in Nat /\ x.lo <= n /\ n <= x.hi /\ y.lo <= m /\ m <= y.hi
        BY <1>4, <2>1 DEF In, Uint
    <2>3. CASE c.op = "<"
        BY <1>1, <2>1, <2>2, <2>3 DEF Compares, Apply, Interval, In, Lesser
    <2>4. CASE c.op = "<="
        BY <1>1, <2>1, <2>2, <2>4 DEF Compares, Apply, Interval, In, Lesser
    <2>5. CASE c.op = ">"
        BY <1>1, <2>1, <2>2, <2>5 DEF Compares, Apply, Interval, In, Greater
    <2>6. CASE c.op = ">="
        BY <1>1, <2>1, <2>2, <2>6 DEF Compares, Apply, Interval, In, Greater
    <2>7. CASE c.op = "=="
        BY <1>1, <2>1, <2>2, <2>7 DEF Compares, Apply, Interval, In, Lesser, Greater
    <2>8. CASE c.op = "!="
        BY <1>1, <2>1, <2>2, <2>8 DEF Compares, Apply, Interval, In
    <2> QED BY <1>1, <2>3, <2>4, <2>5, <2>6, <2>7, <2>8 DEF CmpOps
<1>5. Tighter(x, c) \in Intervals
    BY <1>2, <1>3
<1> QED BY <1>2, <1>4, <1>5

\* after[n] is the range x of v after n of the relations.
Narrowings(v, x, relations, after) ==
    /\ after[0] = x
    /\ \A n \in 1..Len(relations) :
           after[n] = IF relations[n].value = v THEN Tighter(after[n - 1], relations[n])
                      ELSE after[n - 1]
    /\ Narrowed(v, x, relations) = after[Len(relations)]

LEMMA NarrowedSteps ==
    ASSUME NEW v, NEW x \in Intervals, NEW relations \in Seq(Relating)
    PROVE  \E after : Narrowings(v, x, relations, after)
<1> DEFINE N == Len(relations)
           step(n, y) == IF relations[n].value = v THEN Tighter(y, relations[n]) ELSE y
           G == [p \in (1..N) \X Intervals |-> step(p[1], p[2])]
           F(f) == [n \in 0..N |-> IF n = 0 THEN x
                                   ELSE IF relations[n].value = v
                                   THEN Tighter(f[n - 1], relations[n]) ELSE f[n - 1]]
           after == CHOOSE f : f = F(f)
<1>1. N \in Nat /\ DOMAIN relations = 1..N /\ \A n \in 1..N : relations[n] \in Relating
    OBVIOUS
<1>2. \A n \in 1..N, y \in Intervals : step(n, y) \in Intervals
    BY <1>1, TighterFacts
<1>3. G \in [(1..N) \X Intervals -> Intervals]
    <2> HIDE DEF step
    <2> QED BY <1>2
<1>4. PICK f \in [0..N -> Intervals] : StepByStep(f, x, N, G)
    <2> HIDE DEF G, N
    <2> QED BY <1>1, <1>3, RecursionUpTo
<1>5. f[0] = x /\ \A n \in 1..N : f[n] = step(n, f[n - 1])
    <2>1. \A n \in 1..N : n - 1 \in 0..N
        BY <1>1
    <2> HIDE DEF step
    <2> QED BY <1>4, <2>1 DEF StepByStep
<1>6. f = F(f)
    <2>1. \A n \in 0..N : n # 0 => n \in 1..N
        BY <1>1
    <2> QED BY <1>5, <2>1
<1>7. after = F(after)
    <2> HIDE DEF F
    <2> QED BY <1>6
<1>8. Narrowed(v, x, relations) = after[N]
    BY DEF Narrowed
<1> HIDE DEF after
<1>9. after[0] = x /\ \A n \in 1..N : after[n] = step(n, after[n - 1])
    <2>1. 0 \in 0..N /\ \A n \in 1..N : n \in 0..N /\ n # 0
        BY <1>1
    <2> QED BY <1>7, <2>1
<1>10. Narrowings(v, x, relations, after)
    BY <1>8, <1>9 DEF Narrowings
<1> QED BY <1>10

\* One relation after the other.
LEMMA NarrowedFacts ==
    ASSUME NEW v, NEW x \in Intervals, NEW relations \in Seq(Relating)
    PROVE  /\ Narrowed(v, x, relations) \in Intervals
           /\ \A n \in Uint :
                  /\ In(n, x)
                  /\ \A i \in DOMAIN relations : relations[i].value = v => True(relations[i], n)
                  => In(n, Narrowed(v, x, relations))
<1> DEFINE N == Len(relations)
           step(n, y) == IF relations[n].value = v THEN Tighter(y, relations[n]) ELSE y
<1>1. N \in Nat /\ DOMAIN relations = 1..N /\ \A n \in 1..N : relations[n] \in Relating
    OBVIOUS
<1>2. PICK after : Narrowings(v, x, relations, after)
    BY NarrowedSteps
<1>3. Narrowed(v, x, relations) = after[N]
    BY <1>2 DEF Narrowings
<1>4. after[0] = x /\ \A n \in 1..N : after[n] = step(n, after[n - 1])
    BY <1>2 DEF Narrowings
<1> DEFINE T == {n \in Nat : n <= N =>
                     /\ after[n] \in Intervals
                     /\ \A k \in Uint :
                            /\ In(k, x)
                            /\ \A i \in DOMAIN relations :
                                   relations[i].value = v => True(relations[i], k)
                            => In(k, after[n])}
<1>5. \A n \in Nat : n \in T
    <2>1. 0 \in T
        BY <1>4
    <2>2. ASSUME NEW n \in Nat, n \in T PROVE n + 1 \in T
        <3> SUFFICES ASSUME n + 1 <= N
                     PROVE  /\ after[n + 1] \in Intervals
                            /\ \A k \in Uint :
                                   /\ In(k, x)
                                   /\ \A i \in DOMAIN relations :
                                          relations[i].value = v => True(relations[i], k)
                                   => In(k, after[n + 1])
            OBVIOUS
        <3>1. n + 1 \in 1..N /\ (n + 1) - 1 = n /\ n <= N
            BY <1>1
        <3>2. after[n + 1] = step(n + 1, after[n])
            <4> HIDE DEF step
            <4> QED BY <1>4, <3>1
        <3>3. after[n] \in Intervals /\ relations[n + 1] \in Relating
            BY <1>1, <2>2, <3>1
        <3>4. CASE relations[n + 1].value = v
            <4>1. after[n + 1] = Tighter(after[n], relations[n + 1])
                BY <3>2, <3>4
            <4> QED BY <1>1, <2>2, <3>1, <3>3, <3>4, <4>1, TighterFacts
        <3>5. CASE relations[n + 1].value # v
            <4>1. after[n + 1] = after[n]
                BY <3>2, <3>5
            <4> QED BY <2>2, <3>1, <4>1
        <3> QED BY <3>4, <3>5
    <2> HIDE DEF T
    <2> QED BY <2>1, <2>2, NumberInduction
<1> QED BY <1>1, <1>3, <1>5

\* Leaves with ranges.
AreRanges(r) == DOMAIN r \subseteq Leaves /\ \A l \in DOMAIN r : r[l] \in Intervals

\* The leaves guard g says something about when the ranges are r.
Told(g, r) == {c.value : c \in Held(Relations(g, r))}

Swapped(v, op, w, r) ==
    IF v \in Leaves /\ w \in DOMAIN r THEN {[value |-> v, op |-> op, other |-> r[w]]} ELSE {}

LEMMA SwapFacts ==
    ASSUME NEW op \in CmpOps
    PROVE  Swap(op) \in CmpOps /\ \A m, n \in Nat : Compares(op, m, n) <=> Compares(Swap(op), n, m)
<1>1. CASE op = "<"
    BY <1>1 DEF Swap, Compares, CmpOps
<1>2. CASE op = "<="
    BY <1>2 DEF Swap, Compares, CmpOps
<1>3. CASE op = ">"
    BY <1>3 DEF Swap, Compares, CmpOps
<1>4. CASE op = ">="
    BY <1>4 DEF Swap, Compares, CmpOps
<1>5. CASE op = "=="
    BY <1>5 DEF Swap, Compares, CmpOps
<1>6. CASE op = "!="
    BY <1>6 DEF Swap, Compares, CmpOps
<1> QED BY <1>1, <1>2, <1>3, <1>4, <1>5, <1>6 DEF CmpOps

\* The relations of a guard, by the kind of its condition.
LEMMA RelationCases ==
    ASSUME NEW g, B(g).cond \in Value, NEW r, AreRanges(r)
    PROVE  LET v == B(g).cond
               d == Def[v]
           IN  /\ Relations(g, r) \in Seq(Relating)
               /\ d.op = "leaf" =>
                      Held(Relations(g, r)) = {[value |-> v, op |-> "!=", other |-> Interval(0, 0)]}
               /\ d.op \in CmpOps /\ Len(d.args) = 2 =>
                      Held(Relations(g, r)) = Swapped(d.args[1], d.op, d.args[2], r)
                                      \union Swapped(d.args[2], Swap(d.op), d.args[1], r)
               /\ d.op \in CmpOps /\ Len(d.args) # 2 =>
                      Held(Relations(g, r)) =
                          IF d.args[1] \in Leaves
                          THEN {[value |-> d.args[1],
                                 op |-> IF d.constFirst THEN Swap(d.op) ELSE d.op,
                                 other |-> Interval(d.k, d.k)]}
                          ELSE {}
               /\ d.op \notin CmpOps \union {"leaf"} => Held(Relations(g, r)) = {}
<1> DEFINE v == B(g).cond
           d == Def[v]
           Rel(x, op, other) == [value |-> x, op |-> op, other |-> other]
           Beside(x, op, w) == IF x \in Leaves /\ w \in DOMAIN r THEN <<Rel(x, op, r[w])>> ELSE <<>>
<1>1. ASSUME NEW c \in Relating PROVE <<c>> \in Seq(Relating) /\ Held(<<c>>) = {c}
    BY DEF Held
<1>2. <<>> \in Seq(Relating) /\ Held(<<>>) = {}
    BY DEF Held
<1>3. \A k \in Uint : Interval(k, k) \in Intervals
    BY MaxIntIsPositive DEF Interval, Intervals, Uint
<1>4. ASSUME NEW x, NEW op \in CmpOps, NEW w
      PROVE  Beside(x, op, w) \in Seq(Relating) /\ Held(Beside(x, op, w)) = Swapped(x, op, w, r)
    <2>1. CASE x \in Leaves /\ w \in DOMAIN r
        <3>1. Rel(x, op, r[w]) \in Relating
            BY <2>1 DEF Relating, AreRanges
        <3> QED BY <1>1, <2>1, <3>1 DEF Swapped
    <2>2. CASE ~ (x \in Leaves /\ w \in DOMAIN r)
        BY <1>2, <2>2 DEF Swapped
    <2> QED BY <2>1, <2>2
<1>5. CASE d.op = "leaf"
    <2>1. v \in Leaves /\ "!=" \in CmpOps /\ 0 \in Uint
        BY <1>5, MaxIntIsPositive DEF Leaves, CmpOps, Uint
    <2>2. Rel(v, "!=", Interval(0, 0)) \in Relating
        BY <1>3, <2>1 DEF Relating
    <2>3. Relations(g, r) = <<Rel(v, "!=", Interval(0, 0))>>
        BY <1>5 DEF Relations, CmpOps
    <2>4. d.op \notin CmpOps
        BY <1>5 DEF CmpOps
    <2> QED BY <1>1, <1>5, <2>2, <2>3, <2>4
<1>6. CASE d.op \in CmpOps /\ Len(d.args) = 2
    <2> DEFINE s == Beside(d.args[1], d.op, d.args[2])
               t == Beside(d.args[2], Swap(d.op), d.args[1])
    <2>1. Relations(g, r) = s \o t
        BY <1>6 DEF Relations, CmpOps
    <2>2. /\ s \in Seq(Relating) /\ Held(s) = Swapped(d.args[1], d.op, d.args[2], r)
          /\ t \in Seq(Relating) /\ Held(t) = Swapped(d.args[2], Swap(d.op), d.args[1], r)
        BY <1>4, <1>6, SwapFacts
    <2>3. d.op # "leaf"
        BY <1>6 DEF CmpOps
    <2> HIDE DEF s, t, d
    <2>4. s \o t \in Seq(Relating) /\ Held(s \o t) = Held(s) \union Held(t)
        BY <2>2, HeldOfBoth
    <2> QED BY <1>6, <2>1, <2>2, <2>3, <2>4 DEF d
<1>7. CASE d.op \in CmpOps /\ Len(d.args) # 2
    <2> DEFINE op == IF d.constFirst THEN Swap(d.op) ELSE d.op
    <2>1. op \in CmpOps /\ d.op # "leaf" /\ d.k \in Uint
        BY <1>7, SwapFacts, OperandsOf DEF CmpOps
    <2>2. Relations(g, r) = IF d.args[1] \in Leaves THEN <<Rel(d.args[1], op, Interval(d.k, d.k))>>
                            ELSE <<>>
        BY <1>7 DEF Relations, CmpOps
    <2>3. d.args[1] \in Leaves => Rel(d.args[1], op, Interval(d.k, d.k)) \in Relating
        BY <1>3, <2>1 DEF Relating
    <2> HIDE DEF op, d
    <2>4. CASE d.args[1] \in Leaves
        <3>1. Relations(g, r) \in Seq(Relating)
              /\ Held(Relations(g, r)) = {Rel(d.args[1], op, Interval(d.k, d.k))}
            BY <1>1, <2>2, <2>3, <2>4
        <3> QED BY <1>7, <2>1, <2>4, <3>1 DEF d, op
    <2>5. CASE d.args[1] \notin Leaves
        <3>1. Relations(g, r) \in Seq(Relating) /\ Held(Relations(g, r)) = {}
            BY <1>2, <2>2, <2>5
        <3> QED BY <1>7, <2>1, <2>5, <3>1 DEF d
    <2> QED BY <2>4, <2>5
<1>8. CASE d.op \notin CmpOps \union {"leaf"}
    BY <1>2, <1>8 DEF Relations, CmpOps
<1> QED BY <1>5, <1>6, <1>7, <1>8

\* A guard says something of leaves it tests, and of more of them when more have ranges.
LEMMA AboutFacts ==
    ASSUME NEW g, B(g).cond \in Value, NEW r, AreRanges(r)
    PROVE  /\ Told(g, r) \subseteq Leaves \cap Computing(B(g).cond)
           /\ \A s : AreRanges(s) /\ DOMAIN r \subseteq DOMAIN s => Told(g, r) \subseteq Told(g, s)
<1> DEFINE v == B(g).cond
           d == Def[v]
<1>1. /\ d.op = "leaf" => v \in Leaves
      /\ v \in Computing(v)
      /\ d.op \in CmpOps => d.args[1] \in Computing(v)
      /\ d.op \in CmpOps /\ Len(d.args) = 2 => d.args[2] \in Computing(v)
    <2>1. Computing(v) = {v} \union UNION {Computing(d.args[i]) : i \in DOMAIN d.args}
        BY ComputingSteps
    <2>2. \A w \in Value : w \in Computing(w)
        BY ComputingSteps
    <2>3. d.op \in CmpOps => d.op # "leaf"
        BY DEF CmpOps
    <2>4. d.op \in CmpOps => 1 \in DOMAIN d.args /\ d.args[1] \in Value
        BY <2>3, OperandsOf
    <2>5. Len(d.args) = 2 => 2 \in DOMAIN d.args /\ d.args[2] \in Value
        BY OperandsOf
    <2> HIDE DEF d
    <2> QED BY <2>1, <2>2, <2>4, <2>5 DEF Leaves, d
<1>2. Held(Relations(g, r)) \subseteq Relating
    <2>1. Relations(g, r) \in Seq(Relating)
        BY RelationCases
    <2> DEFINE w == Relations(g, r)
    <2> HIDE DEF w
    <2>2. \A i \in DOMAIN w : w[i] \in Relating
        BY <2>1 DEF w
    <2> QED BY <2>2 DEF Held, w
<1>3. Told(g, r) \subseteq Leaves
    <2>1. \A c \in Relating : c.value \in Leaves
        BY DEF Relating
    <2> QED BY <1>2, <2>1 DEF Told
<1> DEFINE Values(S) == {c.value : c \in S}
<1>4. \A x, op, w, s : Values(Swapped(x, op, w, s)) = IF x \in Leaves /\ w \in DOMAIN s THEN {x} ELSE {}
    <2> TAKE x, op, w, s
    <2>1. CASE x \in Leaves /\ w \in DOMAIN s
        <3>1. Swapped(x, op, w, s) = {[value |-> x, op |-> op, other |-> s[w]]}
            BY <2>1 DEF Swapped
        <3> QED BY <2>1, <3>1
    <2>2. CASE ~ (x \in Leaves /\ w \in DOMAIN s)
        <3>1. Swapped(x, op, w, s) = {}
            BY <2>2 DEF Swapped
        <3> QED BY <2>2, <3>1
    <2> QED BY <2>1, <2>2
<1>5. ASSUME NEW s, AreRanges(s)
      PROVE  Told(g, s) = CASE d.op = "leaf" -> {v}
                             [] d.op \in CmpOps /\ Len(d.args) = 2 ->
                                    (IF d.args[1] \in Leaves /\ d.args[2] \in DOMAIN s
                                     THEN {d.args[1]} ELSE {})
                                    \union (IF d.args[2] \in Leaves /\ d.args[1] \in DOMAIN s
                                            THEN {d.args[2]} ELSE {})
                             [] d.op \in CmpOps /\ Len(d.args) # 2 ->
                                    IF d.args[1] \in Leaves THEN {d.args[1]} ELSE {}
                             [] OTHER -> {}
    <2>1. CASE d.op = "leaf"
        <3>1. Held(Relations(g, s)) = {[value |-> v, op |-> "!=", other |-> Interval(0, 0)]}
            BY <1>5, <2>1, RelationCases
        <3>2. Told(g, s) = {v}
            BY <3>1 DEF Told
        <3> QED BY <2>1, <3>2 DEF CmpOps
    <2>2. CASE d.op \in CmpOps /\ Len(d.args) = 2
        <3> DEFINE S == Swapped(d.args[1], d.op, d.args[2], s)
                   T == Swapped(d.args[2], Swap(d.op), d.args[1], s)
        <3>1. Held(Relations(g, s)) = S \union T /\ d.op # "leaf"
            BY <1>5, <2>2, RelationCases DEF CmpOps
        <3>2. /\ Values(S) = IF d.args[1] \in Leaves /\ d.args[2] \in DOMAIN s THEN {d.args[1]} ELSE {}
              /\ Values(T) = IF d.args[2] \in Leaves /\ d.args[1] \in DOMAIN s THEN {d.args[2]} ELSE {}
            BY <1>4
        <3> HIDE DEF S, T, d
        <3>3. Told(g, s) = Values(S) \union Values(T)
            BY <3>1 DEF Told
        <3> QED BY <2>2, <3>1, <3>2, <3>3
    <2>3. CASE d.op \in CmpOps /\ Len(d.args) # 2
        <3>1. /\ d.args[1] \in Leaves =>
                     Held(Relations(g, s)) = {[value |-> d.args[1],
                                               op |-> IF d.constFirst THEN Swap(d.op) ELSE d.op,
                                               other |-> Interval(d.k, d.k)]}
              /\ d.args[1] \notin Leaves => Held(Relations(g, s)) = {}
              /\ d.op # "leaf"
            BY <1>5, <2>3, RelationCases DEF CmpOps
        <3> HIDE DEF d
        <3>2. Told(g, s) = IF d.args[1] \in Leaves THEN {d.args[1]} ELSE {}
            <4>1. CASE d.args[1] \in Leaves
                <5> DEFINE op == IF d.constFirst THEN Swap(d.op) ELSE d.op
                           c == [value |-> d.args[1], op |-> op, other |-> Interval(d.k, d.k)]
                <5>1. c.value = d.args[1]
                    OBVIOUS
                <5>2. Held(Relations(g, s)) = {c}
                    BY <3>1, <4>1
                <5> HIDE DEF c
                <5> QED BY <4>1, <5>1, <5>2 DEF Told
            <4>2. CASE d.args[1] \notin Leaves
                BY <3>1, <4>2 DEF Told
            <4> QED BY <4>1, <4>2
        <3> QED BY <2>3, <3>1, <3>2
    <2>4. CASE d.op \notin CmpOps \union {"leaf"}
        <3>1. Held(Relations(g, s)) = {}
            BY <1>5, <2>4, RelationCases
        <3> QED BY <2>4, <3>1 DEF Told
    <2> QED BY <2>1, <2>2, <2>3, <2>4
<1> HIDE DEF d
<1>6. Told(g, r) \subseteq Computing(v)
    BY <1>1, <1>5
<1>7. ASSUME NEW s, AreRanges(s), DOMAIN r \subseteq DOMAIN s PROVE Told(g, r) \subseteq Told(g, s)
    BY <1>5, <1>7
<1> QED BY <1>3, <1>6, <1>7

\* What a guard that was passed says is true.
LEMMA RelationsHold ==
    ASSUME NEW g, B(g).cond \in Value, NEW r, AreRanges(r), NEW e \in [Leaves -> Uint],
           Eval(e)[B(g).cond] # 0,
           \A w \in DOMAIN r \cap Computing(B(g).cond) : In(e[w], r[w])
    PROVE  \A c \in Held(Relations(g, r)) : True(c, e[c.value])
<1> DEFINE v == B(g).cond
           d == Def[v]
<1>1. e \in [Leaves -> Nat] /\ \A w \in Value : Eval(e)[w] \in Uint
    BY EvalIsUint
<1>2. \A l \in Leaves : l \in Value /\ Eval(e)[l] = e[l] /\ e[l] \in Nat
    BY <1>1, EvalSteps DEF Leaves
<1>3. CASE d.op = "leaf"
    <2>1. v \in Leaves /\ 0 \in Uint
        BY <1>3, MaxIntIsPositive DEF Leaves, Uint
    <2>2. Held(Relations(g, r)) = {[value |-> v, op |-> "!=", other |-> Interval(0, 0)]}
        BY <1>3, RelationCases
    <2>3. In(0, Interval(0, 0)) /\ Compares("!=", e[v], 0)
        BY <1>2, <2>1 DEF In, Interval, Compares
    <2> QED BY <2>1, <2>2, <2>3 DEF True
<1>4. CASE d.op \in CmpOps /\ Len(d.args) = 2
    <2>1. /\ d.op # "leaf" /\ d.args[1] \in Value /\ d.args[2] \in Value
          /\ 1 \in DOMAIN d.args /\ 2 \in DOMAIN d.args
        BY <1>4, OperandsOf DEF CmpOps
    <2> DEFINE m == Eval(e)[d.args[1]]
               n == Eval(e)[d.args[2]]
    <2>2. Compares(d.op, m, n) /\ m \in Nat /\ n \in Nat
        BY <1>1, <1>4, <2>1, OperateSteps DEF Uint
    <2>3. Compares(Swap(d.op), n, m)
        BY <1>4, <2>2, SwapFacts
    <2>4. /\ d.args[1] \in Computing(v) /\ d.args[2] \in Computing(v)
        <3>1. Computing(v) = {v} \union UNION {Computing(d.args[i]) : i \in DOMAIN d.args}
            BY ComputingSteps
        <3>2. \A w \in Value : w \in Computing(w)
            BY ComputingSteps
        <3> QED BY <2>1, <3>1, <3>2
    <2>5. Held(Relations(g, r)) = Swapped(d.args[1], d.op, d.args[2], r)
                            \union Swapped(d.args[2], Swap(d.op), d.args[1], r)
        BY <1>4, RelationCases
    <2>6. DOMAIN r \subseteq Leaves
        BY DEF AreRanges
    <2>7. ASSUME NEW x, NEW op, NEW w, x \in Leaves, w \in DOMAIN r, w \in Computing(v),
                 Compares(op, e[x], e[w])
          PROVE  True([value |-> x, op |-> op, other |-> r[w]], e[x])
        <3>1. e[w] \in Uint /\ In(e[w], r[w])
            BY <2>6, <2>7
        <3> QED BY <2>7, <3>1 DEF True
    <2> HIDE DEF d, v
    <2>8. ASSUME NEW c \in Swapped(d.args[1], d.op, d.args[2], r) PROVE True(c, e[c.value])
        <3>1. /\ c = [value |-> d.args[1], op |-> d.op, other |-> r[d.args[2]]]
              /\ d.args[1] \in Leaves /\ d.args[2] \in DOMAIN r
            BY DEF Swapped
        <3>2. Compares(d.op, e[d.args[1]], e[d.args[2]])
            BY <1>2, <2>2, <2>6, <3>1
        <3> QED BY <2>4, <2>7, <3>1, <3>2
    <2>9. ASSUME NEW c \in Swapped(d.args[2], Swap(d.op), d.args[1], r) PROVE True(c, e[c.value])
        <3>1. /\ c = [value |-> d.args[2], op |-> Swap(d.op), other |-> r[d.args[1]]]
              /\ d.args[2] \in Leaves /\ d.args[1] \in DOMAIN r
            BY DEF Swapped
        <3>2. Compares(Swap(d.op), e[d.args[2]], e[d.args[1]])
            BY <1>2, <2>3, <2>6, <3>1
        <3> QED BY <2>4, <2>7, <3>1, <3>2
    <2> QED BY <2>5, <2>8, <2>9
<1>5. CASE d.op \in CmpOps /\ Len(d.args) # 2
    <2>1. d.op # "leaf" /\ d.args[1] \in Value /\ d.k \in Uint /\ d.constFirst \in BOOLEAN
        BY <1>5, OperandsOf DEF CmpOps
    <2> DEFINE op == IF d.constFirst THEN Swap(d.op) ELSE d.op
    <2>2. Compares(op, Eval(e)[d.args[1]], d.k)
        <3>1. Eval(e)[d.args[1]] \in Nat /\ d.k \in Nat
            BY <1>1, <2>1 DEF Uint
        <3>2. CASE d.constFirst
            <4>1. Compares(d.op, d.k, Eval(e)[d.args[1]])
                BY <1>1, <1>5, <3>2, OperateSteps
            <4> QED BY <1>5, <3>1, <3>2, <4>1, SwapFacts
        <3>3. CASE ~ d.constFirst
            BY <1>1, <1>5, <3>3, OperateSteps
        <3> QED BY <3>2, <3>3
    <2> SUFFICES ASSUME d.args[1] \in Leaves,
                        NEW c, c = [value |-> d.args[1], op |-> op, other |-> Interval(d.k, d.k)]
                 PROVE  True(c, e[c.value])
        <3>1. /\ d.args[1] \in Leaves =>
                     Held(Relations(g, r)) = {[value |-> d.args[1], op |-> op,
                                               other |-> Interval(d.k, d.k)]}
              /\ d.args[1] \notin Leaves => Held(Relations(g, r)) = {}
            BY <1>5, RelationCases
        <3> HIDE DEF op, d
        <3> QED BY <3>1
    <2>3. Compares(op, e[d.args[1]], d.k)
        BY <1>2, <2>2
    <2>4. In(d.k, Interval(d.k, d.k))
        BY <2>1, MaxIntIsPositive DEF In, Interval, Uint
    <2> HIDE DEF op, d
    <2> QED BY <2>1, <2>3, <2>4 DEF True
<1>6. CASE d.op \notin CmpOps \union {"leaf"}
    BY <1>6, RelationCases
<1> QED BY <1>3, <1>4, <1>5, <1>6

-----------------------------------------------------------------------------
(* Ranges before any guard is looked at.                                   *)

LEMMA LeavesOfPrograms ==
    ASSUME IsProgram(prog), Graph
    PROVE  /\ Phis \subseteq Leaves \ Fixed
           /\ Made \subseteq Leaves \ Fixed
           /\ \A l \in Phis : PhiArgs(l) \subseteq Leaves /\ PhiArgs(l) # {}
           /\ \A b \in Blocks : \A t \in B(b).phi : t[1] \in Phis /\ t[3] \in PhiArgs(t[1])
<1>1. \A b \in Blocks : b \in All
    BY DEF Graph
<1>2. \A b \in Blocks : B(b).defs \subseteq Leaves \ Fixed /\ PhisOf(b) \subseteq Leaves \ Fixed
    BY <1>1, DefinesFacts
<1>3. \A b \in Blocks : B(b).phi \in SUBSET ((Leaves \ Fixed) \X Nat \X Leaves)
    BY <1>1, FlowTypes DEF Block
<1>4. \A b \in Blocks : \A t \in B(b).phi : t[3] \in Leaves
    BY <1>3
<1>5. \A b \in Blocks : \A t \in B(b).phi : t[1] \in Phis /\ t[3] \in PhiArgs(t[1])
    BY DEF Phis, PhisOf, PhiArgs
<1>6. \A l \in Phis : PhiArgs(l) # {}
    BY <1>5 DEF Phis, PhisOf
<1>7. \A l : PhiArgs(l) \subseteq Leaves
    BY <1>4 DEF PhiArgs
<1> QED BY <1>2, <1>5, <1>6, <1>7 DEF Phis, Made

LEMMA SeededFacts ==
    /\ AreRanges(Seeded)
    /\ \A l \in DOMAIN Seeded : \A n \in Readable[l] : In(n, Seeded[l])
<1>1. ASSUME NEW l \in Bounded \union {c \in Leaves : IsInt(c)}
      PROVE  l \in Leaves /\ Readable[l] \in SUBSET Uint /\ Readable[l] # {}
    <2>1. l \in Leaves
        BY BoundedAreRead
    <2>2. Readable[l] \in SUBSET Uint
        BY <2>1, ReadableAreUints DEF Leaves, Uint
    <2>3. Readable[l] # {}
        BY BoundedAreRead, ConstantsAreFixed
    <2> QED BY <2>1, <2>2, <2>3
<1>2. \A l \in Bounded \union {c \in Leaves : IsInt(c)} : Span(Readable[l]) \in Intervals
    BY <1>1, SpanFacts
<1>3. \A l \in Bounded \union {c \in Leaves : IsInt(c)} :
          \A n \in Readable[l] : In(n, Span(Readable[l]))
    BY <1>1, SpanFacts
<1> QED BY <1>1, <1>2, <1>3 DEF Seeded, AreRanges

\* What the operands of an operation on numbers are.
LEMMA ArithOperands ==
    ASSUME NEW l \in Leaves, Makes[l].op \in Arith
    PROVE  /\ Makes[l].ins[1] \in InputsOf(l) /\ Makes[l].ins[2] \in InputsOf(l)
           /\ InputsOf(l) \subseteq Leaves
           /\ 1 \in DOMAIN Makes[l].ins /\ 2 \in DOMAIN Makes[l].ins
<1> DEFINE m == Makes[l]
<1>1. Len(m.ins) = 2
    BY MakesHasOperands DEF Arith, m
<1>2. m.ins \in Seq(Leaves)
    BY MakesIsOperation
<1> HIDE DEF m
<1>3. 1 \in DOMAIN m.ins /\ 2 \in DOMAIN m.ins /\ \A i \in DOMAIN m.ins : m.ins[i] \in Leaves
    BY <1>1, <1>2
<1> QED BY <1>3 DEF InputsOf, m

\* Why leaf l has its range in r.
Justified(l, r) ==
    \/ l \in DOMAIN Seeded /\ r[l] = Seeded[l]
    \/ /\ l \in Phis /\ PhiArgs(l) \subseteq DOMAIN r
       /\ \A a \in PhiArgs(l) : r[l].lo <= r[a].lo /\ r[a].hi <= r[l].hi
    \/ /\ l \in Computed /\ l \notin Phis
       /\ Makes[l].ins[1] \in DOMAIN r /\ Makes[l].ins[2] \in DOMAIN r
       /\ r[l] = ResultRange(Makes[l].op, r[Makes[l].ins[2]], r[Makes[l].ins[1]])

LEMMA UnconditionalFacts ==
    ASSUME IsProgram(prog), Graph
    PROVE  AreRanges(Unconditional) /\ \A l \in DOMAIN Unconditional : Justified(l, Unconditional)
<1> DEFINE Operand(l) == IF l \in Phis THEN PhiArgs(l) ELSE InputsOf(l)
           Spanned(l, r) ==
               IF l \in Phis THEN Span(UNION {{r[a].lo, r[a].hi} : a \in PhiArgs(l)})
               ELSE ResultRange(Makes[l].op, r[Makes[l].ins[2]], r[Makes[l].ins[1]])
           found(r) == {l \in (Phis \union Computed) \ DOMAIN r :
                           /\ Operand(l) \subseteq DOMAIN r
                           /\ Spanned(l, r).lo <= Spanned(l, r).hi}
           step(r) == [l \in DOMAIN r \union found(r) |-> IF l \in found(r) THEN Spanned(l, r) ELSE r[l]]
           D == UNION {[S -> Intervals] : S \in SUBSET Leaves}
           G == [r \in D |-> step(r)]
           F(f) == [n \in Nat |-> IF n = 0 THEN Seeded ELSE step(f[n - 1])]
           ranges == CHOOSE f : f = F(f)
           N == Cardinality(Phis \union Computed)
<1>1. \A r \in D : AreRanges(r)
    BY DEF AreRanges
<1>2. ASSUME NEW r \in D, NEW l \in found(r)
      PROVE  l \in Leaves /\ Spanned(l, r) \in Intervals /\ Justified(l, step(r))
    <2>1. l \in Phis \union Computed /\ l \notin DOMAIN r /\ Operand(l) \subseteq DOMAIN r
          /\ Spanned(l, r).lo <= Spanned(l, r).hi
        OBVIOUS
    <2>2. \A a \in DOMAIN r : r[a] \in Intervals
        BY <1>1 DEF AreRanges
    <2>3. /\ DOMAIN r \subseteq DOMAIN step(r)
          /\ \A a \in DOMAIN r : step(r)[a] = r[a]
          /\ l \in DOMAIN step(r) /\ step(r)[l] = Spanned(l, r)
        <3> HIDE DEF Spanned, Operand, D
        <3> QED OBVIOUS
    <2> HIDE DEF step, found, D
    <2>4. CASE l \in Phis
        <3> DEFINE S == UNION {{r[a].lo, r[a].hi} : a \in PhiArgs(l)}
        <3>1. l \in Leaves /\ PhiArgs(l) # {} /\ PhiArgs(l) \subseteq DOMAIN r /\ Spanned(l, r) = Span(S)
            BY <2>1, <2>4, LeavesOfPrograms
        <3> HIDE DEF Spanned, Operand
        <3>2. \A a \in PhiArgs(l) : r[a].lo \in Uint /\ r[a].hi \in Uint
            BY <2>2, <3>1 DEF Intervals
        <3>3. S \in SUBSET Uint /\ S # {}
            BY <3>1, <3>2
        <3>4. \A a \in PhiArgs(l) : r[a].lo \in S /\ r[a].hi \in S
            OBVIOUS
        <3> HIDE DEF S
        <3>5. Span(S) \in Intervals /\ \A a \in PhiArgs(l) : In(r[a].lo, Span(S)) /\ In(r[a].hi, Span(S))
            BY <3>3, <3>4, SpanFacts
        <3>6. Justified(l, step(r))
            <4>1. PhiArgs(l) \subseteq DOMAIN step(r)
                BY <2>3, <3>1
            <4>2. \A a \in PhiArgs(l) : step(r)[l].lo <= step(r)[a].lo /\ step(r)[a].hi <= step(r)[l].hi
                BY <2>3, <3>1, <3>5 DEF In
            <4> QED BY <2>4, <4>1, <4>2 DEF Justified
        <3> QED BY <3>1, <3>5, <3>6
    <2>5. CASE l \notin Phis
        <3>1. l \in Leaves /\ l \in Computed /\ Makes[l].op \in Arith
            BY <2>1, <2>5, LeavesOfPrograms DEF Computed
        <3> DEFINE x == Makes[l].ins[2]
                   y == Makes[l].ins[1]
        <3>2. x \in DOMAIN r /\ y \in DOMAIN r /\ Spanned(l, r) = ResultRange(Makes[l].op, r[x], r[y])
            BY <2>1, <2>5, <3>1, ArithOperands
        <3> HIDE DEF Spanned, Operand, x, y
        <3>3. Spanned(l, r) \in Intervals
            BY <2>1, <2>2, <3>1, <3>2, ResultRangeTypes
        <3>4. Justified(l, step(r))
            BY <2>3, <2>5, <3>1, <3>2 DEF Justified, x, y
        <3> QED BY <3>1, <3>3, <3>4
    <2> QED BY <2>4, <2>5
<1>3. \A r \in D : step(r) \in D
    <2> TAKE r \in D
    <2> DEFINE S == DOMAIN r \union found(r)
    <2>1. DOMAIN r \subseteq Leaves /\ \A a \in DOMAIN r : r[a] \in Intervals
        BY <1>1 DEF AreRanges
    <2>2. \A l \in found(r) : l \in Leaves /\ Spanned(l, r) \in Intervals
        BY <1>2
    <2> HIDE DEF found, Spanned
    <2>3. step(r) \in [S -> Intervals] /\ S \in SUBSET Leaves
        BY <2>1, <2>2
    <2> HIDE DEF step, S
    <2> QED BY <2>3
<1>4. Seeded \in D
    <2>1. Seeded \in [DOMAIN Seeded -> Intervals] /\ DOMAIN Seeded \in SUBSET Leaves
        BY SeededFacts DEF AreRanges, Seeded
    <2> QED BY <2>1
<1>5. PICK f \in [Nat -> D] : Iterates(f, Seeded, G)
    <2>1. G \in [D -> D]
        <3> HIDE DEF step, D
        <3> QED BY <1>3
    <2> HIDE DEF G, D
    <2> QED BY <1>4, <2>1, IterationExists
<1>6. f[0] = Seeded /\ \A n \in Nat : f[n] \in D /\ f[n + 1] = step(f[n])
    <2> HIDE DEF step, D
    <2> QED BY <1>5 DEF Iterates
<1>7. f = F(f)
    <2>1. \A n \in Nat : n # 0 => n - 1 \in Nat /\ (n - 1) + 1 = n
        OBVIOUS
    <2> HIDE DEF step, D
    <2> QED BY <1>5, <1>6, <2>1
<1>8. ranges = F(ranges)
    <2> HIDE DEF F
    <2> QED BY <1>7
<1>9. Unconditional = ranges[N]
    BY DEF Unconditional
<1> HIDE DEF ranges
<1>10. ranges[0] = Seeded /\ \A n \in Nat : ranges[n + 1] = step(ranges[n])
    <2>1. \A n \in Nat : n + 1 \in Nat /\ n + 1 # 0 /\ (n + 1) - 1 = n
        OBVIOUS
    <2> HIDE DEF step, D
    <2> QED BY <1>8, <2>1
<1> DEFINE T == {n \in Nat : ranges[n] \in D /\ \A l \in DOMAIN ranges[n] : Justified(l, ranges[n])}
<1>11. \A n \in Nat : n \in T
    <2>1. 0 \in T
        BY <1>4, <1>10 DEF Justified
    <2>2. ASSUME NEW n \in Nat, n \in T PROVE n + 1 \in T
        <3> DEFINE r == ranges[n]
        <3>1. /\ r \in D /\ ranges[n + 1] = step(r)
              /\ \A l \in DOMAIN r : Justified(l, r)
            <4> HIDE DEF step, D
            <4> QED BY <1>10, <2>2
        <3> HIDE DEF r
        <3>2. step(r) \in D
            BY <1>3, <3>1
        <3>3. /\ DOMAIN step(r) = DOMAIN r \union found(r)
              /\ \A l \in DOMAIN r : step(r)[l] = r[l]
            <4>1. \A l \in DOMAIN r : l \notin found(r)
                OBVIOUS
            <4> HIDE DEF found, D, Spanned
            <4> QED BY <4>1
        <3>4. ASSUME NEW l \in DOMAIN r PROVE Justified(l, step(r))
            <4> HIDE DEF step, found, D
            <4>1. Justified(l, r) /\ DOMAIN r \subseteq DOMAIN step(r)
                BY <3>1, <3>3
            <4> QED BY <3>3, <4>1 DEF Justified
        <3>5. \A l \in found(r) : Justified(l, step(r))
            BY <1>2, <3>1
        <3> HIDE DEF step, found, D
        <3>6. \A l \in DOMAIN step(r) : Justified(l, step(r))
            BY <3>3, <3>4, <3>5
        <3> QED BY <3>1, <3>2, <3>6
    <2> HIDE DEF T
    <2> QED BY <2>1, <2>2, NumberInduction
<1>12. N \in Nat
    <2>1. IsFiniteSet(Phis \union Computed)
        <3>1. Phis \union Computed \subseteq Value /\ IsFiniteSet(Value)
            BY LeavesOfPrograms, ValuesAreComputed DEF Computed, Leaves
        <3> QED BY <3>1, FS_Subset
    <2> QED BY <2>1, FS_CardinalityType
<1>13. Unconditional \in D /\ \A l \in DOMAIN Unconditional : Justified(l, Unconditional)
    <2> HIDE DEF D, N
    <2> QED BY <1>9, <1>11, <1>12
<1> QED BY <1>1, <1>13

-----------------------------------------------------------------------------
(* Dominance.                                                              *)

LEMMA AvoidingFacts ==
    ASSUME IsProgram(prog), Graph, NEW g
    PROVE  /\ ReachableAvoiding(g) \subseteq Blocks \ {g}
           /\ 1 # g => 1 \in ReachableAvoiding(g)
           /\ \A b \in ReachableAvoiding(g) : Successors(b) \ {g} \subseteq ReachableAvoiding(g)
           /\ \A K : /\ 1 # g => 1 \in K
                     /\ \A b \in K \cap Blocks : Successors(b) \ {g} \subseteq K
                     => ReachableAvoiding(g) \subseteq K
<1> DEFINE next == [b \in Blocks |-> Successors(b) \ {g}]
           S == {1} \ {g}
           R == Closure(S, next)
<1>1. Blocks \in SUBSET All /\ prog.blocks \in Seq(Block) /\ S \in SUBSET Blocks
    BY FlowTypes DEF Graph
<1>2. next \in [Blocks -> SUBSET Blocks] /\ \A b \in Blocks : next[b] = Successors(b) \ {g}
    BY DEF Graph
<1>3. ReachableAvoiding(g) = R
    BY DEF ReachableAvoiding
<1> HIDE DEF next
<1>4. /\ R \subseteq Blocks /\ S \subseteq R
      /\ \A b \in R : next[b] \subseteq R
      /\ \A K : S \subseteq K /\ (\A b \in K \cap Blocks : next[b] \subseteq K) => R \subseteq K
    <2> HIDE DEF S
    <2> QED BY <1>1, <1>2, ClosureIn
<1> HIDE DEF R
<1>5. R \subseteq Blocks \ {g}
    <2>1. S \subseteq Blocks \ {g}
        BY <1>1
    <2>2. \A b \in (Blocks \ {g}) \cap Blocks : next[b] \subseteq Blocks \ {g}
        BY <1>2
    <2> QED BY <1>4, <2>1, <2>2
<1>6. \A b \in R : Successors(b) \ {g} \subseteq R
    BY <1>2, <1>4
<1>7. ASSUME NEW K, 1 # g => 1 \in K, \A b \in K \cap Blocks : Successors(b) \ {g} \subseteq K
      PROVE  R \subseteq K
    <2>1. S \subseteq K /\ \A b \in K \cap Blocks : next[b] \subseteq K
        BY <1>2, <1>7
    <2> QED BY <1>4, <2>1
<1>8. 1 # g => 1 \in R
    BY <1>4
<1> QED BY <1>3, <1>5, <1>6, <1>7, <1>8

LEMMA DominatesTransitive ==
    ASSUME IsProgram(prog), Graph, NEW h \in Blocks, NEW k \in Blocks, NEW b \in Blocks,
           Dominates(h, k), Dominates(k, b)
    PROVE  Dominates(h, b)
<1> DEFINE H == ReachableAvoiding(h)
           K == ReachableAvoiding(k)
<1>1. k # h /\ k \notin H /\ b # k /\ b \notin K
    BY DEF Dominates
<1>2. /\ H \subseteq Blocks \ {h} /\ K \subseteq Blocks \ {k}
      /\ 1 # h => 1 \in H
      /\ 1 # k => 1 \in K
      /\ \A a \in H : Successors(a) \ {h} \subseteq H
      /\ \A a \in K : Successors(a) \ {k} \subseteq K
    BY AvoidingFacts
<1> HIDE DEF H, K
<1>3. H \subseteq K
    <2> DEFINE both == H \cap K
    <2>1. 1 # h => 1 \in both
        BY <1>1, <1>2
    <2>2. \A a \in both \cap Blocks : Successors(a) \ {h} \subseteq both
        BY <1>1, <1>2
    <2>3. both \subseteq K
        OBVIOUS
    <2> HIDE DEF both
    <2>4. ReachableAvoiding(h) \subseteq both
        BY <2>1, <2>2, AvoidingFacts
    <2> QED BY <2>3, <2>4 DEF H
<1>4. ASSUME b = h PROVE FALSE
    <2>1. 1 \in H
        BY <1>1, <1>2, <1>4
    <2>2. \A a \in H \cap Blocks : Successors(a) \subseteq H
        <3> SUFFICES ASSUME NEW a \in H, h \in Successors(a) PROVE FALSE
            BY <1>2
        <3>1. h \in K
            BY <1>1, <1>2, <1>3
        <3> QED BY <1>1, <1>4, <3>1
    <2>3. Blocks \subseteq H
        BY <2>1, <2>2 DEF Graph
    <2> QED BY <1>2, <2>3
<1> QED BY <1>1, <1>3, <1>4 DEF Dominates, H

-----------------------------------------------------------------------------
(* What the analysis takes from the program does not change.               *)

LEMMA SameAnalysis ==
    ASSUME UNCHANGED program
    PROVE  /\ Blocks' = Blocks /\ Phis' = Phis /\ Unconditional' = Unconditional
           /\ Guards' = Guards
           /\ \A b : B(b)' = B(b) /\ Tests(b)' = Tests(b) /\ Successors(b)' = Successors(b)
           /\ \A g : ReachableAvoiding(g)' = ReachableAvoiding(g)
           /\ \A g, b : Dominates(g, b)' = Dominates(g, b)
           /\ \A v : PhiFed(v)' = PhiFed(v)
           /\ \A v, g : NarrowingIsSound(v, g)' = NarrowingIsSound(v, g)
           /\ \A g, r : Relations(g, r)' = Relations(g, r) /\ Told(g, r)' = Told(g, r)
<1>1. prog' = prog /\ succ' = succ /\ Blocks' = Blocks
    BY DEF program, Blocks
<1>2. \A b : B(b)' = B(b) /\ Successors(b)' = Successors(b)
    BY <1>1, SameText DEF Successors
<1>3. \A b : Tests(b)' = Tests(b)
    BY <1>2 DEF Tests
<1>4. \A g : ReachableAvoiding(g)' = ReachableAvoiding(g)
    <2> TAKE g
    <2>1. [b \in Blocks |-> Successors(b) \ {g}]' = [b \in Blocks |-> Successors(b) \ {g}]
        BY <1>1, <1>2
    <2> QED BY <1>1, <2>1, SameClosure DEF ReachableAvoiding
<1>5. \A g, b : Dominates(g, b)' = Dominates(g, b)
    BY <1>4 DEF Dominates
<1>6. \A v : PhiFed(v)' = PhiFed(v)
    BY <1>1, <1>2 DEF PhiFed, MergedAt
<1>7. \A v, g : UsesApart(v, g)' = UsesApart(v, g)
    BY <1>1, <1>2, <1>3 DEF UsesApart
<1>8. \A v, g : NarrowingIsSound(v, g)' = NarrowingIsSound(v, g)
    BY <1>5, <1>6, <1>7 DEF NarrowingIsSound
<1>9. \A g, r : Relations(g, r)' = Relations(g, r)
    BY <1>2 DEF Relations
<1>10. \A g, r : Told(g, r)' = Told(g, r)
    BY <1>9 DEF Told
<1>11. Guards' = Guards
    <2>1. \A S : InOrder(S)' = InOrder(S)
        BY <1>1 DEF InOrder
    <2>2. {b \in Blocks : B(b).op = "assert"}' = {b \in Blocks : B(b).op = "assert"}
        BY <1>1, <1>2
    <2> QED BY <2>1, <2>2 DEF Guards
<1>12. Phis' = Phis /\ Made' = Made /\ \A l : PhiArgs(l)' = PhiArgs(l)
    BY <1>1, <1>2 DEF Phis, PhisOf, Made, PhiArgs
<1>13. Computed' = Computed
    BY <1>12 DEF Computed
<1>14. Unconditional' = Unconditional
    <2> DEFINE Operand(l) == IF l \in Phis THEN PhiArgs(l) ELSE InputsOf(l)
               Spanned(l, r) ==
                   IF l \in Phis THEN Span(UNION {{r[a].lo, r[a].hi} : a \in PhiArgs(l)})
                   ELSE ResultRange(Makes[l].op, r[Makes[l].ins[2]], r[Makes[l].ins[1]])
               found(r) == {l \in (Phis \union Computed) \ DOMAIN r :
                               /\ Operand(l) \subseteq DOMAIN r
                               /\ Spanned(l, r).lo <= Spanned(l, r).hi}
               F(f) == [n \in Nat |->
                           IF n = 0 THEN Seeded
                           ELSE LET r == f[n - 1] IN
                                [l \in DOMAIN r \union found(r) |->
                                    IF l \in found(r) THEN Spanned(l, r) ELSE r[l]]]
               ranges == CHOOSE f : f = F(f)
               N == Cardinality(Phis \union Computed)
    <2>1. \A l : Operand(l)' = Operand(l)
        BY <1>12
    <2>2. \A l, r : Spanned(l, r)' = Spanned(l, r)
        BY <1>12
    <2> HIDE DEF Operand, Spanned
    <2>3. \A r : found(r)' = found(r)
        BY <1>12, <1>13, <2>1, <2>2
    <2> HIDE DEF found
    <2>4. \A f : F(f)' = F(f)
        BY <2>2, <2>3
    <2> HIDE DEF F
    <2>5. ranges' = ranges
        BY <2>4
    <2>6. N' = N
        BY <1>12, <1>13
    <2>7. Unconditional = ranges[N] /\ Unconditional' = ranges'[N']
        BY DEF Unconditional, F, found, Spanned, Operand
    <2> HIDE DEF ranges, N
    <2> QED BY <2>5, <2>6, <2>7
<1> QED BY <1>1, <1>2, <1>3, <1>4, <1>5, <1>6, <1>8, <1>9, <1>10, <1>11, <1>12, <1>14

-----------------------------------------------------------------------------
(* What a range rests on.  That of v was narrowed by guards that dominate  *)
(* the uses of v; what these say is of ranges that rest on the same guards, *)
(* on those that dominate them, and on unconditional ranges.               *)

Asserting == {b \in Blocks : B(b).op = "assert"}

\* The guards that may narrow v when the ranges are r.
Sayers(v, r) == {k \in Asserting : v \in Told(k, r) /\ NarrowingIsSound(v, k)}

\* These, and the guards passed before them.
Above(v, r) == {h \in Asserting : \E k \in Sayers(v, r) : h = k \/ Dominates(h, k)}

\* With the values e guard g is passed.
PassedWith(g, e) ==
    /\ Eval(e)[B(g).cond] # 0
    /\ \A l \in Tests(g) \cap DOMAIN Unconditional : In(e[l], Unconditional[l])

\* With the values e the guards that the range of v rests on are.
Premise(v, r, e) ==
    /\ v \in DOMAIN Unconditional => In(e[v], Unconditional[v])
    /\ \A h \in Above(v, r) : PassedWith(h, e)

Follow(r) == \A v \in DOMAIN r : \A e \in [Leaves -> Uint] : Premise(v, r, e) => In(e[v], r[v])

\* The range of a phi, and of what is merged, is not narrowed.
Merging(v) == v \in Phis \/ PhiFed(v)

Untouched(r) ==
    \A v \in DOMAIN r : Merging(v) => v \in DOMAIN Unconditional /\ r[v] = Unconditional[v]

RangesInv(r) == AreRanges(r) /\ Follow(r) /\ Untouched(r)

LEMMA AssertingFacts ==
    ASSUME IsProgram(prog), Graph
    PROVE  /\ \A g \in Asserting : /\ g \in Blocks /\ B(g).cond \in Value
                                   /\ Tests(g) = Computing(B(g).cond)
           /\ Guards \in Seq(Asserting) /\ Held(Guards) = Asserting
<1>1. \A g \in Asserting : g \in Blocks /\ g \in All /\ B(g).op = "assert"
    BY DEF Asserting, Graph
<1>2. \A g \in Asserting : B(g).cond \in Value
    BY <1>1, FlowTypes DEF Block
<1>3. \A g \in Asserting : Tests(g) = Computing(B(g).cond)
    BY <1>1 DEF Tests, Testing
<1>4. Asserting \cap All = Asserting /\ prog.blocks \in Seq(Block)
    BY <1>1, FlowTypes
<1>5. Guards = InOrder(Asserting)
    BY DEF Guards, Asserting
<1>6. Guards \in Seq(Asserting \cap All) /\ Held(Guards) = Asserting \cap All
    BY <1>4, <1>5, InOrderFacts
<1> QED BY <1>1, <1>2, <1>3, <1>4, <1>6

LEMMA UnconditionalHolds ==
    ASSUME IsProgram(prog), Graph
    PROVE  RangesInv(Unconditional)
BY UnconditionalFacts DEF RangesInv, Follow, Premise, Untouched

\* What a guard tests rests on no guard but those that what it narrows rests on.
LEMMA AboveTests ==
    ASSUME IsProgram(prog), Graph, NEW r, NEW s, NEW g \in Asserting, NEW v, NEW w,
           w \in Tests(g), g \in Sayers(v, s)
    PROVE  Above(w, r) \subseteq Above(v, s)
<1> SUFFICES ASSUME NEW h \in Above(w, r) PROVE h \in Above(v, s)
    OBVIOUS
<1>1. PICK k \in Sayers(w, r) : h = k \/ Dominates(h, k)
    BY DEF Above
<1>2. h \in Asserting /\ h \in Blocks /\ k \in Blocks /\ g \in Blocks
    BY DEF Above, Sayers, Asserting
<1>3. CASE k = g
    BY <1>1, <1>2, <1>3 DEF Above
<1>4. CASE k # g
    <2>1. g \in UsesApart(w, k)
        BY <1>2, <1>4 DEF UsesApart
    <2>2. Dominates(k, g)
        BY <2>1 DEF Sayers, NarrowingIsSound
    <2>3. Dominates(h, g)
        BY <1>1, <1>2, <2>2, DominatesTransitive
    <2> QED BY <1>2, <2>3 DEF Above
<1> QED BY <1>3, <1>4

\* What a guard says of v is true of every value of v that what it rests on leaves.
LEMMA NarrowingFollows ==
    ASSUME IsProgram(prog), Graph, NEW r, NEW s, RangesInv(r), AreRanges(s),
           DOMAIN r \subseteq DOMAIN s, NEW g \in Asserting, NEW v \in Told(g, r),
           NarrowingIsSound(v, g), NEW e \in [Leaves -> Uint], Premise(v, s, e)
    PROVE  In(e[v], Narrowed(v, From(v, r), Relations(g, r)))
<1>1. B(g).cond \in Value /\ Tests(g) = Computing(B(g).cond) /\ AreRanges(r)
    BY AssertingFacts DEF RangesInv
<1>2. v \in Told(g, s) /\ v \in Leaves
    BY <1>1, AboutFacts
<1>3. g \in Sayers(v, s) /\ g \in Above(v, s)
    BY <1>2 DEF Sayers, Above
<1>4. PassedWith(g, e)
    BY <1>3 DEF Premise
<1>6. Above(v, r) \subseteq Above(v, s)
    <2>1. \A k \in Asserting : Told(k, r) \subseteq Told(k, s)
        BY <1>1, AssertingFacts, AboutFacts
    <2>2. Sayers(v, r) \subseteq Sayers(v, s)
        BY <2>1 DEF Sayers
    <2> QED BY <2>2 DEF Above
<1>7. ASSUME NEW w \in DOMAIN r, w \in Tests(g) PROVE In(e[w], r[w])
    <2>1. Above(w, r) \subseteq Above(v, s)
        BY <1>3, <1>7, AboveTests
    <2>2. w \in DOMAIN Unconditional => In(e[w], Unconditional[w])
        BY <1>4, <1>7 DEF PassedWith
    <2>3. Premise(w, r, e)
        BY <2>1, <2>2 DEF Premise
    <2> QED BY <2>3 DEF RangesInv, Follow
<1>8. In(e[v], From(v, r)) /\ From(v, r) \in Intervals /\ e[v] \in Uint
    <2>1. CASE v \in DOMAIN r
        <3>1. Premise(v, r, e)
            BY <1>6 DEF Premise
        <3> QED BY <1>1, <1>2, <2>1, <3>1 DEF RangesInv, Follow, From, AreRanges
    <2>2. CASE v \notin DOMAIN r
        BY <1>2, <2>2, MaxIntIsPositive DEF From, In, Interval, Intervals, Uint
    <2> QED BY <2>1, <2>2
<1>9. \A c \in Held(Relations(g, r)) : True(c, e[c.value])
    BY <1>1, <1>4, <1>7, RelationsHold DEF PassedWith
<1> DEFINE w == Relations(g, r)
<1>10. w \in Seq(Relating) /\ \A i \in DOMAIN w : w[i].value = v => True(w[i], e[v])
    BY <1>1, <1>9, RelationCases DEF Held
<1> HIDE DEF w
<1>11. In(e[v], Narrowed(v, From(v, r), w))
    BY <1>8, <1>10, NarrowedFacts
<1> QED BY <1>11 DEF w

\* A guard narrows ranges to ranges.
LEMMA NarrowingTypes ==
    ASSUME IsProgram(prog), Graph, NEW r, AreRanges(r), NEW g \in Asserting
    PROVE  \A v : Narrowed(v, From(v, r), Relations(g, r)) \in Intervals
<1> TAKE v
<1>1. B(g).cond \in Value
    BY AssertingFacts
<1>2. From(v, r) \in Intervals
    BY MaxIntIsPositive DEF From, Interval, Intervals, Uint, AreRanges
<1> QED BY <1>1, <1>2, RelationCases, NarrowedFacts

LEMMA RefineRanges ==
    ASSUME IsProgram(prog), Graph, RangesInv(range), NEW g \in Asserting, NEW narrowed, NEW s,
           narrowed = Narrowing(g),
           s = [v \in DOMAIN range \union narrowed |-> IF v \in narrowed THEN NewRange(v, g) ELSE range[v]]
    PROVE  RangesInv(s)
<1>1. /\ B(g).cond \in Value /\ AreRanges(range)
      /\ Concerned(g) = Told(g, range)
    <2>1. Concerned(g) = Told(g, range)
        BY DEF Concerned, Told, Held
    <2> QED BY <2>1, AssertingFacts DEF RangesInv
<1>2. \A v \in narrowed : v \in Told(g, range) /\ v \notin Phis /\ NarrowingIsSound(v, g)
    BY <1>1 DEF Narrowing
<1>3. \A v : NewRange(v, g) = Narrowed(v, From(v, range), Relations(g, range))
    BY DEF NewRange
<1>4. AreRanges(s)
    <2>1. \A v \in narrowed : v \in Leaves
        BY <1>1, <1>2, AboutFacts
    <2>2. \A v \in narrowed : NewRange(v, g) \in Intervals
        BY <1>1, <1>3, NarrowingTypes
    <2> QED BY <1>1, <2>1, <2>2 DEF AreRanges
<1>5. DOMAIN range \subseteq DOMAIN s
    OBVIOUS
<1>6. Follow(s)
    <2> SUFFICES ASSUME NEW v \in DOMAIN s, NEW e \in [Leaves -> Uint], Premise(v, s, e)
                 PROVE  In(e[v], s[v])
        BY DEF Follow
    <2>1. CASE v \in narrowed
        <3>1. s[v] = NewRange(v, g)
            BY <2>1
        <3>2. In(e[v], Narrowed(v, From(v, range), Relations(g, range)))
            BY <1>2, <1>4, <1>5, <2>1, NarrowingFollows
        <3> QED BY <1>3, <3>1, <3>2
    <2>2. CASE v \notin narrowed
        <3>1. v \in DOMAIN range /\ s[v] = range[v]
            BY <2>2
        <3>2. \A k \in Asserting : Told(k, range) \subseteq Told(k, s)
            BY <1>1, <1>4, <1>5, AssertingFacts, AboutFacts
        <3>3. Sayers(v, range) \subseteq Sayers(v, s)
            BY <3>2 DEF Sayers
        <3>4. Above(v, range) \subseteq Above(v, s)
            BY <3>3 DEF Above
        <3>5. Premise(v, range, e)
            BY <3>4 DEF Premise
        <3> QED BY <3>1, <3>5 DEF RangesInv, Follow
    <2> QED BY <2>1, <2>2
<1>7. Untouched(s)
    <2> SUFFICES ASSUME NEW v \in DOMAIN s, Merging(v)
                 PROVE  v \in DOMAIN Unconditional /\ s[v] = Unconditional[v]
        BY DEF Untouched
    <2>1. v \notin narrowed
        BY <1>2 DEF Merging, NarrowingIsSound
    <2>2. v \in DOMAIN range /\ s[v] = range[v]
        BY <2>1
    <2> QED BY <2>2 DEF RangesInv, Untouched
<1> QED BY <1>4, <1>6, <1>7 DEF RangesInv

\* The analysis.
AnalysisInv == RangesInv(range) /\ todo \in Seq(Asserting)

LEMMA SameRanges ==
    ASSUME UNCHANGED program
    PROVE  Asserting' = Asserting /\ \A r : RangesInv(r)' = RangesInv(r)
<1>1. Asserting' = Asserting
    BY SameAnalysis DEF Asserting
<1>2. \A v, r : Sayers(v, r)' = Sayers(v, r)
    BY <1>1, SameAnalysis DEF Sayers
<1>3. \A v, r : Above(v, r)' = Above(v, r)
    BY <1>1, <1>2, SameAnalysis DEF Above
<1>4. \A g, e : PassedWith(g, e)' = PassedWith(g, e)
    BY SameAnalysis DEF PassedWith
<1>5. \A v, r, e : Premise(v, r, e)' = Premise(v, r, e)
    BY <1>3, <1>4, SameAnalysis DEF Premise
<1>6. \A r : Follow(r)' = Follow(r)
    BY <1>5 DEF Follow
<1>7. \A r : Untouched(r)' = Untouched(r)
    BY SameAnalysis DEF Untouched, Merging
<1> QED BY <1>1, <1>6, <1>7 DEF RangesInv, AreRanges

\* No step of the machine or of the analysis changes the program.
LEMMA TextStays == [Next]_vars => UNCHANGED program
<1> SUFFICES ASSUME [Next]_vars PROVE UNCHANGED program
    OBVIOUS
<1>1. \A b, e, d : Enter(b, e, d) => UNCHANGED program
    BY DEF Enter
<1>2. CASE Refine \/ AnotherRound \/ UNCHANGED vars
    BY <1>2 DEF Refine, AnotherRound, vars, machineVars
<1>3. CASE Start
    BY <1>1, <1>3 DEF Start, Begin
<1>4. CASE Execute
    BY <1>1, <1>4 DEF Execute, Run, Step, Call, Return, Halt
<1> QED BY <1>2, <1>3, <1>4 DEF Next

LEMMA AnalysisInit == Init => AnalysisInv
<1> SUFFICES ASSUME Init PROVE AnalysisInv
    OBVIOUS
<1>1. IsProgram(prog) /\ Graph
    BY MachineGraph DEF Init, InitMachine
<1> QED BY <1>1, UnconditionalHolds, AssertingFacts DEF Init, AnalysisInv

LEMMA AnalysisStep == MachineInv /\ AnalysisInv /\ [Next]_vars => AnalysisInv'
<1> SUFFICES ASSUME MachineInv, AnalysisInv, [Next]_vars PROVE AnalysisInv'
    OBVIOUS
<1>1. IsProgram(prog) /\ Graph
    BY MachineGraph DEF MachineInv
<1>2. UNCHANGED program
    BY TextStays
<1>3. Asserting' = Asserting /\ Guards' = Guards /\ \A r : RangesInv(r)' = RangesInv(r)
    BY <1>2, SameRanges, SameAnalysis
<1>4. CASE Refine
    <2> DEFINE g == Head(todo)
               narrowed == Narrowing(g)
    <2>1. g \in Asserting /\ todo' \in Seq(Asserting)
        BY <1>4 DEF Refine, AnalysisInv
    <2>2. range' = [v \in DOMAIN range \union narrowed |->
                       IF v \in narrowed THEN NewRange(v, g) ELSE range[v]]
        BY <1>4 DEF Refine
    <2> HIDE DEF g, narrowed
    <2>3. RangesInv(range')
        BY <1>1, <2>1, <2>2, RefineRanges DEF AnalysisInv, narrowed
    <2> QED BY <1>3, <2>1, <2>3 DEF AnalysisInv
<1>5. CASE AnotherRound
    <2>1. range' = range /\ todo' = Guards
        BY <1>5 DEF AnotherRound
    <2> QED BY <1>1, <1>3, <2>1, AssertingFacts DEF AnalysisInv
<1>6. CASE Start \/ Execute \/ UNCHANGED vars
    <2>1. range' = range /\ todo' = todo
        BY <1>6 DEF Start, Execute, analysisVars, vars
    <2> QED BY <1>3, <2>1 DEF AnalysisInv
<1> QED BY <1>4, <1>5, <1>6 DEF Next


-----------------------------------------------------------------------------
(* What a run makes.                                                       *)

\* What is made depends on the values it is made from.
LEMMA FailsAgree ==
    ASSUME NEW l \in Leaves, NEW d, NEW e, \A i \in InputsOf(l) : d[i] = e[i]
    PROVE  Fails(l, d) = Fails(l, e)
<1> DEFINE m == Makes[l]
<1>1. /\ \A i \in DOMAIN m.ins : d[m.ins[i]] = e[m.ins[i]]
      /\ m.ins \in Seq(Leaves) /\ m.imm \in Seq(Nat)
      /\ m.op \in {"read", "int", "bytes", "len"} \union Arith \union ByteOps
    BY MakesIsOperation DEF InputsOf
<1>2. /\ m.op \in {"extract", "substring"} => Len(m.ins) = 1
      /\ m.op \in Arith \union {"getbyte", "extract_uint16"} => Len(m.ins) = 2
      /\ m.op \in {"extract3", "substring3", "setbyte"} => Len(m.ins) = 3
    BY MakesHasOperands DEF Arith, m
<1> HIDE DEF m
<1>3. CASE m.op \in {"read", "int", "bytes", "len"}
    <2>1. Fail(m, d) = FALSE /\ Fail(m, e) = FALSE
        BY <1>3 DEF Fail, ByteOps, Slices
    <2> QED BY <2>1 DEF Fails, m
<1>4. CASE m.op \in Arith
    <2>1. 1 \in DOMAIN m.ins /\ 2 \in DOMAIN m.ins
        BY <1>1, <1>2, <1>4
    <2>2. Left(m, d) = Left(m, e) /\ Right(m, d) = Right(m, e)
        BY <1>1, <2>1 DEF Left, Right
    <2> HIDE <1>1
    <2>3. Fail(m, d) = Fail(m, e)
        BY <1>4, <2>2 DEF Fail, Arith
    <2> QED BY <2>3 DEF Fails, m
<1>5. CASE m.op \in ByteOps
    <2>1. Len(m.ins) \in {1, 2, 3}
        BY <1>2, <1>5 DEF ByteOps, Slices
    <2>2. d[BufferOf(m)] = e[BufferOf(m)]
        <3>1. Len(m.ins) \in DOMAIN m.ins
            <4> DEFINE s == m.ins
            <4>1. s \in Seq(Leaves) /\ Len(s) \in {1, 2, 3}
                BY <1>1, <2>1
            <4> HIDE DEF s
            <4>2. Len(s) \in DOMAIN s
                BY <4>1
            <4> QED BY <4>2 DEF s
        <3> QED BY <1>1, <3>1 DEF BufferOf
    <2>3. \A i \in {1, 2} : i <= Len(m.ins) => d[m.ins[i]] = e[m.ins[i]]
        BY <1>1, <2>1
    <2>4. Window(m, d) = Window(m, e)
        BY <1>2, <1>5, <2>2, <2>3 DEF Window, ByteOps, Slices
    <2>5. /\ Fail(m, d) = LET w == Window(m, d) IN ~ (w.from <= w.to /\ w.to <= d[BufferOf(m)])
          /\ Fail(m, e) = LET w == Window(m, e) IN ~ (w.from <= w.to /\ w.to <= e[BufferOf(m)])
        BY <1>5 DEF Fail, ByteOps, Slices
    <2>6. Fail(m, d) = Fail(m, e)
        BY <2>2, <2>4, <2>5
    <2> QED BY <2>6 DEF Fails, m
<1> QED BY <1>1, <1>3, <1>4, <1>5

\* What a block that is entered makes of the values e.
LEMMA EnterMakes ==
    ASSUME IsProgram(prog), NEW b \in All, NEW e \in [Leaves -> Uint], NEW d \in SUBSET Leaves,
           Enter(b, e, d), NEW l \in B(b).defs
    PROVE  /\ l \in Leaves \ Fixed /\ env'[l] \in IF Fails(l, e) THEN {0} ELSE Results(l, e)
           /\ InputsOf(l) \subseteq B(b).uses \ B(b).defs
           /\ InputsOf(l) \subseteq Reads(b)
           /\ Fails(l, env') = Fails(l, e)
<1>1. PICK read \in Readings(B(b).defs, e) :
          env' = [x \in Leaves |-> IF x \in B(b).defs THEN read[x] ELSE e[x]]
    BY DEF Enter
<1>2. l \in Leaves \ Fixed
    BY DefinesFacts
<1>3. read[l] \in IF Fails(l, e) THEN {0} ELSE Results(l, e)
    BY DEF Readings
<1>4. InputsOf(l) \subseteq B(b).uses \ B(b).defs /\ B(b).uses \subseteq Value
    <2>1. B(b) \in Block /\ Linked(B(b), prog.blocks)
        BY FlowTypes DEF IsProgram, B, All
    <2> QED BY <2>1 DEF Linked, Block
<1>5. InputsOf(l) \subseteq Reads(b)
    <2>1. \A v \in Value : v \in Computing(v)
        BY ComputingSteps
    <2> QED BY <1>4, <2>1 DEF Reads
<1>6. InputsOf(l) \subseteq Leaves
    BY <1>2, MakesIsOperation DEF InputsOf
<1>7. \A i \in InputsOf(l) : env'[i] = e[i]
    BY <1>1, <1>4, <1>6
<1>8. Fails(l, env') = Fails(l, e)
    BY <1>2, <1>7, FailsAgree
<1> QED BY <1>1, <1>2, <1>3, <1>4, <1>5, <1>8

\* The leaves that are read, from the program's text or from outside it.
Source(l) == l \in Leaves /\ Makes[l].op \in {"read", "int", "bytes"}

LEMMA SourceMakes ==
    ASSUME NEW l, Source(l), NEW e
    PROVE  ~ Fails(l, e) /\ Results(l, e) = Readable[l]
BY DEF Source, Fails, Fail, Results, Outputs, ByteOps, Slices

\* What is known of the leaves in S with the values e: each is in its unconditional range,
\* and one that is read from outside is of what may be read.
Knows(S, e) ==
    /\ \A l \in S \cap DOMAIN Unconditional : In(e[l], Unconditional[l])
    /\ \A l \in S \ Phis : Source(l) => e[l] \in Readable[l]

\* The leaves with a range, by what it rests on.
LEMMA SeedsAreNoPhis ==
    ASSUME prog \in Programs, IsProgram(prog), Graph
    PROVE  /\ DOMAIN Seeded \subseteq Leaves \ Phis
           /\ \A l \in Bounded : Makes[l].op = "len" =>
                  Buffer(l) \in InputsOf(l) \ Phis /\ Buffer(l) = Makes[l].ins[1] /\ Source(Buffer(l))
<1>1. Phis = UNION {PhisOf(b) : b \in Blocks} /\ Phis \subseteq Leaves \ Fixed
    <2>1. \A b \in Blocks : b \in All /\ PhisOf(b) \subseteq Leaves \ Fixed
        BY DefinesFacts DEF Graph
    <2> QED BY <2>1 DEF Phis
<1>2. \A b \in Blocks : b \in DOMAIN prog.blocks /\ PhisOf(b) = {t[1] : t \in prog.blocks[b].phi}
    BY FlowTypes DEF PhisOf, B, Graph, All, IsProgram
<1>3. ASSUME NEW l \in Bounded
      PROVE  l \in Leaves \ Phis /\ (Makes[l].op = "len" => Buffer(l) \notin Phis)
    <2>1. l \in Leaves
        BY BoundedAreRead
    <2>2. \A b \in Blocks : \A t \in prog.blocks[b].phi :
              t[1] # l /\ (Makes[l].op = "len" => t[1] # Buffer(l))
        BY <1>2, BoundedAreNoPhis
    <2> QED BY <1>1, <1>2, <2>1, <2>2
<1>4. \A l \in Leaves : IsInt(l) => l \in Leaves \ Phis
    BY <1>1, ConstantsAreFixed
<1>5. DOMAIN Seeded \subseteq Leaves \ Phis
    BY <1>3, <1>4 DEF Seeded
<1>6. ASSUME NEW l \in Bounded, Makes[l].op = "len"
      PROVE  Buffer(l) \in InputsOf(l) /\ Buffer(l) = Makes[l].ins[1] /\ Source(Buffer(l))
    <2> DEFINE m == Makes[l]
    <2>1. l \in Leaves /\ Makes[Buffer(l)].op \in {"read", "bytes"}
        BY <1>6, BoundedAreRead
    <2>2. Len(m.ins) = 1
        BY <1>6, <2>1, MakesHasOperands DEF Arith
    <2>3. m.ins \in Seq(Leaves)
        BY <2>1, MakesIsOperation
    <2> HIDE DEF m
    <2>4. 1 \in DOMAIN m.ins /\ m.ins[1] \in Leaves
        BY <2>2, <2>3
    <2> QED BY <2>1, <2>2, <2>4 DEF Buffer, BufferOf, InputsOf, Source, m
<1> QED BY <1>3, <1>5, <1>6

\* Why a range is one of a leaf that an operation makes, or that does not change.
LEMMA JustifiedMade ==
    ASSUME prog \in Programs, IsProgram(prog), Graph, NEW l \in DOMAIN Unconditional, l \notin Phis
    PROVE  \/ /\ l \in DOMAIN Seeded /\ Unconditional[l] = Span(Readable[l])
              /\ \A n \in Readable[l] : In(n, Unconditional[l])
           \/ /\ l \in Made /\ Makes[l].op \in Arith
              /\ InputsOf(l) \subseteq Leaves
              /\ Makes[l].ins[1] \in InputsOf(l) \cap DOMAIN Unconditional
              /\ Makes[l].ins[2] \in InputsOf(l) \cap DOMAIN Unconditional
              /\ Unconditional[l] = ResultRange(Makes[l].op, Unconditional[Makes[l].ins[2]],
                                                Unconditional[Makes[l].ins[1]])
<1>1. Justified(l, Unconditional) /\ l \in Leaves
    BY UnconditionalFacts DEF AreRanges
<1>2. CASE l \in DOMAIN Seeded /\ Unconditional[l] = Seeded[l]
    BY <1>2, SeededFacts DEF Seeded
<1>3. CASE l \in Computed
    <2>1. Makes[l].op \in Arith /\ l \in Made
        BY <1>3 DEF Computed
    <2> QED BY <1>1, <1>2, <2>1, ArithOperands DEF Justified
<1> QED BY <1>1, <1>2, <1>3 DEF Justified

\* What an operation with a range makes of what is known is in that range.
LEMMA MakesInRange ==
    ASSUME prog \in Programs, IsProgram(prog), Graph, NEW l \in DOMAIN Unconditional, l \notin Phis,
           l \notin Fixed, NEW e \in [Leaves -> Uint], Knows(InputsOf(l), e), ~ Fails(l, e),
           NEW n, n \in Results(l, e)
    PROVE  In(n, Unconditional[l])
<1> DEFINE U == Unconditional
<1>1. AreRanges(U) /\ l \in Leaves
    BY UnconditionalFacts DEF AreRanges
<1>2. CASE l \in DOMAIN Seeded /\ U[l] = Span(Readable[l]) /\ \A k \in Readable[l] : In(k, U[l])
    <2>1. l \in Bounded
        BY <1>1, <1>2, ConstantsAreFixed DEF Seeded
    <2>2. CASE Makes[l].op \in {"read", "bytes", "getbyte", "extract_uint16"}
        <3>1. Results(l, e) = Readable[l]
            BY <2>2 DEF Results, Outputs, Slices
        <3> QED BY <1>2, <3>1
    <2>3. CASE Makes[l].op = "len"
        <3>1. Buffer(l) \in InputsOf(l) \ Phis /\ Buffer(l) = Makes[l].ins[1] /\ Source(Buffer(l))
            BY <2>1, <2>3, SeedsAreNoPhis
        <3>2. Results(l, e) = {e[Buffer(l)]}
            BY <2>3, <3>1 DEF Results, Outputs, Slices
        <3>3. n \in Readable[Buffer(l)] /\ n \in Uint
            BY <3>1, <3>2 DEF Knows, Source
        <3>4. PICK i, j \in Readable[l] : i <= n /\ n <= j
            BY <2>1, <2>3, <3>3, BoundedAreRead
        <3>5. /\ In(i, U[l]) /\ In(j, U[l]) /\ U[l] \in Intervals
              /\ i \in Uint /\ j \in Uint
            BY <1>1, <1>2, <3>4, ReadableAreUints DEF AreRanges, Leaves, Uint
        <3> QED BY <3>3, <3>4, <3>5 DEF In, Intervals, Uint
    <2> QED BY <2>1, <2>2, <2>3, BoundedAreRead
<1>3. CASE /\ Makes[l].op \in Arith
           /\ InputsOf(l) \subseteq Leaves
           /\ Makes[l].ins[1] \in InputsOf(l) \cap DOMAIN U
           /\ Makes[l].ins[2] \in InputsOf(l) \cap DOMAIN U
           /\ U[l] = ResultRange(Makes[l].op, U[Makes[l].ins[2]], U[Makes[l].ins[1]])
    <2> DEFINE x == Left(Makes[l], e)
               y == Right(Makes[l], e)
               a == U[Makes[l].ins[2]]
               b == U[Makes[l].ins[1]]
               op == Makes[l].op
    <2>1. In(x, a) /\ In(y, b) /\ x \in Uint /\ y \in Uint /\ a \in Intervals /\ b \in Intervals
        BY <1>1, <1>3 DEF Knows, AreRanges, Left, Right
    <2>2. U[l] = ResultRange(op, a, b) /\ op \in Arith
        BY <1>3
    <2>3. /\ op = "+" => x + y <= MaxInt /\ n = x + y
          /\ op = "-" => x >= y /\ n = x - y
          /\ op = "*" => x * y <= MaxInt /\ n = x * y
          /\ op = "/" => y # 0 /\ n = x \div y
          /\ op = "%" => y # 0 /\ n = x % y
        <3>1. x \in Nat /\ y \in Nat /\ MaxInt \in Nat
            BY <2>1, MaxIntIsPositive DEF Uint
        <3>2. x * y \in Nat
            BY <3>1
        <3>3. ~ Fail(Makes[l], e) /\ n \in Outputs(Makes[l], e, Readable[l])
            BY DEF Fails, Results
        <3> HIDE DEF x, y
        <3>4. CASE op = "+"
            BY <3>1, <3>3, <3>4 DEF Fail, Outputs, ByteOps, Slices, x, y
        <3>5. CASE op = "-"
            BY <3>1, <3>3, <3>5 DEF Fail, Outputs, ByteOps, Slices, x, y
        <3>6. CASE op = "*"
            <4>1. ~ (x * y > MaxInt) /\ n \in {x * y}
                BY <3>3, <3>6 DEF Fail, Outputs, ByteOps, Slices, x, y
            <4> DEFINE z == x * y
            <4> HIDE DEF z
            <4>2. z <= MaxInt /\ n = z
                BY <3>1, <3>2, <4>1 DEF z
            <4> QED BY <3>6, <4>2 DEF z
        <3>7. CASE op = "/"
            BY <3>1, <3>3, <3>7 DEF Fail, Outputs, ByteOps, Slices, x, y
        <3>8. CASE op = "%"
            BY <3>1, <3>3, <3>8 DEF Fail, Outputs, ByteOps, Slices, x, y
        <3> QED BY <2>2, <3>4, <3>5, <3>6, <3>7, <3>8 DEF Arith
    <2> HIDE DEF x, y, a, b, op
    <2> QED BY <2>1, <2>2, <2>3, ResultInRange DEF Arith
<1> QED BY <1>2, <1>3, JustifiedMade

-----------------------------------------------------------------------------
(* The run.                                                                *)

\* Block b is entered with the values e, of which the leaves in K are known.
LEMMA EnterKnows ==
    ASSUME prog \in Programs, IsProgram(prog), Graph, SingleAssignment,
           NEW b \in Blocks, NEW e \in [Leaves -> Uint], NEW d \in SUBSET Leaves, Enter(b, e, d),
           NEW K \in SUBSET (Leaves \ B(b).defs), Knows(K, e),
           \A l \in Reads(b) \cap Leaves : l \in K \union B(b).defs
    PROVE  /\ \A l \in DOMAIN Unconditional \cap (K \union B(b).defs) :
                  \/ In(env'[l], Unconditional[l])
                  \/ l \in B(b).defs /\ Fails(l, env')
           /\ \A l \in (K \union B(b).defs) \ Phis : Source(l) => env'[l] \in Readable[l]
<1>1. b \in All /\ \A l \in Leaves \ B(b).defs : env'[l] = e[l]
    BY EnterFacts DEF Graph
<1>2. ASSUME NEW l \in B(b).defs
      PROVE  /\ l \in Leaves \ Fixed /\ env'[l] \in IF Fails(l, e) THEN {0} ELSE Results(l, e)
             /\ InputsOf(l) \subseteq K
             /\ Fails(l, env') = Fails(l, e)
    <2>1. l \in Leaves
        BY <1>1, EnterMakes
    <2>2. Makes[l].ins \in Seq(Leaves)
        BY <2>1, MakesIsOperation
    <2>3. InputsOf(l) \subseteq Leaves
        BY <2>2 DEF InputsOf
    <2> QED BY <1>1, <2>3, EnterMakes
<1>3. ASSUME NEW l \in B(b).defs PROVE l \notin Phis
    <2> SUFFICES ASSUME NEW c \in Blocks, l \in PhisOf(c) PROVE FALSE
        BY DEF Phis
    <2>1. b \in Definitions(l) /\ c \in Definitions(l)
        BY DEF Definitions, Defines
    <2>2. c = b
        BY <1>2, <2>1, OneDefinition
    <2>3. l \notin PhisOf(b)
        <3>1. Linked(B(b), prog.blocks)
            BY <1>1, FlowTypes DEF IsProgram, B, All
        <3> QED BY <3>1 DEF Linked, PhisOf
    <2> QED BY <2>2, <2>3
<1>4. ASSUME NEW l \in DOMAIN Unconditional, l \in K PROVE In(env'[l], Unconditional[l])
    BY <1>1, <1>4 DEF Knows
<1>5. ASSUME NEW l \in DOMAIN Unconditional, l \in B(b).defs, ~ Fails(l, env')
      PROVE  In(env'[l], Unconditional[l])
    <2>1. ~ Fails(l, e) /\ env'[l] \in Results(l, e)
        BY <1>2, <1>5
    <2>2. Knows(InputsOf(l), e)
        BY <1>2, <1>5 DEF Knows
    <2> QED BY <1>2, <1>3, <1>5, <2>1, <2>2, MakesInRange
<1>6. ASSUME NEW l \in K, l \notin Phis, Source(l) PROVE env'[l] \in Readable[l]
    BY <1>1, <1>6 DEF Knows
<1>7. ASSUME NEW l \in B(b).defs, Source(l) PROVE env'[l] \in Readable[l]
    <2>1. ~ Fails(l, e) /\ Results(l, e) = Readable[l]
        BY <1>7, SourceMakes
    <2> QED BY <1>2, <2>1
<1> QED BY <1>4, <1>5, <1>6, <1>7

\* A leaf that guard g tests is defined before g can be passed.
TestedLate(g, l) ==
    l \in (Tests(g) \cap Leaves) \ Fixed /\ Definitions(l) \cap (ReachableAvoiding(g) \union {g}) = {}

Late == \A g \in Asserting : \A l \in Leaves : TestedLate(g, l) =>
            at \in ReachableAvoiding(g) /\ l \notin Defined

\* A guard that the run cannot have come around was passed with the values it has now.
Passed == \A g \in Asserting : at \notin ReachableAvoiding(g) \union {g} => PassedWith(g, env)

\* What has been defined is in its unconditional range, but for what has just failed.
RangesHold ==
    \A l \in DOMAIN Unconditional \cap (Fixed \union Defined) :
        In(env[l], Unconditional[l]) \/ (l \in B(at).defs /\ Fails(l, env))

Sourced == \A l \in (Fixed \union Defined) \ Phis : Source(l) => env[l] \in Readable[l]

RunInv == mode = "run" => Late /\ Passed /\ RangesHold /\ Sourced

LEMMA SameRun ==
    ASSUME UNCHANGED <<program, at, env, own, frames>>
    PROVE  (Late /\ Passed /\ RangesHold /\ Sourced)' = (Late /\ Passed /\ RangesHold /\ Sourced)
<1>1. at' = at /\ env' = env /\ own' = own /\ frames' = frames /\ UNCHANGED program
    OBVIOUS
<1>2. /\ Asserting' = Asserting /\ Phis' = Phis /\ Unconditional' = Unconditional
      /\ \A g : ReachableAvoiding(g)' = ReachableAvoiding(g) /\ Tests(g)' = Tests(g) /\ B(g)' = B(g)
      /\ \A l : Definitions(l)' = Definitions(l)
    BY <1>1, SameRanges, SameAnalysis, SameScope
<1>3. Defined' = Defined
    BY <1>1 DEF Defined
<1>4. \A g, l : TestedLate(g, l)' = TestedLate(g, l)
    BY <1>2 DEF TestedLate
<1>5. \A g, e : PassedWith(g, e)' = PassedWith(g, e)
    BY <1>2 DEF PassedWith
<1>6. \A g : PassedWith(g, env)' = PassedWith(g, env)
    BY <1>1, <1>2 DEF PassedWith
<1>7. B(at)' = B(at)
    BY <1>1, <1>2
<1>8. Late' = Late
    BY <1>1, <1>2, <1>3, <1>4 DEF Late
<1>9. Passed' = Passed
    BY <1>1, <1>2, <1>6 DEF Passed
<1>10. RangesHold' = RangesHold
    BY <1>1, <1>2, <1>3, <1>7 DEF RangesHold
<1>11. Sourced' = Sourced
    BY <1>1, <1>2, <1>3 DEF Sourced
<1> QED BY <1>8, <1>9, <1>10, <1>11

\* When no operation has failed.
LEMMA KnownNow ==
    ASSUME mode = "run", ~ Panics, RangesHold, Sourced
    PROVE  Knows(Fixed \union Defined, env)
BY DEF Panics, RangesHold, Sourced, Knows

\* What a block reads is known.
LEMMA ReadsAreKnown ==
    ASSUME Running, NEW l \in Leaves, l \in Reads(at)
    PROVE  l \in Fixed \union Defined
BY ReadsAreOwn DEF Running, Scoped, CallsInv, MachineInv, Defined

\* So is what a phi takes.
LEMMA ArgumentsAreKnown ==
    ASSUME Running, NEW b \in Blocks, b \in Successors(at), NEW t \in B(b).phi, t[2] = at
    PROVE  t[3] \in Leaves /\ t[3] \in Fixed \union Defined
<1>1. IsProgram(prog) /\ Graph /\ at \in Blocks /\ b \in All
    BY MachineGraph DEF Running, MachineInv, Graph
<1>2. t \in (Leaves \ Fixed) \X Nat \X Leaves
    BY <1>1, FlowTypes DEF Block
<1>3. t = <<t[1], at, t[3]>> /\ t[3] \in Leaves
    BY <1>2
<1>4. SingleAssignment /\ OwnComplete
    BY DEF Running, Scoped, CallsInv
<1>5. CASE t[3] \notin Fixed
    <2>1. at \notin Undefined(t[3])
        BY <1>1, <1>3, <1>4, <1>5, ArgumentsAreDefined
    <2>2. t[3] \in own
        BY <1>3, <1>4, <1>5, <2>1 DEF OwnComplete
    <2> QED BY <1>3, <2>2 DEF Defined
<1> QED BY <1>3, <1>5

LEMMA PassKnows ==
    ASSUME Running, ~ Panics, Late, Passed, RangesHold, Sourced,
           NEW b \in Blocks, NEW e, NEW d, Passes(b, e, d)
    PROVE  RangesHold' /\ Sourced'
<1>1. /\ IsProgram(prog) /\ Graph /\ at \in Blocks /\ at \in All /\ b \in All
      /\ at' = b /\ UNCHANGED program
      /\ \A l \in Leaves \ B(b).defs : env'[l] = e[l]
      /\ \A l \in Leaves \ Defines(b) : env'[l] = env[l]
      /\ Defined' \subseteq Defined \union Defines(b)
    BY PassFacts
<1>2. /\ e \in [Leaves -> Uint] /\ d \subseteq Leaves /\ d \subseteq Defined
      /\ \A l \in Leaves \ Defines(b) : e[l] = env[l]
      /\ \A m \in PhisOf(b) : \E t \in B(b).phi : t[1] = m /\ t[2] = at /\ e[m] = env[t[3]]
      /\ \A l \in (Leaves \ Fixed) \ d : b \in Undefined(l) \union Definitions(l)
      /\ b \in Successors(at) /\ Enter(b, e, d)
    BY DEF Passes, Brings, Leads
<1>3. prog \in Programs /\ SingleAssignment /\ mode = "run"
    BY DEF Running, MachineInv, Scoped
<1>4. Knows(Fixed \union Defined, env)
    BY <1>3, KnownNow
<1>5. /\ Defines(b) \subseteq Leaves \ Fixed /\ Fixed \subseteq Leaves
      /\ B(b).defs \cap PhisOf(b) = {} /\ Defines(b) = B(b).defs \union PhisOf(b)
      /\ PhisOf(b) \subseteq Phis
    <2>1. Linked(B(b), prog.blocks)
        BY <1>1, FlowTypes DEF IsProgram, B, All
    <2>2. B(b).defs \cap PhisOf(b) = {}
        BY <2>1 DEF Linked, PhisOf
    <2> QED BY <1>1, <2>2, DefinesFacts, FixedAreLeaves DEF Defines, Phis, Leaves
<1>6. Defined \subseteq Leaves
    BY DEF Running, CallsInv, OwnFollow, Defined
<1> DEFINE K == ((Fixed \union Defined) \ Defines(b)) \union PhisOf(b)
<1>7. K \in SUBSET (Leaves \ B(b).defs)
    BY <1>5, <1>6
<1>8. ASSUME NEW m \in PhisOf(b), m \in DOMAIN Unconditional
      PROVE  In(e[m], Unconditional[m])
    <2>1. PICK t \in B(b).phi : t[1] = m /\ t[2] = at /\ e[m] = env[t[3]]
        BY <1>2
    <2>2. t[3] \in Leaves /\ t[3] \in Fixed \union Defined
        BY <1>2, <2>1, ArgumentsAreKnown
    <2>3. m \in Phis /\ m \notin DOMAIN Seeded
        BY <1>1, <1>3, <1>5, SeedsAreNoPhis
    <2>4. /\ PhiArgs(m) \subseteq DOMAIN Unconditional
          /\ \A a \in PhiArgs(m) : /\ Unconditional[m].lo <= Unconditional[a].lo
                                   /\ Unconditional[a].hi <= Unconditional[m].hi
        BY <1>1, <1>8, <2>3, UnconditionalFacts DEF Justified
    <2>5. t[3] \in PhiArgs(m)
        BY <2>1 DEF PhiArgs
    <2>6. In(env[t[3]], Unconditional[t[3]])
        BY <1>4, <2>2, <2>4, <2>5 DEF Knows
    <2>7. /\ Unconditional[m] \in Intervals /\ Unconditional[t[3]] \in Intervals
          /\ env[t[3]] \in Uint
        <3>1. env \in [Leaves -> Uint]
            BY PassFacts
        <3> QED BY <1>1, <1>8, <2>2, <2>4, <2>5, <3>1, UnconditionalFacts DEF AreRanges
    <2> QED BY <2>1, <2>4, <2>5, <2>6, <2>7, MaxIntIsPositive DEF In, Intervals, Uint
<1>9. Knows(K, e)
    <2>1. \A l \in (Fixed \union Defined) \ Defines(b) : e[l] = env[l]
        BY <1>2, <1>5, <1>6
    <2> QED BY <1>4, <1>5, <1>8, <2>1 DEF Knows
<1>10. \A l \in Reads(b) \cap Leaves : l \in K \union B(b).defs
    <2> SUFFICES ASSUME NEW l \in Leaves, l \in Reads(b), l \notin Fixed, l \notin Defines(b)
                 PROVE  l \in Defined
        BY <1>5
    <2>1. b \notin Undefined(l)
        BY <1>3, ReadsAreDefined
    <2>2. b \notin Definitions(l)
        BY DEF Definitions
    <2> QED BY <1>2, <2>1, <2>2
<1>11. Fixed \union Defined' \subseteq K \union B(b).defs
    BY <1>1, <1>5
<1> HIDE DEF K
<1>12. /\ \A l \in DOMAIN Unconditional \cap (K \union B(b).defs) :
              In(env'[l], Unconditional[l]) \/ (l \in B(b).defs /\ Fails(l, env'))
       /\ \A l \in (K \union B(b).defs) \ Phis : Source(l) => env'[l] \in Readable[l]
    BY <1>1, <1>2, <1>3, <1>7, <1>9, <1>10, EnterKnows
<1>13. Unconditional' = Unconditional /\ Phis' = Phis /\ B(at)' = B(b)
    BY <1>1, SameAnalysis
<1> QED BY <1>11, <1>12, <1>13 DEF RangesHold, Sourced

LEMMA TestsAreRead ==
    ASSUME IsProgram(prog), Graph, NEW g \in Asserting
    PROVE  Tests(g) \subseteq Reads(g) /\ Tests(g) \subseteq Value
BY AssertingFacts, ComputingSteps DEF Reads

LEMMA PassKeepsLate ==
    ASSUME Running, Late, NEW b \in Blocks, NEW e, NEW d, Passes(b, e, d)
    PROVE  Late'
<1>1. /\ IsProgram(prog) /\ Graph /\ at' = b /\ UNCHANGED program
      /\ Defined' \subseteq Defined \union Defines(b)
    BY PassFacts
<1>2. /\ d \subseteq Defined /\ b \in Successors(at)
      /\ \A l \in (Leaves \ Fixed) \ d : b \in Undefined(l) \union Definitions(l)
    BY DEF Passes, Brings, Leads
<1>3. /\ Asserting' = Asserting
      /\ \A g : ReachableAvoiding(g)' = ReachableAvoiding(g) /\ Tests(g)' = Tests(g)
      /\ \A l : Definitions(l)' = Definitions(l)
    BY <1>1, SameRanges, SameAnalysis, SameScope
<1>4. \A g, l : TestedLate(g, l)' = TestedLate(g, l)
    BY <1>3 DEF TestedLate
<1>5. SUFFICES ASSUME NEW g \in Asserting, NEW l \in Leaves, TestedLate(g, l)
               PROVE  b \in ReachableAvoiding(g) /\ l \notin Defined'
    BY <1>1, <1>3, <1>4 DEF Late
<1>6. at \in ReachableAvoiding(g) /\ l \notin Defined
    BY <1>5 DEF Late
<1>7. b # g
    <2> SUFFICES ASSUME b = g PROVE FALSE
        OBVIOUS
    <2>1. l \in Reads(g) /\ l \in Leaves \ Fixed /\ g \notin Definitions(l)
        BY <1>1, <1>5, TestsAreRead DEF TestedLate
    <2>2. b \notin Undefined(l)
        BY <2>1, ReadsAreDefined DEF Running, Scoped
    <2> QED BY <1>2, <1>6, <2>1, <2>2
<1>8. b \in ReachableAvoiding(g)
    BY <1>1, <1>2, <1>6, <1>7, AvoidingFacts
<1>9. l \notin Defines(b)
    BY <1>5, <1>8 DEF TestedLate, Definitions
<1> QED BY <1>1, <1>6, <1>8, <1>9

\* The test of a guard that the run has passed stays as it was.
LEMMA PassKeepsPassed ==
    ASSUME Running, ~ Panics, Late, Passed, RangesHold, Sourced,
           NEW b \in Blocks, NEW e, NEW d, Passes(b, e, d)
    PROVE  Passed'
<1>1. /\ IsProgram(prog) /\ Graph /\ at \in Blocks /\ b \in All /\ at' = b /\ UNCHANGED program
      /\ env \in [Leaves -> Uint] /\ env' \in [Leaves -> Uint]
      /\ \A l \in Leaves \ Defines(b) : env'[l] = env[l]
    BY PassFacts
<1>2. b \in Successors(at) /\ (B(at).op \notin {"callsub", "retsub"} => b \in Taken(at))
    BY DEF Passes, Leads
<1>3. SingleAssignment /\ mode = "run"
    BY DEF Running, Scoped
<1>4. /\ Asserting' = Asserting /\ Unconditional' = Unconditional
      /\ \A g : ReachableAvoiding(g)' = ReachableAvoiding(g) /\ Tests(g)' = Tests(g) /\ B(g)' = B(g)
    BY <1>1, SameRanges, SameAnalysis
<1>5. SUFFICES ASSUME NEW g \in Asserting, b \notin ReachableAvoiding(g) \union {g}
               PROVE  PassedWith(g, env')
    <2>1. \A g : PassedWith(g, env)' = PassedWith(g, env')
        BY <1>4 DEF PassedWith
    <2> QED BY <1>1, <1>4, <1>5, <2>1 DEF Passed
<1>6. at \notin ReachableAvoiding(g)
    BY <1>1, <1>2, <1>5, AvoidingFacts
<1>7. /\ Tests(g) = Computing(B(g).cond) /\ B(g).cond \in Value
      /\ Tests(g) \subseteq Reads(g)
    BY <1>1, AssertingFacts, TestsAreRead
<1>8. PassedWith(g, env)
    <2>1. CASE at = g
        <3>1. B(g).op = "assert" /\ b \in Taken(g)
            BY <1>2, <2>1 DEF Asserting
        <3>2. Eval(env)[B(g).cond] # 0
            BY <3>1 DEF Taken, Val, Conditional, MultiWay
        <3>3. \A l \in Tests(g) \cap DOMAIN Unconditional : In(env[l], Unconditional[l])
            <4>1. DOMAIN Unconditional \subseteq Leaves
                BY <1>1, UnconditionalFacts DEF AreRanges
            <4>2. \A l \in Tests(g) \cap Leaves : l \in Fixed \union Defined
                BY <1>7, <2>1, ReadsAreKnown
            <4> QED BY <1>3, <4>1, <4>2, KnownNow DEF Knows
        <3> QED BY <3>2, <3>3 DEF PassedWith
    <2>2. CASE at # g
        BY <1>6, <2>2 DEF Passed
    <2> QED BY <2>1, <2>2
<1>9. \A l \in Tests(g) \cap Leaves : env'[l] = env[l]
    <2> SUFFICES ASSUME NEW l \in Tests(g) \cap Leaves, l \in Defines(b) PROVE FALSE
        BY <1>1
    <2>1. l \in Leaves \ Fixed /\ b \in Definitions(l)
        BY <1>1, DefinesFacts DEF Definitions
    <2>2. ~ TestedLate(g, l)
        BY <1>6 DEF Late
    <2>3. PICK c \in Definitions(l) : c \in ReachableAvoiding(g) \union {g}
        BY <2>1, <2>2 DEF TestedLate
    <2>4. c = b
        BY <1>1, <1>3, <2>1, OneDefinition
    <2> QED BY <1>5, <2>3, <2>4
<1>10. Eval(env')[B(g).cond] = Eval(env)[B(g).cond]
    <2>1. env \in [Leaves -> Nat] /\ env' \in [Leaves -> Nat]
        BY <1>1, MaxIntIsPositive DEF Uint
    <2> QED BY <1>7, <1>9, <2>1, EvalAgrees
<1>11. DOMAIN Unconditional \subseteq Leaves
    BY <1>1, UnconditionalFacts DEF AreRanges
<1> QED BY <1>8, <1>9, <1>10, <1>11 DEF PassedWith

\* The run begins.
LEMMA BeginKnows ==
    ASSUME MachineInv, Scoped, Begin
    PROVE  (Late /\ Passed /\ RangesHold /\ Sourced)'
<1>1. /\ IsProgram(prog) /\ Graph /\ 1 \in All /\ 1 \in Blocks
      /\ prog \in Programs /\ SingleAssignment
    BY MachineGraph, FlowTypes DEF MachineInv, Graph, Scoped
<1>2. PICK e \in [Leaves -> Uint] : Enter(1, e, {}) /\ \A l \in Fixed : e[l] \in Readable[l]
    BY <1>1, BeginFacts
<1>3. at' = 1 /\ own' = Defines(1) /\ UNCHANGED program
    BY <1>2 DEF Enter
<1>4. frames' = <<>> /\ \A i \in DOMAIN frames' : FALSE
    BY DEF Begin, MachineInv
<1>5. Defined' = Defines(1)
    BY <1>3, <1>4 DEF Defined
<1>6. Defines(1) = B(1).defs /\ Defines(1) \subseteq Leaves \ Fixed /\ Fixed \subseteq Leaves
    <2>1. PhisOf(1) = {}
        BY <1>1 DEF Scoped, PhisHaveArguments
    <2> QED BY <1>1, <2>1, DefinesFacts, FixedAreLeaves DEF Defines, Leaves
<1>7. \A l \in Leaves \ Fixed : 1 \in Undefined(l) \union Definitions(l)
    BY <1>1, UndefinedFacts DEF Entries
<1>8. \A l \in Reads(1) \cap Leaves : l \in Fixed \union Defines(1)
    BY <1>1, <1>7, ReadsAreDefined DEF Definitions
<1>9. Knows(Fixed, e)
    <2> SUFFICES ASSUME NEW l \in Fixed, l \in DOMAIN Unconditional
                 PROVE  In(e[l], Unconditional[l])
        BY <1>2 DEF Knows
    <2>1. l \notin Phis /\ l \notin Made
        <3>1. \A c \in Blocks : PhisOf(c) \subseteq Leaves \ Fixed /\ B(c).defs \subseteq Leaves \ Fixed
            BY <1>1, DefinesFacts DEF Graph
        <3> QED BY <3>1 DEF Phis, Made
    <2>2. \A n \in Readable[l] : In(n, Unconditional[l])
        BY <1>1, <2>1, JustifiedMade
    <2> QED BY <1>2, <2>2
<1>10. /\ \A l \in DOMAIN Unconditional \cap (Fixed \union B(1).defs) :
              In(env'[l], Unconditional[l]) \/ (l \in B(1).defs /\ Fails(l, env'))
       /\ \A l \in (Fixed \union B(1).defs) \ Phis : Source(l) => env'[l] \in Readable[l]
    <2>1. Fixed \in SUBSET (Leaves \ B(1).defs) /\ {} \in SUBSET Leaves
        BY <1>6
    <2>2. \A l \in Reads(1) \cap Leaves : l \in Fixed \union B(1).defs
        BY <1>6, <1>8
    <2> QED BY <1>1, <1>2, <1>9, <2>1, <2>2, EnterKnows
<1>11. /\ Unconditional' = Unconditional /\ Phis' = Phis /\ B(at)' = B(1)
       /\ Asserting' = Asserting
       /\ \A g : ReachableAvoiding(g)' = ReachableAvoiding(g) /\ Tests(g)' = Tests(g)
       /\ \A l : Definitions(l)' = Definitions(l)
    BY <1>3, SameRanges, SameAnalysis, SameScope
<1>12. RangesHold' /\ Sourced'
    BY <1>5, <1>6, <1>10, <1>11 DEF RangesHold, Sourced
<1>13. \A g \in Asserting : 1 \in ReachableAvoiding(g) \union {g}
    BY <1>1, AvoidingFacts
<1>14. Passed'
    BY <1>3, <1>11, <1>13 DEF Passed
<1>15. Late'
    <2> SUFFICES ASSUME NEW g \in Asserting, NEW l \in Leaves, TestedLate(g, l)
                 PROVE  1 \in ReachableAvoiding(g) /\ l \notin Defines(1)
        <3>1. \A g, l : TestedLate(g, l)' = TestedLate(g, l)
            BY <1>11 DEF TestedLate
        <3> QED BY <1>3, <1>5, <1>11, <3>1 DEF Late
    <2>1. l \in Leaves \ Fixed /\ l \in Reads(g) /\ g \notin Definitions(l)
        BY <1>1, TestsAreRead DEF TestedLate
    <2>2. g # 1
        BY <1>1, <1>7, <2>1, ReadsAreDefined
    <2>3. 1 \in ReachableAvoiding(g)
        BY <1>13, <2>2
    <2>4. 1 \notin Definitions(l)
        BY <2>3 DEF TestedLate
    <2> QED BY <1>1, <2>3, <2>4 DEF Definitions
<1> QED BY <1>12, <1>14, <1>15

LEMMA RunInvStep == MachineInv /\ RunsInScope /\ RunInv /\ [Next]_vars => RunInv'
<1> SUFFICES ASSUME MachineInv, RunsInScope, RunInv, [Next]_vars, mode' = "run"
             PROVE  (Late /\ Passed /\ RangesHold /\ Sourced)'
    BY DEF RunInv
<1>1. CASE Start
    BY <1>1, BeginKnows DEF Start, RunsInScope
<1>2. CASE Execute
    <2>1. Step \/ Call \/ Return
        BY <1>2 DEF Execute, Run, Halt
    <2>2. Running /\ ~ Panics
        BY <2>1 DEF Running, RunsInScope, Step, Call, Return
    <2>3. Late /\ Passed /\ RangesHold /\ Sourced
        BY <2>2 DEF RunInv, Running
    <2>4. PICK b \in Blocks : \E e, d : Passes(b, e, d)
        BY <2>1, <2>2, RunPasses
    <2>5. PICK e, d : Passes(b, e, d)
        BY <2>4
    <2> QED BY <2>2, <2>3, <2>5, PassKnows, PassKeepsLate, PassKeepsPassed
<1>3. CASE Refine \/ AnotherRound
    BY <1>3 DEF Refine, AnotherRound, machineVars, runVars
<1>4. CASE UNCHANGED vars
    <2>1. UNCHANGED <<program, at, env, own, frames>> /\ mode = "run"
        BY <1>4 DEF vars, machineVars, runVars
    <2> QED BY <2>1, SameRun DEF RunInv
<1> QED BY <1>1, <1>2, <1>3, <1>4 DEF Next

-----------------------------------------------------------------------------
(* What a run finds.                                                       *)

\* The guards that dominate a block the run is in were passed.
LEMMA DominatingPassed ==
    ASSUME Passed, NEW h \in Asserting, Dominates(h, at)
    PROVE  PassedWith(h, env)
BY DEF Dominates, Passed

\* Behind the guards that narrow it a value is in its range.
LEMMA InRangeBehind ==
    ASSUME Running, RunInv, AnalysisInv, NEW v \in DOMAIN range,
           v \in DOMAIN Unconditional => In(env[v], Unconditional[v]),
           \A k \in Sayers(v, range) : Dominates(k, at)
    PROVE  In(env[v], range[v])
<1>1. IsProgram(prog) /\ Graph /\ at \in Blocks /\ env \in [Leaves -> Uint] /\ Passed
    BY MachineGraph DEF Running, MachineInv, RunInv
<1>2. ASSUME NEW h \in Above(v, range) PROVE PassedWith(h, env)
    <2>1. h \in Asserting /\ h \in Blocks
        BY DEF Above, Asserting
    <2>2. PICK k \in Sayers(v, range) : h = k \/ Dominates(h, k)
        BY DEF Above
    <2>3. k \in Blocks /\ Dominates(k, at)
        BY <2>2 DEF Sayers, Asserting
    <2>4. Dominates(h, at)
        BY <1>1, <2>1, <2>2, <2>3, DominatesTransitive
    <2> QED BY <1>1, <2>1, <2>4, DominatingPassed
<1>3. Premise(v, range, env)
    BY <1>2 DEF Premise
<1> QED BY <1>1, <1>3 DEF AnalysisInv, RangesInv, Follow

\* A value that is read in block at, apart from the test that narrows it, is in its range.
LEMMA ReadInRange ==
    ASSUME Running, RunInv, AnalysisInv, NEW v \in DOMAIN range, ~ Panics \/ v \notin B(at).defs,
           v \in B(at).uses \/ v \in Tests(at) \ OwnTest(at)
    PROVE  In(env[v], range[v])
<1>1. /\ mode = "run" /\ RangesHold /\ at \in Blocks
      /\ v \in Leaves
    BY DEF Running, MachineInv, RunInv, AnalysisInv, RangesInv, AreRanges
<1>2. v \in Reads(at)
    <2>1. \A w \in Value : w \in Computing(w)
        BY ComputingSteps
    <2> QED BY <1>1, <2>1 DEF Reads, Leaves
<1>3. v \in DOMAIN Unconditional => In(env[v], Unconditional[v])
    <2>1. v \in Fixed \union Defined
        BY <1>1, <1>2, ReadsAreKnown
    <2> QED BY <1>1, <2>1 DEF RangesHold, Panics
<1>4. ASSUME NEW k \in Sayers(v, range) PROVE Dominates(k, at)
    <2>1. k \in Asserting /\ v \in Told(k, range) /\ NarrowingIsSound(v, k)
        BY DEF Sayers
    <2>2. at \in UsesApart(v, k)
        <3>1. CASE at = k
            <4>1. OwnTest(at) = Told(k, range)
                BY <2>1, <3>1 DEF OwnTest, Concerned, Told, Held, Asserting
            <4> QED BY <1>1, <2>1, <4>1 DEF UsesApart
        <3>2. CASE at # k
            BY <1>1, <3>2 DEF UsesApart
        <3> QED BY <3>1, <3>2
    <2> QED BY <2>1, <2>2 DEF NarrowingIsSound
<1> QED BY <1>3, <1>4, InRangeBehind

\* So is what reaches a phi.
LEMMA ArgumentInRange ==
    ASSUME Running, RunInv, AnalysisInv, ~ Panics, NEW b \in Blocks, b \in Successors(at),
           NEW t \in B(b).phi, t[2] = at, t[3] \in DOMAIN range
    PROVE  In(env[t[3]], range[t[3]])
<1>1. t[3] \in Fixed \union Defined
    BY ArgumentsAreKnown
<1>2. PhiFed(t[3])
    BY DEF PhiFed, MergedAt
<1>3. t[3] \in DOMAIN Unconditional /\ range[t[3]] = Unconditional[t[3]]
    BY <1>2 DEF AnalysisInv, RangesInv, Untouched, Merging
<1>4. Knows(Fixed \union Defined, env)
    BY KnownNow DEF Running, RunInv
<1> QED BY <1>1, <1>3, <1>4 DEF Knows

\* And a value is in the range range_at gives the read.
LEMMA ReadInRangeAt ==
    ASSUME Running, RunInv, ~ Panics, NEW v \in Leaves, v \in Reads(at)
    PROVE  In(env[v], RangeAt(v, at))
<1> DEFINE N == Len(prog.blocks)
           guards(n) == n \in Blocks /\ B(n).op = "assert" /\ Dominates(n, at)
           F(f) == [n \in 0..Len(prog.blocks) |->
                       IF n = 0 THEN From(v, Unconditional)
                       ELSE IF n \in Blocks /\ B(n).op = "assert" /\ Dominates(n, at)
                       THEN Narrowed(v, f[n - 1], Relations(n, Unconditional))
                       ELSE f[n - 1]]
           G == [p \in (1..N) \X Intervals |->
                    IF guards(p[1]) THEN Narrowed(v, p[2], Relations(p[1], Unconditional)) ELSE p[2]]
           after == CHOOSE f : f = F(f)
<1>1. /\ IsProgram(prog) /\ Graph /\ at \in Blocks /\ at \in All /\ env \in [Leaves -> Uint]
      /\ N \in Nat /\ mode = "run" /\ Passed /\ RangesHold /\ Sourced
    BY MachineGraph DEF Running, MachineInv, Graph, RunInv
<1>2. AreRanges(Unconditional)
    BY <1>1, UnconditionalFacts
<1>3. env[v] \in Uint
    BY <1>1
<1>4. From(v, Unconditional) \in Intervals /\ In(env[v], From(v, Unconditional))
    <2>1. CASE v \in DOMAIN Unconditional
        <3>1. v \in Fixed \union Defined
            BY ReadsAreKnown
        <3>2. In(env[v], Unconditional[v])
            BY <1>1, <2>1, <3>1, KnownNow DEF Knows
        <3> QED BY <1>2, <2>1, <3>2 DEF From, AreRanges
    <2>2. CASE v \notin DOMAIN Unconditional
        BY <1>3, <2>2, MaxIntIsPositive DEF From, In, Interval, Intervals, Uint
    <2> QED BY <2>1, <2>2
<1>5. ASSUME NEW n, guards(n), NEW x \in Intervals
      PROVE  /\ Narrowed(v, x, Relations(n, Unconditional)) \in Intervals
             /\ In(env[v], x) => In(env[v], Narrowed(v, x, Relations(n, Unconditional)))
    <2>1. n \in Asserting /\ B(n).cond \in Value /\ Tests(n) = Computing(B(n).cond)
        BY <1>1, <1>5, AssertingFacts DEF Asserting
    <2>2. PassedWith(n, env)
        BY <1>1, <1>5, <2>1, DominatingPassed
    <2>3. \A c \in Held(Relations(n, Unconditional)) : True(c, env[c.value])
        BY <1>1, <1>2, <2>1, <2>2, RelationsHold DEF PassedWith
    <2> DEFINE w == Relations(n, Unconditional)
    <2> HIDE DEF w
    <2>4. w \in Seq(Relating) /\ \A i \in DOMAIN w : w[i].value = v => True(w[i], env[v])
        BY <1>2, <2>1, <2>3, RelationCases DEF Held, w
    <2>5. /\ Narrowed(v, x, w) \in Intervals
          /\ In(env[v], x) => In(env[v], Narrowed(v, x, w))
        BY <1>3, <2>4, NarrowedFacts
    <2> QED BY <2>5 DEF w
<1>6. G \in [(1..N) \X Intervals -> Intervals]
    <2>1. \A n \in 1..N, x \in Intervals :
              (IF guards(n) THEN Narrowed(v, x, Relations(n, Unconditional)) ELSE x) \in Intervals
        <3> HIDE DEF guards
        <3> QED BY <1>5
    <2> HIDE DEF guards
    <2> QED BY <2>1
<1>7. PICK f \in [0..N -> Intervals] : StepByStep(f, From(v, Unconditional), N, G)
    <2> HIDE DEF G, N
    <2> QED BY <1>1, <1>4, <1>6, RecursionUpTo
<1>8. /\ f[0] = From(v, Unconditional)
      /\ \A n \in 1..N : f[n] = IF guards(n) THEN Narrowed(v, f[n - 1], Relations(n, Unconditional))
                                ELSE f[n - 1]
    <2>1. \A n \in 1..N : n - 1 \in 0..N
        BY <1>1
    <2> HIDE DEF guards, N
    <2> QED BY <1>7, <2>1 DEF StepByStep
<1>9. f = F(f)
    <2>1. \A n \in 0..N : n # 0 => n \in 1..N
        BY <1>1
    <2> QED BY <1>8, <2>1
<1>10. after = F(after)
    <2> HIDE DEF F
    <2> QED BY <1>9
<1>11. RangeAt(v, at) = after[N]
    BY DEF RangeAt
<1> HIDE DEF after
<1>12. /\ after[0] = From(v, Unconditional)
       /\ \A n \in 1..N :
              after[n] = IF guards(n) THEN Narrowed(v, after[n - 1], Relations(n, Unconditional))
                         ELSE after[n - 1]
    <2>1. 0 \in 0..N /\ \A n \in 1..N : n \in 0..N /\ n # 0
        BY <1>1
    <2> QED BY <1>10, <2>1
<1> HIDE DEF guards, N
<1> DEFINE T == {n \in Nat : n <= N => after[n] \in Intervals /\ In(env[v], after[n])}
<1>13. \A n \in Nat : n \in T
    <2>1. 0 \in T
        BY <1>4, <1>12
    <2>2. ASSUME NEW n \in Nat, n \in T PROVE n + 1 \in T
        <3> SUFFICES ASSUME n + 1 <= N
                     PROVE  after[n + 1] \in Intervals /\ In(env[v], after[n + 1])
            OBVIOUS
        <3>1. n + 1 \in 1..N /\ (n + 1) - 1 = n /\ n <= N
            BY <1>1
        <3>2. after[n] \in Intervals /\ In(env[v], after[n])
            BY <2>2, <3>1
        <3>3. after[n + 1] = IF guards(n + 1)
                             THEN Narrowed(v, after[n], Relations(n + 1, Unconditional))
                             ELSE after[n]
            BY <1>12, <3>1
        <3> QED BY <1>5, <3>2, <3>3
    <2> HIDE DEF T
    <2> QED BY <2>1, <2>2, NumberInduction
<1> QED BY <1>1, <1>11, <1>13

-----------------------------------------------------------------------------
(* The specification.                                                      *)

\* The machine keeps to the program: it is in a reachable block, values and frames have
\* their types, and every frame is that of a call whose routine the run is still in.
THEOREM MachineInductive == Spec => []MachineInv
<1>1. Init => MachineInv
    BY MachineInit DEF Init
<1>2. MachineInv /\ [Next]_vars => MachineInv'
    <2> SUFFICES ASSUME MachineInv, [Next]_vars PROVE MachineInv'
        OBVIOUS
    <2>1. Refine \/ AnotherRound \/ UNCHANGED vars => UNCHANGED machineVars
        BY DEF Refine, AnotherRound, vars
    <2>2. Start \/ Execute => Begin \/ Run
        BY DEF Start, Execute
    <2> QED BY <2>1, <2>2, MachineStep DEF Next
<1> QED BY <1>1, <1>2, PTL DEF Spec

\* The analysis's invariant: a range is of integers, and follows from the guards that
\* dominate the uses of its value and from unconditional ranges.
THEOREM AnalysisInductive == Spec => []AnalysisInv
BY AnalysisInit, AnalysisStep, MachineInductive, PTL DEF Spec

\* The state of the analysis and of the run keeps its types.
THEOREM TypeCorrect == Spec => []TypeOK
<1>1. MachineInv /\ AnalysisInv => TypeOK
    <2> SUFFICES ASSUME MachineInv, AnalysisInv PROVE TypeOK
        OBVIOUS
    <2>1. \A i \in DOMAIN frames : frames[i] \in Frame
        BY DEF MachineInv
    <2>2. \A i \in DOMAIN frames : frames[i].cont \subseteq All
        BY <2>1 DEF Frame
    <2>3. DOMAIN range \subseteq Leaves /\ \A v \in DOMAIN range : range[v] \in [lo : Uint, hi : Uint]
        BY DEF AnalysisInv, RangesInv, AreRanges, Intervals
    <2>4. \A i \in DOMAIN todo : todo[i] \in Asserting
        BY DEF AnalysisInv
    <2>5. \A i \in DOMAIN todo : B(todo[i]).op = "assert"
        BY <2>4 DEF Asserting
    <2> QED BY <2>2, <2>3, <2>5 DEF MachineInv, TypeOK, MachineOK
<1> QED BY <1>1, MachineInductive, AnalysisInductive, PTL

\* The invariant of the run: a guard the run cannot have come around was passed with the
\* values of now, and what has been defined is in its unconditional range.
RunsInRange == RunsInScope /\ RunInv

\* It holds where no routine calls itself, whatever the analysis has done.
THEOREM RunInductive == Spec /\ CallsDoNotRecur => []RunsInRange
<1>1. Init /\ CallsDoNotRecur => RunsInRange
    BY DEF Init, InitMachine, RunsInRange, RunsInScope, Scoped, RunInv
<1>2. MachineInv /\ RunsInRange /\ [Next]_vars => RunsInRange'
    <2> SUFFICES ASSUME MachineInv, RunsInRange, [Next]_vars PROVE RunsInRange'
        OBVIOUS
    <2>1. Refine \/ AnotherRound \/ UNCHANGED vars => UNCHANGED machineVars
        BY DEF Refine, AnotherRound, vars
    <2>2. Start \/ Execute => Begin \/ Run
        BY DEF Start, Execute
    <2>3. RunsInScope'
        BY <2>1, <2>2, ScopeStep DEF Next, RunsInRange
    <2> QED BY <2>3, RunInvStep DEF RunsInRange
<1> QED BY <1>1, <1>2, MachineInductive, PTL DEF Spec

LEMMA RunsAreRunning ==
    ASSUME MachineInv, RunsInRange, mode = "run"
    PROVE  Running /\ RunInv
BY DEF Running, RunsInRange, RunsInScope

\* Where no routine calls itself, a run reads every value in the range the analysis leaves
\* it, except in the test that narrows it.
THEOREM NarrowingSound == Spec /\ CallsDoNotRecur => []NarrowedRangesHold
<1>1. MachineInv /\ AnalysisInv /\ RunsInRange => NarrowedRangesHold
    BY RunsAreRunning, ReadInRange DEF NarrowedRangesHold
<1> QED BY <1>1, MachineInductive, AnalysisInductive, RunInductive, PTL

\* There a value reaches a phi in its range, whichever way it came.
THEOREM PhisTakeRanges == Spec /\ CallsDoNotRecur => PhiArgumentsInRange
<1> DEFINE Arrives == mode = "run" /\ mode' = "run" =>
               \A t \in B(at').phi : t[2] = at /\ t[3] \in DOMAIN range => In(env[t[3]], range[t[3]])
<1>1. MachineInv /\ AnalysisInv /\ RunsInRange /\ [Next]_vars => [Arrives]_vars
    <2> SUFFICES ASSUME MachineInv, AnalysisInv, RunsInRange, Next, mode = "run", mode' = "run",
                        NEW t \in B(at').phi, t[2] = at, t[3] \in DOMAIN range
                 PROVE  In(env[t[3]], range[t[3]])
        OBVIOUS
    <2>1. Step \/ Call \/ Return
        BY DEF Next, Refine, AnotherRound, Start, Begin, Execute, Run, Halt
    <2>2. Running /\ RunInv /\ ~ Panics
        BY <2>1, RunsAreRunning DEF Step, Call, Return
    <2>3. PICK b \in Blocks : \E e, d : Passes(b, e, d)
        BY <2>1, <2>2, RunPasses
    <2>4. at' = b /\ b \in Successors(at)
        BY <2>2, <2>3, PassFacts DEF Passes, Leads
    <2> QED BY <2>2, <2>4, ArgumentInRange
<1> QED BY <1>1, MachineInductive, AnalysisInductive, RunInductive, PTL DEF Spec, PhiArgumentsInRange

\* And it reads every value in the range range_at gives that read.
THEOREM RangeAtSound == Spec /\ CallsDoNotRecur => []RangeAtHolds
<1>1. MachineInv /\ RunsInRange => RangeAtHolds
    BY RunsAreRunning, ReadInRangeAt DEF RangeAtHolds
<1> QED BY <1>1, MachineInductive, RunInductive, PTL


-----------------------------------------------------------------------------
(* Few rounds.  A guard whose dominators narrow nothing any more narrows    *)
(* in one round its values that had no range, in one more their partners,  *)
(* and is quiet from then on.                                              *)

\* The range x narrowed by rel y, if that leaves something of it.
Cut(rel, x, y) == LET z == Apply(rel, x, y) IN IF z.lo <= z.hi THEN z ELSE x

LEMMA CutOnce ==
    ASSUME NEW rel \in CmpOps, NEW x \in Intervals, NEW y \in Intervals
    PROVE  /\ Cut(rel, x, y) \in Intervals
           /\ Cut(rel, Cut(rel, x, y), y) = Cut(rel, x, y)
<1> DEFINE z == Apply(rel, x, y)
<1>1. /\ x.lo \in Nat /\ x.hi \in Nat /\ x.lo <= x.hi /\ x.hi <= MaxInt
      /\ y.lo \in Nat /\ y.hi \in Nat /\ y.lo <= y.hi /\ y.hi <= MaxInt /\ MaxInt \in Nat
      /\ x = Interval(x.lo, x.hi)
    BY MaxIntIsPositive DEF Intervals, Uint, Interval
<1>2. Cut(rel, x, y) = IF z.lo <= z.hi THEN z ELSE x
    BY DEF Cut
<1> HIDE DEF z
<1> SUFFICES /\ z.lo \in Nat /\ x.lo <= z.lo /\ z.hi \in Int /\ z.hi <= x.hi
             /\ z = Interval(z.lo, z.hi)
             /\ z.lo <= z.hi => Apply(rel, z, y) = z
    <2>1. CASE z.lo <= z.hi
        <3>1. Cut(rel, x, y) = z /\ Cut(rel, z, y) = z
            BY <1>2, <2>1 DEF Cut
        <3>2. z \in Intervals
            BY <1>1, <2>1 DEF Interval, Intervals, Uint
        <3> QED BY <3>1, <3>2
    <2>2. CASE ~ (z.lo <= z.hi)
        BY <1>2, <2>2
    <2> QED BY <2>1, <2>2
<1>3. CASE rel = "<"
    <2>1. z = Interval(x.lo, Lesser(x.hi, y.hi - 1))
        BY <1>3 DEF z, Apply
    <2> QED BY <1>1, <1>3, <2>1 DEF Apply, Interval, Lesser, Greater
<1>4. CASE rel = "<="
    <2>1. z = Interval(x.lo, Lesser(x.hi, y.hi))
        BY <1>4 DEF z, Apply
    <2> QED BY <1>1, <1>4, <2>1 DEF Apply, Interval, Lesser, Greater
<1>5. CASE rel = ">"
    <2>1. z = Interval(Greater(x.lo, y.lo + 1), x.hi)
        BY <1>5 DEF z, Apply
    <2> QED BY <1>1, <1>5, <2>1 DEF Apply, Interval, Lesser, Greater
<1>6. CASE rel = ">="
    <2>1. z = Interval(Greater(x.lo, y.lo), x.hi)
        BY <1>6 DEF z, Apply
    <2> QED BY <1>1, <1>6, <2>1 DEF Apply, Interval, Lesser, Greater
<1>7. CASE rel = "=="
    <2>1. z = Interval(Greater(x.lo, y.lo), Lesser(x.hi, y.hi))
        BY <1>7 DEF z, Apply
    <2> QED BY <1>1, <1>7, <2>1 DEF Apply, Interval, Lesser, Greater
<1>8. CASE rel = "!="
    <2>1. z = IF y.lo # y.hi \/ x.lo >= x.hi THEN x
              ELSE IF y.lo = x.lo THEN Interval(x.lo + 1, x.hi)
              ELSE IF y.hi = x.hi THEN Interval(x.lo, x.hi - 1)
              ELSE x
        BY <1>8 DEF z, Apply
    <2> QED BY <1>1, <1>8, <2>1 DEF Apply, Interval
<1> QED BY <1>3, <1>4, <1>5, <1>6, <1>7, <1>8 DEF CmpOps

\* Two ranges that have narrowed one another narrow one another no more.
LEMMA CutBoth ==
    ASSUME NEW rel \in CmpOps, NEW x \in Intervals, NEW y \in Intervals
    PROVE  Cut(rel, Cut(rel, x, y), Cut(Swap(rel), y, x)) = Cut(rel, x, y)
<1>1. /\ x.lo \in Nat /\ x.hi \in Nat /\ x.lo <= x.hi /\ x.hi <= MaxInt
      /\ y.lo \in Nat /\ y.hi \in Nat /\ y.lo <= y.hi /\ y.hi <= MaxInt /\ MaxInt \in Nat
      /\ x = Interval(x.lo, x.hi) /\ y = Interval(y.lo, y.hi)
    BY MaxIntIsPositive DEF Intervals, Uint, Interval
<1> DEFINE z == Cut(rel, x, y)
           w == Cut(Swap(rel), y, x)
<1> HIDE DEF z, w
<1> SUFFICES Cut(rel, z, w) = z
    BY DEF z, w
<1>2. CASE rel = "<"
    <2>1. Swap(rel) = ">"
        BY <1>2 DEF Swap
    <2>2. z = IF x.lo < y.hi THEN Interval(x.lo, Lesser(x.hi, y.hi - 1)) ELSE x
        BY <1>1, <1>2 DEF z, w, Cut, Apply, Interval, Lesser, Greater
    <2>3. w = IF x.lo < y.hi THEN Interval(Greater(y.lo, x.lo + 1), y.hi) ELSE y
        BY <1>1, <2>1 DEF z, w, Cut, Apply, Interval, Lesser, Greater
    <2>4. CASE x.lo < y.hi
        <3>1. z = Interval(x.lo, Lesser(x.hi, y.hi - 1)) /\ w = Interval(Greater(y.lo, x.lo + 1), y.hi)
            BY <2>2, <2>3, <2>4
        <3>2. Apply(rel, z, w) = z
            BY <1>1, <1>2, <2>4, <3>1 DEF Apply, Interval, Lesser, Greater
        <3> QED BY <3>2 DEF Cut
    <2>5. CASE ~ (x.lo < y.hi)
        <3>1. z = x /\ w = y
            BY <2>2, <2>3, <2>5
        <3> QED BY <3>1 DEF z
    <2> QED BY <2>4, <2>5
<1>3. CASE rel = "<="
    <2>1. Swap(rel) = ">="
        BY <1>3 DEF Swap
    <2>2. z = IF x.lo <= y.hi THEN Interval(x.lo, Lesser(x.hi, y.hi)) ELSE x
        BY <1>1, <1>3 DEF z, w, Cut, Apply, Interval, Lesser, Greater
    <2>3. w = IF x.lo <= y.hi THEN Interval(Greater(y.lo, x.lo), y.hi) ELSE y
        BY <1>1, <2>1 DEF z, w, Cut, Apply, Interval, Lesser, Greater
    <2>4. CASE x.lo <= y.hi
        <3>1. z = Interval(x.lo, Lesser(x.hi, y.hi)) /\ w = Interval(Greater(y.lo, x.lo), y.hi)
            BY <2>2, <2>3, <2>4
        <3>2. Apply(rel, z, w) = z
            BY <1>1, <1>3, <2>4, <3>1 DEF Apply, Interval, Lesser, Greater
        <3> QED BY <3>2 DEF Cut
    <2>5. CASE ~ (x.lo <= y.hi)
        <3>1. z = x /\ w = y
            BY <2>2, <2>3, <2>5
        <3> QED BY <3>1 DEF z
    <2> QED BY <2>4, <2>5
<1>4. CASE rel = ">"
    <2>1. Swap(rel) = "<"
        BY <1>4 DEF Swap
    <2>2. z = IF y.lo < x.hi THEN Interval(Greater(x.lo, y.lo + 1), x.hi) ELSE x
        BY <1>1, <1>4 DEF z, w, Cut, Apply, Interval, Lesser, Greater
    <2>3. w = IF y.lo < x.hi THEN Interval(y.lo, Lesser(y.hi, x.hi - 1)) ELSE y
        BY <1>1, <2>1 DEF z, w, Cut, Apply, Interval, Lesser, Greater
    <2>4. CASE y.lo < x.hi
        <3>1. z = Interval(Greater(x.lo, y.lo + 1), x.hi) /\ w = Interval(y.lo, Lesser(y.hi, x.hi - 1))
            BY <2>2, <2>3, <2>4
        <3>2. Apply(rel, z, w) = z
            BY <1>1, <1>4, <2>4, <3>1 DEF Apply, Interval, Lesser, Greater
        <3> QED BY <3>2 DEF Cut
    <2>5. CASE ~ (y.lo < x.hi)
        <3>1. z = x /\ w = y
            BY <2>2, <2>3, <2>5
        <3> QED BY <3>1 DEF z
    <2> QED BY <2>4, <2>5
<1>5. CASE rel = ">="
    <2>1. Swap(rel) = "<="
        BY <1>5 DEF Swap
    <2>2. z = IF y.lo <= x.hi THEN Interval(Greater(x.lo, y.lo), x.hi) ELSE x
        BY <1>1, <1>5 DEF z, w, Cut, Apply, Interval, Lesser, Greater
    <2>3. w = IF y.lo <= x.hi THEN Interval(y.lo, Lesser(y.hi, x.hi)) ELSE y
        BY <1>1, <2>1 DEF z, w, Cut, Apply, Interval, Lesser, Greater
    <2>4. CASE y.lo <= x.hi
        <3>1. z = Interval(Greater(x.lo, y.lo), x.hi) /\ w = Interval(y.lo, Lesser(y.hi, x.hi))
            BY <2>2, <2>3, <2>4
        <3>2. Apply(rel, z, w) = z
            BY <1>1, <1>5, <2>4, <3>1 DEF Apply, Interval, Lesser, Greater
        <3> QED BY <3>2 DEF Cut
    <2>5. CASE ~ (y.lo <= x.hi)
        <3>1. z = x /\ w = y
            BY <2>2, <2>3, <2>5
        <3> QED BY <3>1 DEF z
    <2> QED BY <2>4, <2>5
<1>6. CASE rel = "=="
    <2>1. Swap(rel) = "=="
        BY <1>6 DEF Swap
    <2>2. z = IF x.lo <= y.hi /\ y.lo <= x.hi THEN Interval(Greater(x.lo, y.lo), Lesser(x.hi, y.hi)) ELSE x
        BY <1>1, <1>6 DEF z, w, Cut, Apply, Interval, Lesser, Greater
    <2>3. w = IF x.lo <= y.hi /\ y.lo <= x.hi THEN Interval(Greater(y.lo, x.lo), Lesser(y.hi, x.hi)) ELSE y
        BY <1>1, <2>1 DEF z, w, Cut, Apply, Interval, Lesser, Greater
    <2>4. CASE x.lo <= y.hi /\ y.lo <= x.hi
        <3>1. z = Interval(Greater(x.lo, y.lo), Lesser(x.hi, y.hi)) /\ w = Interval(Greater(y.lo, x.lo), Lesser(y.hi, x.hi))
            BY <2>2, <2>3, <2>4
        <3>2. Apply(rel, z, w) = z
            BY <1>1, <1>6, <2>4, <3>1 DEF Apply, Interval, Lesser, Greater
        <3> QED BY <3>2 DEF Cut
    <2>5. CASE ~ (x.lo <= y.hi /\ y.lo <= x.hi)
        <3>1. z = x /\ w = y
            BY <2>2, <2>3, <2>5
        <3> QED BY <3>1 DEF z
    <2> QED BY <2>4, <2>5
<1>7. CASE rel = "!="
    <2>1. Swap(rel) = "!="
        BY <1>7 DEF Swap
    <2>2. z = IF y.lo # y.hi \/ x.lo >= x.hi THEN x
              ELSE IF y.lo = x.lo THEN Interval(x.lo + 1, x.hi)
              ELSE IF y.hi = x.hi THEN Interval(x.lo, x.hi - 1)
              ELSE x
        BY <1>1, <1>7 DEF z, Cut, Apply, Interval
    <2>3. w = IF x.lo # x.hi \/ y.lo >= y.hi THEN y
              ELSE IF x.lo = y.lo THEN Interval(y.lo + 1, y.hi)
              ELSE IF x.hi = y.hi THEN Interval(y.lo, y.hi - 1)
              ELSE y
        BY <1>1, <2>1 DEF w, Cut, Apply, Interval
    <2>4. Cut(rel, z, w) = z
        <3>1. z.lo \in Nat /\ z.hi \in Nat /\ w.lo \in Nat /\ w.hi \in Nat /\ z.lo <= z.hi
            BY <1>1, <2>2, <2>3 DEF Interval
        <3>2. w.lo # w.hi \/ z.lo >= z.hi \/ (w.lo # z.lo /\ w.hi # z.hi)
            BY <1>1, <2>2, <2>3 DEF Interval
        <3> QED BY <1>7, <3>1, <3>2 DEF Cut, Apply, Interval
    <2> QED BY <2>4
<1> QED BY <1>2, <1>3, <1>4, <1>5, <1>6, <1>7 DEF CmpOps

LEMMA SwapBack == \A rel \in CmpOps : Swap(rel) \in CmpOps /\ Swap(Swap(rel)) = rel
BY DEF Swap, CmpOps

\* What one relation, or two about different values, make of a range.
LEMMA NarrowedShort ==
    ASSUME NEW v, NEW x \in Intervals, NEW w \in Seq(Relating)
    PROVE  /\ Len(w) = 0 => Narrowed(v, x, w) = x
           /\ Len(w) = 1 => Narrowed(v, x, w) = IF w[1].value = v THEN Cut(w[1].op, x, w[1].other) ELSE x
           /\ Len(w) = 2 /\ w[1].value # w[2].value =>
                  Narrowed(v, x, w) = IF w[1].value = v THEN Cut(w[1].op, x, w[1].other)
                                      ELSE IF w[2].value = v THEN Cut(w[2].op, x, w[2].other)
                                      ELSE x
<1>1. \A y, r : Tighter(y, r) = Cut(r.op, y, r.other)
    BY DEF Tighter, Cut
<1>2. PICK after : Narrowings(v, x, w, after)
    BY NarrowedSteps
<1>3. ASSUME Len(w) = 1
      PROVE  Narrowed(v, x, w) = IF w[1].value = v THEN Cut(w[1].op, x, w[1].other) ELSE x
    <2>1. 1 \in 1..Len(w) /\ 1 - 1 = 0
        BY <1>3
    <2>2. after[1] = IF w[1].value = v THEN Tighter(after[0], w[1]) ELSE after[0]
        BY <1>2, <2>1 DEF Narrowings
    <2> QED BY <1>1, <1>2, <1>3, <2>2 DEF Narrowings
<1>4. ASSUME Len(w) = 2, w[1].value # w[2].value
      PROVE  Narrowed(v, x, w) = IF w[1].value = v THEN Cut(w[1].op, x, w[1].other)
                                 ELSE IF w[2].value = v THEN Cut(w[2].op, x, w[2].other)
                                 ELSE x
    <2>1. 1 \in 1..Len(w) /\ 1 - 1 = 0 /\ 2 \in 1..Len(w) /\ 2 - 1 = 1
        BY <1>4
    <2>2. after[1] = IF w[1].value = v THEN Tighter(after[0], w[1]) ELSE after[0]
        BY <1>2, <2>1 DEF Narrowings
    <2>3. after[2] = IF w[2].value = v THEN Tighter(after[1], w[2]) ELSE after[1]
        BY <1>2, <2>1 DEF Narrowings
    <2> QED BY <1>1, <1>2, <1>4, <2>2, <2>3 DEF Narrowings
<1> QED BY <1>2, <1>3, <1>4 DEF Narrowings

\* Guard g bounds v by y, whatever the ranges are.
Bounds(g, v, rel, y) ==
    /\ rel \in CmpOps /\ y \in Intervals
    /\ \A r : AreRanges(r) =>
           /\ v \in Told(g, r)
           /\ \A x \in Intervals : Narrowed(v, x, Relations(g, r)) = Cut(rel, x, y)

\* Guard g bounds v by the range of another value w, if that has one.
Relates(g, v, rel, w) ==
    /\ rel \in CmpOps /\ w # v /\ w \in Computing(B(g).cond)
    /\ \A r : AreRanges(r) =>
           /\ v \in Told(g, r) <=> w \in DOMAIN r
           /\ w \in DOMAIN r =>
                  \A x \in Intervals : Narrowed(v, x, Relations(g, r)) = Cut(rel, x, r[w])

\* A guard that compares no value with itself says one thing of each value.
LEMMA Sides ==
    ASSUME NEW g, B(g).cond \in Value, ~ ComparesWithItself(g), NEW v \in Leaves
    PROVE  \/ \E rel, y : Bounds(g, v, rel, y)
           \/ \E rel, w : /\ Relates(g, v, rel, w)
                          /\ w \in Leaves => Relates(g, w, Swap(rel), v)
           \/ \A r : AreRanges(r) => v \notin Told(g, r)
<1> DEFINE c == B(g).cond
           d == Def[c]
           Rel(x, op, other) == [value |-> x, op |-> op, other |-> other]
           Beside(x, op, w, r) == IF x \in Leaves /\ w \in DOMAIN r THEN <<Rel(x, op, r[w])>> ELSE <<>>
<1>0. \A k \in Uint : Interval(k, k) \in Intervals
    BY MaxIntIsPositive DEF Interval, Intervals, Uint
<1>1. \A x \in Leaves, op \in CmpOps, y \in Intervals : Rel(x, op, y) \in Relating
    BY DEF Relating
<1>2. \A s : Held(<<s>>) = {s}
    BY DEF Held
<1>3. ASSUME NEW op \in CmpOps, NEW y \in Intervals, \A r : Relations(g, r) = <<Rel(v, op, y)>>
      PROVE  Bounds(g, v, op, y)
    <2>1. Rel(v, op, y) \in Relating
        BY <1>1, <1>3
    <2> DEFINE w == <<Rel(v, op, y)>>
    <2>2. w \in Seq(Relating) /\ Len(w) = 1 /\ w[1].value = v /\ w[1].op = op /\ w[1].other = y
        BY <2>1
    <2> HIDE DEF w
    <2>4. \A x \in Intervals : Narrowed(v, x, w) = Cut(op, x, y)
        BY <2>2, NarrowedShort
    <2>3. \A r : Told(g, r) = {v}
        BY <1>2, <1>3 DEF Told
    <2> QED BY <1>3, <2>3, <2>4 DEF Bounds, w
<1>4. CASE d.op = "leaf"
    <2>1. \A r : Relations(g, r) = <<Rel(c, "!=", Interval(0, 0))>>
        BY <1>4 DEF Relations, CmpOps
    <2>2. CASE c = v
        <3>1. "!=" \in CmpOps /\ Interval(0, 0) \in Intervals
            BY <1>0, MaxIntIsPositive DEF CmpOps, Uint
        <3> QED BY <1>3, <2>1, <2>2, <3>1
    <2>3. CASE c # v
        BY <1>2, <2>1, <2>3 DEF Told
    <2> QED BY <2>2, <2>3
<1>5. CASE d.op \in CmpOps /\ Len(d.args) # 2
    <2> DEFINE op == IF d.constFirst THEN Swap(d.op) ELSE d.op
    <2>1. op \in CmpOps /\ d.k \in Uint
        BY <1>5, SwapBack, OperandsOf
    <2>2. \A r : Relations(g, r) = IF d.args[1] \in Leaves
                                   THEN <<Rel(d.args[1], op, Interval(d.k, d.k))>> ELSE <<>>
        BY <1>5 DEF Relations, CmpOps
    <2> HIDE DEF op, d
    <2>3. CASE d.args[1] = v
        BY <1>0, <1>3, <2>1, <2>2, <2>3
    <2>4. CASE d.args[1] # v
        <3>1. \A r : v \notin Told(g, r)
            BY <1>2, <2>2, <2>4 DEF Told, Held
        <3> QED BY <3>1
    <2> QED BY <2>3, <2>4
<1>6. CASE d.op \in CmpOps /\ Len(d.args) = 2
    <2> DEFINE a == d.args[1]
               b == d.args[2]
    <2>1. a # b /\ a \in Computing(c) /\ b \in Computing(c)
        <3>1. 1 \in DOMAIN d.args /\ 2 \in DOMAIN d.args
            BY <1>6, OperandsOf
        <3>2. a # b
            BY <1>6, <3>1 DEF ComparesWithItself
        <3>3. a \in Value /\ b \in Value
            BY <1>6, OperandsOf DEF CmpOps
        <3>4. \A x \in Value : x \in Computing(x)
            BY ComputingSteps
        <3>5. Computing(c) = {c} \union UNION {Computing(d.args[i]) : i \in DOMAIN d.args}
            BY ComputingSteps
        <3> HIDE DEF d
        <3> QED BY <3>1, <3>2, <3>3, <3>4, <3>5
    <2> DEFINE op == d.op
    <2>2. op \in CmpOps /\ Swap(op) \in CmpOps /\ Swap(Swap(op)) = op
        BY <1>6, SwapBack
    <2>3. \A r : Relations(g, r) = Beside(a, op, b, r) \o Beside(b, Swap(op), a, r)
        BY <1>6 DEF Relations, CmpOps
    <2> HIDE DEF d, op, a, b, Rel
    <2>4. ASSUME NEW r, AreRanges(r)
          PROVE  /\ \A x \in Leaves : x = a => (x \in Told(g, r) <=> b \in DOMAIN r)
                 /\ \A x \in Leaves : x = b => (x \in Told(g, r) <=> a \in DOMAIN r)
                 /\ \A x \in Leaves : x # a /\ x # b => x \notin Told(g, r)
                 /\ a \in Leaves /\ b \in DOMAIN r =>
                        \A x \in Intervals : Narrowed(a, x, Relations(g, r)) = Cut(op, x, r[b])
                 /\ b \in Leaves /\ a \in DOMAIN r =>
                        \A x \in Intervals : Narrowed(b, x, Relations(g, r)) = Cut(Swap(op), x, r[a])
        <3> DEFINE s == Rel(a, op, r[b])
                   t == Rel(b, Swap(op), r[a])
        <3>1. /\ s.value = a /\ s.op = op /\ s.other = r[b]
              /\ t.value = b /\ t.op = Swap(op) /\ t.other = r[a]
            BY DEF Rel
        <3>2. /\ a \in Leaves /\ b \in DOMAIN r => s \in Relating
              /\ b \in Leaves /\ a \in DOMAIN r => t \in Relating
            BY <1>1, <2>2, <2>4 DEF AreRanges
        <3>3. Relations(g, r) = (IF a \in Leaves /\ b \in DOMAIN r THEN <<s>> ELSE <<>>)
                                \o (IF b \in Leaves /\ a \in DOMAIN r THEN <<t>> ELSE <<>>)
            BY <2>3
        <3> HIDE DEF s, t
        <3>4. Held(<<s>>) = {s} /\ Held(<<t>>) = {t} /\ Held(<<>>) = {}
            <4>1. Held(<<>>) = {}
                BY DEF Held
            <4> QED BY <1>2, <4>1
        <3> DEFINE w == Relations(g, r)
        <3>6. DOMAIN r \subseteq Leaves
            BY <2>4 DEF AreRanges
        <3>7. CASE a \in Leaves /\ b \in DOMAIN r /\ b \in Leaves /\ a \in DOMAIN r
            <4>1. w = <<s>> \o <<t>> /\ <<s>> \in Seq(Relating) /\ <<t>> \in Seq(Relating)
                BY <3>2, <3>3, <3>7
            <4>2. w \in Seq(Relating) /\ Len(w) = 2 /\ w[1] = s /\ w[2] = t
                BY <4>1
            <4>3. Held(w) = {s, t}
                <5>1. Held(<<s>> \o <<t>>) = Held(<<s>>) \union Held(<<t>>)
                    BY <4>1, HeldOfBoth
                <5> HIDE DEF w
                <5> QED BY <3>4, <4>1, <5>1
            <4>4. Told(g, r) = {a, b}
                BY <3>1, <4>3 DEF Told
            <4> HIDE DEF w
            <4>5. \A x \in Intervals : /\ Narrowed(a, x, w) = Cut(op, x, r[b])
                                      /\ Narrowed(b, x, w) = Cut(Swap(op), x, r[a])
                BY <2>1, <3>1, <4>2, NarrowedShort
            <4> QED BY <3>7, <4>4, <4>5 DEF w
        <3>8. CASE a \in Leaves /\ b \in DOMAIN r /\ a \notin DOMAIN r
            <4>1. w = <<s>> /\ <<s>> \in Seq(Relating)
                BY <3>2, <3>3, <3>8
            <4>2. w \in Seq(Relating) /\ Len(w) = 1 /\ w[1] = s
                BY <4>1
            <4>3. Told(g, r) = {a}
                BY <3>1, <3>4, <4>1 DEF Told
            <4> HIDE DEF w
            <4>4. \A x \in Intervals : Narrowed(a, x, w) = Cut(op, x, r[b])
                BY <3>1, <4>2, NarrowedShort
            <4> QED BY <2>1, <3>8, <4>3, <4>4 DEF w
        <3>9. CASE b \in Leaves /\ a \in DOMAIN r /\ b \notin DOMAIN r
            <4>1. w = <<t>> /\ <<t>> \in Seq(Relating)
                BY <3>2, <3>3, <3>9
            <4>2. w \in Seq(Relating) /\ Len(w) = 1 /\ w[1] = t
                BY <4>1
            <4>3. Told(g, r) = {b}
                BY <3>1, <3>4, <4>1 DEF Told
            <4> HIDE DEF w
            <4>4. \A x \in Intervals : Narrowed(b, x, w) = Cut(Swap(op), x, r[a])
                BY <3>1, <4>2, NarrowedShort
            <4> QED BY <2>1, <3>9, <4>3, <4>4 DEF w
        <3>10. CASE ~ (a \in Leaves /\ b \in DOMAIN r) /\ ~ (b \in Leaves /\ a \in DOMAIN r)
            <4>1. w = <<>>
                BY <3>3, <3>10
            <4>2. Told(g, r) = {}
                BY <3>4, <4>1 DEF Told
            <4> HIDE DEF w
            <4> QED BY <3>10, <4>2
        <3> QED BY <3>6, <3>7, <3>8, <3>9, <3>10
    <2>5. a \in Leaves => Relates(g, a, op, b)
        BY <2>1, <2>2, <2>4 DEF Relates
    <2>6. b \in Leaves => Relates(g, b, Swap(op), a)
        BY <2>1, <2>2, <2>4 DEF Relates
    <2>7. CASE v = a
        BY <2>5, <2>6, <2>7
    <2>8. CASE v = b
        BY <2>2, <2>5, <2>6, <2>8
    <2>9. CASE v # a /\ v # b
        BY <2>4, <2>9
    <2> QED BY <2>7, <2>8, <2>9
<1>7. CASE d.op \notin CmpOps \union {"leaf"}
    <2>1. \A r : Relations(g, r) = <<>>
        BY <1>7 DEF Relations, CmpOps
    <2> QED BY <2>1 DEF Told, Held
<1> QED BY <1>4, <1>5, <1>6, <1>7

\* The leaves guard g narrows when the ranges are r.
Narrows(g, r) ==
    {v \in Told(g, r) \ Phis : /\ Narrowed(v, From(v, r), Relations(g, r)) # From(v, r)
                               /\ NarrowingIsSound(v, g)}

\* The ranges after guard g.
After(g, r) ==
    [v \in DOMAIN r \union Narrows(g, r) |->
        IF v \in Narrows(g, r) THEN Narrowed(v, From(v, r), Relations(g, r)) ELSE r[v]]

\* No guard before g narrows anything.
Ready(g, r) == \A k \in Asserting : Dominates(k, g) => Narrows(k, r) = {}

\* No guard compares a value with itself.
NoneComparesWithItself == \A g \in Asserting : ~ ComparesWithItself(g)

LEMMA AfterFacts ==
    ASSUME IsProgram(prog), Graph, NEW g \in Asserting, NEW r, AreRanges(r)
    PROVE  /\ B(g).cond \in Value /\ Tests(g) = Computing(B(g).cond)
           /\ Narrows(g, r) \subseteq Told(g, r) /\ Told(g, r) \subseteq Leaves \cap Tests(g)
           /\ AreRanges(After(g, r))
           /\ DOMAIN After(g, r) = DOMAIN r \union Narrows(g, r)
           /\ \A v : From(v, r) \in Intervals
           /\ \A v : v \notin Narrows(g, r) => From(v, After(g, r)) = From(v, r)
           /\ \A v \in Narrows(g, r) :
                  From(v, After(g, r)) = Narrowed(v, From(v, r), Relations(g, r))
           /\ \A v : v \notin Narrows(g, r) =>
                  /\ v \in DOMAIN After(g, r) <=> v \in DOMAIN r
                  /\ v \in DOMAIN r => After(g, r)[v] = r[v]
<1> DEFINE s == After(g, r)
           W == Narrows(g, r)
<1>1. B(g).cond \in Value /\ Tests(g) = Computing(B(g).cond)
    BY AssertingFacts
<1>2. W \subseteq Told(g, r) /\ Told(g, r) \subseteq Leaves \cap Tests(g)
    BY <1>1, AboutFacts DEF Narrows
<1>3. /\ DOMAIN s = DOMAIN r \union W
      /\ \A v \in DOMAIN s :
             s[v] = IF v \in W THEN Narrowed(v, From(v, r), Relations(g, r)) ELSE r[v]
    BY DEF After
<1>4. \A v : Narrowed(v, From(v, r), Relations(g, r)) \in Intervals
    BY NarrowingTypes
<1>5. \A v : From(v, r) \in Intervals
    BY MaxIntIsPositive DEF From, Interval, Intervals, Uint, AreRanges
<1> HIDE DEF s, W
<1>6. AreRanges(s)
    BY <1>2, <1>3, <1>4 DEF AreRanges
<1>7. \A v : v \notin W => From(v, s) = From(v, r)
    BY <1>3 DEF From
<1>8. \A v \in W : From(v, s) = Narrowed(v, From(v, r), Relations(g, r))
    BY <1>3 DEF From
<1>9. \A v : v \notin W => (v \in DOMAIN s <=> v \in DOMAIN r) /\ (v \in DOMAIN r => s[v] = r[v])
    BY <1>3
<1> QED BY <1>1, <1>2, <1>3, <1>5, <1>6, <1>7, <1>8, <1>9 DEF s, W

\* What a guard narrows depends on the ranges of what it tests.
LEMMA NarrowsAgree ==
    ASSUME IsProgram(prog), Graph, NoneComparesWithItself, NEW g \in Asserting,
           NEW r, AreRanges(r), NEW s, AreRanges(s),
           \A w \in Tests(g) : (w \in DOMAIN r <=> w \in DOMAIN s) /\ (w \in DOMAIN r => r[w] = s[w])
    PROVE  Narrows(g, r) = Narrows(g, s)
<1>1. /\ B(g).cond \in Value /\ Tests(g) = Computing(B(g).cond) /\ ~ ComparesWithItself(g)
      /\ Told(g, r) \subseteq Leaves \cap Tests(g) /\ Told(g, s) \subseteq Leaves \cap Tests(g)
      /\ \A v : From(v, r) \in Intervals
    BY AfterFacts DEF NoneComparesWithItself
<1>2. \A v \in Tests(g) : From(v, r) = From(v, s)
    BY DEF From
<1>3. ASSUME NEW v \in Leaves \cap Tests(g)
      PROVE  /\ v \in Told(g, r) <=> v \in Told(g, s)
             /\ v \in Told(g, r) => Narrowed(v, From(v, r), Relations(g, r))
                                        = Narrowed(v, From(v, r), Relations(g, s))
    <2>1. \/ \E rel, y : Bounds(g, v, rel, y)
          \/ \E rel, w : Relates(g, v, rel, w)
          \/ \A q : AreRanges(q) => v \notin Told(g, q)
        BY <1>1, Sides
    <2>2. CASE \E rel, y : Bounds(g, v, rel, y)
        BY <1>1, <2>2 DEF Bounds
    <2>3. CASE \E rel, w : Relates(g, v, rel, w)
        BY <1>1, <2>3 DEF Relates
    <2>4. CASE \A q : AreRanges(q) => v \notin Told(g, q)
        BY <2>4
    <2> QED BY <2>1, <2>2, <2>3, <2>4
<1>4. \A v : v \in Narrows(g, r) <=> v \in Narrows(g, s)
    BY <1>1, <1>2, <1>3 DEF Narrows
<1> QED BY <1>4

\* Once guard g has narrowed what it can, it narrows nothing that has no range.
LEMMA FirstTime ==
    ASSUME IsProgram(prog), Graph, NoneComparesWithItself, NEW g \in Asserting,
           NEW r, AreRanges(r)
    PROVE  Narrows(g, After(g, r)) \subseteq DOMAIN After(g, r)
<1> DEFINE s == After(g, r)
<1>1. /\ B(g).cond \in Value /\ ~ ComparesWithItself(g) /\ AreRanges(s)
      /\ Told(g, s) \subseteq Leaves /\ Narrows(g, s) \subseteq Told(g, s)
      /\ DOMAIN s = DOMAIN r \union Narrows(g, r) /\ Narrows(g, r) \subseteq Told(g, r)
      /\ \A v : From(v, r) \in Intervals
      /\ \A v : v \notin Narrows(g, r) => From(v, s) = From(v, r)
    BY AfterFacts DEF NoneComparesWithItself
<1> SUFFICES ASSUME NEW v \in Narrows(g, s), v \notin DOMAIN s PROVE FALSE
    OBVIOUS
<1>2. /\ v \in Leaves /\ v \in Told(g, s) /\ v \notin Phis /\ NarrowingIsSound(v, g)
      /\ Narrowed(v, From(v, s), Relations(g, s)) # From(v, s)
    BY <1>1 DEF Narrows
<1>3. v \notin DOMAIN r /\ v \notin Narrows(g, r) /\ From(v, s) = From(v, r)
    BY <1>1
<1>4. v \in Told(g, r) => Narrowed(v, From(v, r), Relations(g, r)) = From(v, r)
    BY <1>2, <1>3 DEF Narrows
<1>5. \/ \E rel, y : Bounds(g, v, rel, y)
      \/ \E rel, w : Relates(g, v, rel, w) /\ (w \in Leaves => Relates(g, w, Swap(rel), v))
      \/ \A q : AreRanges(q) => v \notin Told(g, q)
    BY <1>1, <1>2, Sides
<1> HIDE DEF s
<1>6. ASSUME NEW rel, NEW y, Bounds(g, v, rel, y) PROVE FALSE
    BY <1>1, <1>2, <1>3, <1>4, <1>6 DEF Bounds
<1>7. ASSUME NEW rel, NEW w, Relates(g, v, rel, w), w \in Leaves => Relates(g, w, Swap(rel), v)
      PROVE  FALSE
    <2>1. w \in DOMAIN s /\ w \in Leaves
        BY <1>1, <1>2, <1>7 DEF Relates, AreRanges
    <2>2. w \in Told(g, r) <=> v \in DOMAIN r
        BY <1>7, <2>1 DEF Relates
    <2>3. w \notin Narrows(g, r) /\ w \in DOMAIN r
        BY <1>1, <1>3, <2>1, <2>2
    <2>4. r[w] = s[w]
        BY <1>1, <2>1, <2>3 DEF From
    <2>5. /\ Narrowed(v, From(v, r), Relations(g, r)) = Cut(rel, From(v, r), r[w])
          /\ Narrowed(v, From(v, r), Relations(g, s)) = Cut(rel, From(v, r), s[w])
          /\ v \in Told(g, r)
        BY <1>1, <1>7, <2>1, <2>3 DEF Relates
    <2> QED BY <1>2, <1>3, <1>4, <2>4, <2>5
<1> QED BY <1>1, <1>2, <1>5, <1>6, <1>7

\* A guard that narrows only what has a range narrows nothing after that.
LEMMA SecondTime ==
    ASSUME IsProgram(prog), Graph, NoneComparesWithItself, NEW g \in Asserting,
           NEW r, AreRanges(r), Narrows(g, r) \subseteq DOMAIN r
    PROVE  Narrows(g, After(g, r)) = {}
<1> DEFINE s == After(g, r)
<1>1. /\ B(g).cond \in Value /\ ~ ComparesWithItself(g) /\ AreRanges(s)
      /\ Told(g, s) \subseteq Leaves /\ Narrows(g, s) \subseteq Told(g, s)
      /\ DOMAIN s = DOMAIN r
      /\ \A v : From(v, r) \in Intervals
      /\ \A v : v \notin Narrows(g, r) => From(v, s) = From(v, r)
      /\ \A v \in Narrows(g, r) : From(v, s) = Narrowed(v, From(v, r), Relations(g, r))
    BY AfterFacts DEF NoneComparesWithItself
<1> SUFFICES ASSUME NEW v \in Narrows(g, s) PROVE FALSE
    OBVIOUS
<1>2. /\ v \in Leaves /\ v \in Told(g, s) /\ v \notin Phis /\ NarrowingIsSound(v, g)
      /\ Narrowed(v, From(v, s), Relations(g, s)) # From(v, s)
    BY <1>1 DEF Narrows
<1> HIDE DEF s
<1>3. v \in Told(g, r) => From(v, s) = Narrowed(v, From(v, r), Relations(g, r))
    BY <1>1, <1>2 DEF Narrows
<1>4. \/ \E rel, y : Bounds(g, v, rel, y)
      \/ \E rel, w : Relates(g, v, rel, w) /\ (w \in Leaves => Relates(g, w, Swap(rel), v))
      \/ \A q : AreRanges(q) => v \notin Told(g, q)
    BY <1>1, <1>2, Sides
<1>5. \A q : AreRanges(q) => \A w : From(w, q) = IF w \in DOMAIN q THEN q[w] ELSE Interval(0, MaxInt)
    BY DEF From
<1>6. From(v, s) \in Intervals
    BY <1>1 DEF From, AreRanges
<1>7. ASSUME NEW rel, NEW y, Bounds(g, v, rel, y) PROVE FALSE
    <2>1. /\ rel \in CmpOps /\ y \in Intervals /\ From(v, s) = Cut(rel, From(v, r), y)
          /\ Narrowed(v, From(v, s), Relations(g, s)) = Cut(rel, From(v, s), y)
        BY <1>1, <1>3, <1>6, <1>7 DEF Bounds
    <2> QED BY <1>1, <1>2, <2>1, CutOnce
<1>8. ASSUME NEW rel, NEW w, Relates(g, v, rel, w), w \in Leaves => Relates(g, w, Swap(rel), v)
      PROVE  FALSE
    <2>1. w \in DOMAIN r /\ w \in DOMAIN s /\ w \in Leaves /\ rel \in CmpOps
        BY <1>1, <1>2, <1>8 DEF Relates, AreRanges
    <2>2. /\ v \in Told(g, r) /\ (w \in Told(g, r) <=> v \in DOMAIN r)
          /\ From(v, s) = Cut(rel, From(v, r), r[w])
          /\ Narrowed(v, From(v, s), Relations(g, s)) = Cut(rel, From(v, s), s[w])
          /\ r[w] \in Intervals /\ s[w] \in Intervals /\ s[w] = From(w, s) /\ r[w] = From(w, r)
        BY <1>1, <1>3, <1>5, <1>6, <1>8, <2>1 DEF Relates, AreRanges
    <2>3. CASE w \notin Narrows(g, r)
        <3>1. s[w] = r[w]
            BY <1>1, <2>2, <2>3
        <3> QED BY <1>1, <1>2, <2>1, <2>2, <3>1, CutOnce
    <2>4. CASE w \in Narrows(g, r)
        <3>1. w \in Told(g, r) /\ v \in DOMAIN r
            BY <2>2, <2>4 DEF Narrows
        <3>2. r[v] \in Intervals /\ From(v, r) = r[v]
            BY <1>5, <3>1 DEF AreRanges
        <3>3. s[w] = Cut(Swap(rel), r[w], r[v])
            BY <1>1, <1>8, <2>1, <2>2, <2>4, <3>1 DEF Relates
        <3> QED BY <1>2, <2>1, <2>2, <3>2, <3>3, CutBoth
    <2> QED BY <2>3, <2>4
<1> QED BY <1>1, <1>2, <1>4, <1>7, <1>8

\* A guard's narrowing reaches no other guard but those it dominates.
LEMMA Undisturbed ==
    ASSUME IsProgram(prog), Graph, NoneComparesWithItself, NEW g \in Asserting,
           NEW k \in Asserting, NEW r, AreRanges(r),
           Narrows(k, r) = {} \/ (g # k /\ ~ Dominates(k, g))
    PROVE  Narrows(g, After(k, r)) = Narrows(g, r)
<1> DEFINE s == After(k, r)
<1>1. ASSUME NEW w \in Tests(g), w \in Narrows(k, r) PROVE FALSE
    <2>1. NarrowingIsSound(w, k) /\ g # k /\ ~ Dominates(k, g) /\ g \in Blocks
        BY <1>1 DEF Narrows, Asserting
    <2>2. g \in UsesApart(w, k)
        BY <1>1, <2>1 DEF UsesApart
    <2> QED BY <2>1, <2>2 DEF NarrowingIsSound
<1>2. /\ AreRanges(s)
      /\ \A v : v \notin Narrows(k, r) =>
             (v \in DOMAIN s <=> v \in DOMAIN r) /\ (v \in DOMAIN r => s[v] = r[v])
    BY AfterFacts
<1> HIDE DEF s
<1>3. Narrows(g, r) = Narrows(g, s)
    BY <1>1, <1>2, NarrowsAgree
<1> QED BY <1>3 DEF s

LEMMA ReadyStays ==
    ASSUME IsProgram(prog), Graph, NoneComparesWithItself, NEW g \in Asserting,
           NEW k \in Asserting, NEW r, AreRanges(r), Ready(g, r)
    PROVE  /\ Ready(g, After(k, r))
           /\ g # k => Narrows(g, After(k, r)) = Narrows(g, r)
<1>1. \A b \in Asserting : b \in Blocks
    BY DEF Asserting
<1>2. ASSUME NEW h \in Asserting, Dominates(h, g) PROVE Narrows(h, After(k, r)) = {}
    <2>1. Narrows(h, r) = {}
        BY <1>2 DEF Ready
    <2>2. Dominates(k, h) => Narrows(k, r) = {}
        BY <1>1, <1>2, DominatesTransitive DEF Ready
    <2>3. Narrows(h, After(k, r)) = Narrows(h, r)
        BY <2>1, <2>2, Undisturbed
    <2> QED BY <2>1, <2>3
<1>3. Dominates(k, g) => Narrows(k, r) = {}
    BY DEF Ready
<1>4. g # k => Narrows(g, After(k, r)) = Narrows(g, r)
    BY <1>3, Undisturbed
<1> QED BY <1>2, <1>4 DEF Ready

\* Of the guards that no guard before them disturbs any more, those that are quiet and
\* those that narrow only what has a range.
Done(r)  == {g \in Asserting : Ready(g, r) /\ Narrows(g, r) = {}}
Begun(r) == {g \in Asserting : Ready(g, r) /\ Narrows(g, r) \subseteq DOMAIN r}

Gain(r) == Cardinality(Done(r)) + Cardinality(Begun(r))

LEMMA GainIsBounded ==
    ASSUME IsProgram(prog), Graph, NEW r
    PROVE  /\ IsFiniteSet(Asserting) /\ IsFiniteSet(Done(r)) /\ IsFiniteSet(Begun(r))
           /\ Cardinality(Done(r)) \in Nat /\ Cardinality(Begun(r)) \in Nat
           /\ Gain(r) \in Nat /\ Len(Guards) \in Nat /\ Gain(r) <= 2 * Len(Guards)
<1> DEFINE N == Len(Guards)
           f == [i \in 1..N |-> Guards[i]]
<1>1. Guards \in Seq(Asserting) /\ Held(Guards) = Asserting
    BY AssertingFacts
<1>2. N \in Nat /\ DOMAIN Guards = 1..N
    <2> DEFINE w == Guards
    <2>1. w \in Seq(Asserting)
        BY <1>1
    <2> HIDE DEF w
    <2>2. Len(w) \in Nat /\ DOMAIN w = 1..Len(w)
        BY <2>1
    <2> QED BY <2>2 DEF w
<1>3. IsFiniteSet(1..N) /\ Cardinality(1..N) = N
    <2> HIDE DEF N
    <2>1. 1 \in Int /\ N \in Int
        BY <1>2
    <2>2. IsFiniteSet(1..N) /\ Cardinality(1..N) = IF 1 > N THEN 0 ELSE N - 1 + 1
        BY <2>1, FS_Interval
    <2> QED BY <1>2, <2>2
<1>4. f \in Surjection(1..N, Asserting)
    <2>1. Asserting = {Guards[i] : i \in 1..N}
        BY <1>1, <1>2 DEF Held
    <2>2. f \in [1..N -> Asserting]
        BY <2>1
    <2>3. \A b \in Asserting : \E i \in 1..N : f[i] = b
        BY <2>1
    <2> QED BY <2>2, <2>3 DEF Surjection
<1> HIDE DEF f, N
<1>5. IsFiniteSet(Asserting) /\ Cardinality(Asserting) <= N
    BY <1>3, <1>4, FS_Surjection
<1>6. Done(r) \in SUBSET Asserting /\ Begun(r) \in SUBSET Asserting
    BY DEF Done, Begun
<1>7. /\ IsFiniteSet(Done(r)) /\ Cardinality(Done(r)) <= Cardinality(Asserting)
      /\ IsFiniteSet(Begun(r)) /\ Cardinality(Begun(r)) <= Cardinality(Asserting)
    BY <1>5, <1>6, FS_Subset
<1>8. /\ Cardinality(Asserting) \in Nat
      /\ Cardinality(Done(r)) \in Nat /\ Cardinality(Begun(r)) \in Nat
    BY <1>5, <1>7, FS_CardinalityType
<1>9. Gain(r) \in Nat /\ Gain(r) <= 2 * N
    BY <1>2, <1>5, <1>7, <1>8 DEF Gain
<1> QED BY <1>2, <1>5, <1>7, <1>8, <1>9 DEF N

\* The gain is never lost, and a guard that is ready and narrows something adds to it.
LEMMA GainGrows ==
    ASSUME IsProgram(prog), Graph, NoneComparesWithItself, NEW k \in Asserting, NEW r, AreRanges(r)
    PROVE  /\ Gain(r) <= Gain(After(k, r))
           /\ Ready(k, r) /\ Narrows(k, r) # {} => Gain(r) + 1 <= Gain(After(k, r))
<1> DEFINE s == After(k, r)
<1>1. DOMAIN r \subseteq DOMAIN s /\ AreRanges(s)
    BY AfterFacts
<1>2. \A g \in Asserting : Ready(g, r) => Ready(g, s) /\ (g # k => Narrows(g, s) = Narrows(g, r))
    BY ReadyStays
<1>3. Narrows(k, r) = {} => Narrows(k, s) = {}
    BY Undisturbed
<1>4. Narrows(k, r) \subseteq DOMAIN r => Narrows(k, s) = {}
    BY SecondTime
<1>5. Narrows(k, s) \subseteq DOMAIN s
    BY FirstTime
<1> HIDE DEF s
<1>6. Done(r) \subseteq Done(s)
    BY <1>2, <1>3 DEF Done
<1>7. Begun(r) \subseteq Begun(s)
    BY <1>1, <1>2, <1>4 DEF Begun
<1>8. ASSUME Ready(k, r), Narrows(k, r) # {} PROVE Done(s) # Done(r) \/ Begun(s) # Begun(r)
    <2>1. CASE k \in Begun(r)
        <3>1. k \in Done(s) /\ k \notin Done(r)
            BY <1>2, <1>4, <1>8, <2>1 DEF Begun, Done
        <3> QED BY <3>1
    <2>2. CASE k \notin Begun(r)
        <3>1. k \in Begun(s)
            BY <1>2, <1>5, <1>8 DEF Begun
        <3> QED BY <2>2, <3>1
    <2> QED BY <2>1, <2>2
<1>9. /\ IsFiniteSet(Done(s)) /\ IsFiniteSet(Begun(s))
      /\ Cardinality(Done(r)) \in Nat /\ Cardinality(Begun(r)) \in Nat
      /\ Cardinality(Done(s)) \in Nat /\ Cardinality(Begun(s)) \in Nat
    BY GainIsBounded
<1>10. /\ Cardinality(Done(r)) <= Cardinality(Done(s))
       /\ Cardinality(Done(s)) = Cardinality(Done(r)) => Done(s) = Done(r)
       /\ Cardinality(Begun(r)) <= Cardinality(Begun(s))
       /\ Cardinality(Begun(s)) = Cardinality(Begun(r)) => Begun(s) = Begun(r)
    BY <1>6, <1>7, <1>9, FS_Subset
<1>11. Gain(r) <= Gain(s)
    BY <1>9, <1>10 DEF Gain
<1>12. Ready(k, r) /\ Narrows(k, r) # {} => Gain(r) + 1 <= Gain(s)
    BY <1>8, <1>9, <1>10 DEF Gain
<1> QED BY <1>11, <1>12 DEF s

\* A guard that narrows something is one that is ready, or comes after one that does.
LEMMA FirstOfAll ==
    ASSUME IsProgram(prog), Graph, NEW r, NEW k \in Asserting, Narrows(k, r) # {}
    PROVE  \E g \in Asserting : /\ Ready(g, r) /\ Narrows(g, r) # {}
                                /\ g = k \/ Dominates(g, k)
<1> DEFINE Before(g) == {h \in Asserting : Dominates(h, g)}
           S == {g \in Asserting : Narrows(g, r) # {} /\ (g = k \/ Dominates(g, k))}
           T == {Cardinality(Before(g)) : g \in S}
<1>1. IsFiniteSet(Asserting) /\ \A b \in Asserting : b \in Blocks
    BY GainIsBounded DEF Asserting
<1>2. \A g \in Asserting : IsFiniteSet(Before(g)) /\ Cardinality(Before(g)) \in Nat
    <2> TAKE g \in Asserting
    <2>1. Before(g) \in SUBSET Asserting
        OBVIOUS
    <2> HIDE DEF Before
    <2>2. IsFiniteSet(Before(g))
        BY <1>1, <2>1, FS_Subset
    <2> QED BY <2>2, FS_CardinalityType
<1>3. k \in S /\ \A g \in S : g \in Asserting
    OBVIOUS
<1>4. T \subseteq Nat /\ T # {}
    <2> HIDE DEF S, Before
    <2> QED BY <1>2, <1>3
<1>5. PICK n \in T : \A m \in T : n <= m
    <2> HIDE DEF T
    <2> QED BY <1>4, LeastNumber
<1>6. PICK g \in S : n = Cardinality(Before(g))
    <2> HIDE DEF S, Before
    <2> QED BY <1>5
<1>7. \A h \in S : Cardinality(Before(g)) <= Cardinality(Before(h))
    <2> HIDE DEF S, Before
    <2> QED BY <1>5, <1>6
<1>8. ASSUME NEW h \in Asserting, Dominates(h, g), Narrows(h, r) # {} PROVE FALSE
    <2>1. h \in S
        <3>1. CASE g = k
            BY <1>8, <3>1
        <3>2. CASE Dominates(g, k)
            <4>1. Dominates(h, k)
                BY <1>1, <1>3, <1>6, <1>8, <3>2, DominatesTransitive
            <4> QED BY <1>8, <4>1
        <3> QED BY <1>6, <3>1, <3>2
    <2>2. Before(h) \in SUBSET Before(g)
        BY <1>1, <1>3, <1>6, <1>8, DominatesTransitive
    <2>3. h \in Before(g) /\ h \notin Before(h)
        BY <1>8 DEF Dominates
    <2>4. g \in Asserting
        BY <1>3, <1>6
    <2> HIDE DEF Before, S
    <2>5. /\ Cardinality(Before(h)) <= Cardinality(Before(g))
          /\ Cardinality(Before(g)) = Cardinality(Before(h)) => Before(g) = Before(h)
        BY <1>2, <2>2, <2>4, FS_Subset
    <2> QED BY <1>2, <1>7, <2>1, <2>3, <2>4, <2>5
<1> QED BY <1>6, <1>8 DEF Ready

\* Round n has begun, guards t are left in it, and the ranges are r.  Each round but this one
\* has gained something.  This one has too, or the guards it has been through are quiet if
\* they are ready; and if it has changed a range (c), there is a guard left that will gain.
Progress(r, t, c, n) ==
    /\ n \in Nat /\ n <= Gain(r) + 1
    /\ \/ n <= Gain(r)
       \/ \A g \in Asserting \ Held(t) : Ready(g, r) => Narrows(g, r) = {}
    /\ c => \/ n <= Gain(r)
            \/ \E g \in Asserting \cap Held(t) : Ready(g, r) /\ Narrows(g, r) # {}

LEMMA ProgressInARound ==
    ASSUME IsProgram(prog), Graph, NoneComparesWithItself, NEW r, AreRanges(r),
           NEW t \in Seq(Asserting), t # <<>>, NEW c \in BOOLEAN, NEW n, Progress(r, t, c, n)
    PROVE  Progress(After(Head(t), r), Tail(t), c \/ Narrows(Head(t), r) # {}, n)
<1> DEFINE k == Head(t)
           s == After(k, r)
<1>1. k \in Asserting /\ Held(t) \subseteq Held(Tail(t)) \union {k} /\ Held(Tail(t)) \subseteq Held(t)
    <2>1. DOMAIN t = 1..Len(t) /\ Len(t) \in Nat /\ Len(t) # 0 /\ k = t[1] /\ k \in Asserting
        OBVIOUS
    <2>2. /\ DOMAIN Tail(t) = 1..(Len(t) - 1)
          /\ \A i \in 1..(Len(t) - 1) : Tail(t)[i] = t[i + 1] /\ i + 1 \in 1..Len(t)
        BY <2>1
    <2>3. ASSUME NEW i \in DOMAIN t PROVE t[i] \in Held(Tail(t)) \union {k}
        <3>1. CASE i = 1
            BY <2>1, <3>1
        <3>2. CASE i # 1
            <4>1. i - 1 \in 1..(Len(t) - 1) /\ (i - 1) + 1 = i
                BY <2>1, <3>2
            <4>2. Tail(t)[i - 1] = t[i] /\ i - 1 \in DOMAIN Tail(t)
                BY <2>2, <4>1
            <4> QED BY <4>2 DEF Held
        <3> QED BY <3>1, <3>2
    <2>4. Held(t) \subseteq Held(Tail(t)) \union {k}
        BY <2>3 DEF Held
    <2>5. Held(Tail(t)) \subseteq Held(t)
        BY <2>1, <2>2 DEF Held
    <2> QED BY <2>1, <2>4, <2>5
<1>2. Gain(r) \in Nat /\ Gain(s) \in Nat
    BY GainIsBounded
<1>3. Gain(r) <= Gain(s) /\ (Ready(k, r) /\ Narrows(k, r) # {} => Gain(r) + 1 <= Gain(s))
    BY <1>1, GainGrows
<1>4. \A g \in Asserting : Ready(g, r) => Ready(g, s) /\ (g # k => Narrows(g, s) = Narrows(g, r))
    BY <1>1, ReadyStays
<1>5. n \in Nat /\ n <= Gain(r) + 1
    BY DEF Progress
<1> HIDE DEF k, s
<1>6. CASE n <= Gain(s)
    BY <1>2, <1>5, <1>6 DEF Progress, s, k
<1>7. CASE ~ (n <= Gain(s))
    <2>1. ~ (n <= Gain(r)) /\ n <= Gain(s) + 1
        BY <1>2, <1>3, <1>5, <1>7
    <2>2. \A g \in Asserting \ Held(t) : Ready(g, r) => Narrows(g, r) = {}
        BY <2>1 DEF Progress
    <2>3. c => \E g \in Asserting \cap Held(t) : Ready(g, r) /\ Narrows(g, r) # {}
        BY <2>1 DEF Progress
    <2>4. ~ (Ready(k, r) /\ Narrows(k, r) # {})
        BY <1>2, <1>3, <1>5, <1>7
    \* What is ready and narrows something is left, and stays so.
    <2>5. ASSUME NEW g \in Asserting, Ready(g, r), Narrows(g, r) # {}
          PROVE  g \in Held(Tail(t)) /\ g # k /\ Ready(g, s) /\ Narrows(g, s) # {}
        <3>1. g \in Held(t) /\ g # k
            BY <2>2, <2>4, <2>5
        <3> QED BY <1>1, <1>4, <2>5, <3>1
    <2>6. ASSUME NEW h \in Asserting \ Held(Tail(t)), Ready(h, s) PROVE Narrows(h, s) = {}
        <3>1. ASSUME NEW h2 \in Asserting, Dominates(h2, h), Narrows(h2, r) # {} PROVE FALSE
            <4>1. PICK g \in Asserting : /\ Ready(g, r) /\ Narrows(g, r) # {}
                                         /\ g = h2 \/ Dominates(g, h2)
                BY <3>1, FirstOfAll
            <4>2. Dominates(g, h)
                <5>1. g \in Blocks /\ h2 \in Blocks /\ h \in Blocks
                    BY <2>6, <3>1, <4>1 DEF Asserting
                <5> QED BY <3>1, <4>1, <5>1, DominatesTransitive
            <4>3. Narrows(g, s) # {}
                BY <2>5, <4>1
            <4> QED BY <2>6, <4>1, <4>2, <4>3 DEF Ready
        <3>2. Ready(h, r)
            BY <3>1 DEF Ready
        <3>3. Narrows(h, r) = {}
            BY <2>5, <2>6, <3>2
        <3>4. CASE h # k
            BY <1>4, <2>6, <3>2, <3>3, <3>4
        <3>5. CASE h = k
            <4>1. Narrows(k, s) = Narrows(k, r)
                BY <1>1, <3>3, <3>5, Undisturbed DEF s
            <4> QED BY <3>3, <3>5, <4>1
        <3> QED BY <3>4, <3>5
    <2>7. ASSUME c \/ Narrows(k, r) # {}
          PROVE  \E g \in Asserting \cap Held(Tail(t)) : Ready(g, s) /\ Narrows(g, s) # {}
        <3>1. \E g \in Asserting : Ready(g, r) /\ Narrows(g, r) # {}
            <4>1. CASE c
                BY <2>3, <4>1
            <4>2. CASE Narrows(k, r) # {}
                BY <1>1, <4>2, FirstOfAll
            <4> QED BY <2>7, <4>1, <4>2
        <3> QED BY <2>5, <3>1
    <2>8. Progress(s, Tail(t), c \/ Narrows(k, r) # {}, n)
        BY <1>5, <2>1, <2>6, <2>7 DEF Progress
    <2> QED BY <2>8 DEF s, k
<1> QED BY <1>6, <1>7

LEMMA SameProgress ==
    ASSUME UNCHANGED program
    PROVE  /\ NoneComparesWithItself' = NoneComparesWithItself
           /\ \A r, t, c, n : Progress(r, t, c, n)' = Progress(r, t, c, n)
<1>1. /\ Asserting' = Asserting /\ Phis' = Phis
      /\ \A b : B(b)' = B(b)
      /\ \A g, b : Dominates(g, b)' = Dominates(g, b)
      /\ \A v, g : NarrowingIsSound(v, g)' = NarrowingIsSound(v, g)
      /\ \A g, r : Relations(g, r)' = Relations(g, r) /\ Told(g, r)' = Told(g, r)
    BY SameAnalysis, SameRanges
<1>2. \A g, r : Narrows(g, r)' = Narrows(g, r)
    BY <1>1 DEF Narrows
<1>3. \A g, r : Ready(g, r)' = Ready(g, r)
    BY <1>1, <1>2 DEF Ready
<1>4. \A r : Done(r)' = Done(r) /\ Begun(r)' = Begun(r)
    BY <1>1, <1>2, <1>3 DEF Done, Begun
<1>5. \A r : Gain(r)' = Gain(r)
    BY <1>4 DEF Gain
<1>6. \A g : ComparesWithItself(g)' = ComparesWithItself(g)
    BY <1>1 DEF ComparesWithItself
<1>7. NoneComparesWithItself' = NoneComparesWithItself
    BY <1>1, <1>6 DEF NoneComparesWithItself
<1>8. \A r, t, c, n : Progress(r, t, c, n)' = Progress(r, t, c, n)
    BY <1>1, <1>2, <1>3, <1>5 DEF Progress, Held
<1> QED BY <1>7, <1>8

\* The invariant of the rounds.
RoundsInv == changed \in BOOLEAN /\ (NoneComparesWithItself => Progress(range, todo, changed, rounds))

LEMMA RoundsInit == Init => RoundsInv
<1> SUFFICES ASSUME Init PROVE RoundsInv
    OBVIOUS
<1>1. IsProgram(prog) /\ Graph
    BY MachineGraph DEF Init, InitMachine
<1>2. todo = Guards /\ changed = FALSE /\ rounds = 1 /\ Held(Guards) = Asserting
    BY <1>1, AssertingFacts DEF Init
<1>3. Gain(range) \in Nat
    BY <1>1, GainIsBounded
<1>4. Asserting \ Held(todo) = {}
    BY <1>2
<1>5. rounds \in Nat /\ rounds <= Gain(range) + 1 /\ changed = FALSE
    BY <1>2, <1>3
<1>6. Progress(range, todo, changed, rounds)
    BY <1>4, <1>5 DEF Progress
<1> QED BY <1>5, <1>6 DEF RoundsInv

LEMMA RoundsStep == MachineInv /\ AnalysisInv /\ RoundsInv /\ [Next]_vars => RoundsInv'
<1> SUFFICES ASSUME MachineInv, AnalysisInv, RoundsInv, [Next]_vars PROVE RoundsInv'
    OBVIOUS
<1>1. IsProgram(prog) /\ Graph /\ AreRanges(range) /\ todo \in Seq(Asserting)
    BY MachineGraph DEF MachineInv, AnalysisInv, RangesInv
<1>2. /\ NoneComparesWithItself' = NoneComparesWithItself
      /\ \A r, t, c, n : Progress(r, t, c, n)' = Progress(r, t, c, n)
    BY TextStays, SameProgress
<1>3. CASE Refine
    <2> DEFINE g == Head(todo)
    <2>1. /\ todo # <<>> /\ todo' = Tail(todo) /\ rounds' = rounds
          /\ changed' = (changed \/ Narrowing(g) # {})
          /\ range' = [v \in DOMAIN range \union Narrowing(g) |->
                           IF v \in Narrowing(g) THEN NewRange(v, g) ELSE range[v]]
        BY <1>3 DEF Refine
    <2>2. Narrowing(g) = Narrows(g, range)
        <3>1. Concerned(g) = Told(g, range)
            BY DEF Concerned, Told, Held
        <3> QED BY <3>1 DEF Narrowing, Narrows, NewRange
    <2>3. range' = After(g, range)
        BY <2>1, <2>2 DEF After, NewRange
    <2> HIDE DEF g
    <2>4. NoneComparesWithItself => Progress(range', todo', changed', rounds')
        BY <1>1, <2>1, <2>2, <2>3, ProgressInARound DEF RoundsInv, g
    <2>5. changed' \in BOOLEAN
        BY <2>1
    <2> QED BY <1>2, <2>4, <2>5 DEF RoundsInv
<1>4. CASE AnotherRound
    <2>1. /\ todo = <<>> /\ changed /\ todo' = Guards /\ changed' = FALSE
          /\ rounds' = rounds + 1 /\ range' = range
        BY <1>4 DEF AnotherRound
    <2>2. Held(todo) = {} /\ Held(Guards) = Asserting
        BY <1>1, <2>1, AssertingFacts DEF Held
    <2>3. Gain(range) \in Nat
        BY <1>1, GainIsBounded
    <2>4. NoneComparesWithItself => Progress(range', todo', changed', rounds')
        BY <2>1, <2>2, <2>3 DEF RoundsInv, Progress
    <2> QED BY <1>2, <2>1, <2>4 DEF RoundsInv
<1>5. CASE Start \/ Execute \/ UNCHANGED vars
    <2>1. range' = range /\ todo' = todo /\ changed' = changed /\ rounds' = rounds
        BY <1>5 DEF Start, Execute, analysisVars, vars
    <2> QED BY <1>2, <2>1 DEF RoundsInv
<1> QED BY <1>3, <1>4, <1>5 DEF Next

\* The refinement ends after two rounds per guard and one more, whatever the width of the
\* ranges, unless a guard compares a value with itself.
THEOREM RoundsAreFew == Spec => []FewRounds
<1>1. MachineInv /\ RoundsInv => FewRounds
    <2> SUFFICES ASSUME MachineInv, RoundsInv, \A g \in Blocks : B(g).op = "assert" => ~ ComparesWithItself(g)
                 PROVE  rounds <= 2 * Len(Guards) + 1
        BY DEF FewRounds
    <2>1. NoneComparesWithItself
        BY DEF NoneComparesWithItself, Asserting
    <2>2. rounds \in Nat /\ rounds <= Gain(range) + 1
        BY <2>1 DEF RoundsInv, Progress
    <2>3. Gain(range) \in Nat /\ Len(Guards) \in Nat /\ Gain(range) <= 2 * Len(Guards)
        BY MachineGraph, GainIsBounded DEF MachineInv
    <2> QED BY <2>2, <2>3
<1> QED BY <1>1, RoundsInit, RoundsStep, MachineInductive, AnalysisInductive, PTL DEF Spec

-----------------------------------------------------------------------------
(* What follows from facts.                                                *)

\* A set of numbers that is bounded below has a least one.
LEMMA LeastOfBounded ==
    ASSUME NEW T, T \subseteq Int, T # {}, NEW k \in Int, \A n \in T : k <= n
    PROVE  MinOf(T) \in T /\ k <= MinOf(T) /\ \A n \in T : MinOf(T) <= n
<1> DEFINE U == {n - k : n \in T}
<1>1. U \subseteq Nat /\ U # {}
    <2>1. \A n \in T : n - k \in Nat
        OBVIOUS
    <2> QED BY <2>1
<1>2. PICK u \in U : \A w \in U : u <= w
    BY <1>1, LeastNumber
<1>3. PICK m \in T : u = m - k
    OBVIOUS
<1>4. \A n \in T : m <= n
    <2> TAKE n \in T
    <2>1. u <= n - k
        BY <1>2
    <2> QED BY <1>3, <2>1
<1>5. MinOf(T) \in T /\ \A n \in T : MinOf(T) <= n
    BY <1>3, <1>4 DEF MinOf
<1> QED BY <1>5

\* Facts about the atoms A, and values of these that meet them.
FactsAbout(A) == [from : A, to : A, most : Int]

Meets(V, facts) == \A f \in facts : V[f.from] - V[f.to] <= f.most

\* Bounds of what source exceeds each atom by.
Sound(V, source, d) ==
    /\ \A x \in DOMAIN d : d[x] \in Int /\ V[source] - V[x] <= d[x]

LEMMA ShortestIsSound ==
    ASSUME NEW A, IsFiniteSet(A), NEW V \in [A -> Int], NEW facts \in SUBSET FactsAbout(A),
           Meets(V, facts), NEW source \in A
    PROVE  LET s == Shortest(facts, source)
           IN  /\ DOMAIN s.bound \subseteq A
               /\ Sound(V, source, s.bound)
               /\ s.consistent \in BOOLEAN
<1> DEFINE start == [x \in {source} |-> 0]
           found(d) == {[to |-> f.to, most |-> d[f.from] + f.most] :
                            f \in {g \in facts : g.from \in DOMAIN d}}
                       \union {[to |-> x, most |-> d[x]] : x \in DOMAIN d}
           about(d, x) == {m.most : m \in {l \in found(d) : l.to = x}}
           step(d) == [x \in {m.to : m \in found(d)} |-> MinOf(about(d, x))]
           D == {d \in UNION {[S -> Int] : S \in SUBSET A} : Sound(V, source, d)}
           G == [d \in D |-> step(d)]
           F(f) == [n \in Nat |-> IF n = 0 THEN start ELSE step(f[n - 1])]
           bound == CHOOSE f : f = F(f)
           N == Cardinality({source} \union {f.to : f \in facts})
<1>1. start \in D
    <2>1. start \in [{source} -> Int] /\ {source} \in SUBSET A
        OBVIOUS
    <2>2. Sound(V, source, start)
        BY DEF Sound
    <2> HIDE DEF start
    <2> QED BY <2>1, <2>2
<1>2. ASSUME NEW d \in D PROVE step(d) \in D
    <2>1. DOMAIN d \subseteq A /\ \A x \in DOMAIN d : d[x] \in Int /\ V[source] - V[x] <= d[x]
        BY DEF Sound
    <2>2. \A f \in facts : f.from \in A /\ f.to \in A /\ f.most \in Int
                           /\ V[f.from] - V[f.to] <= f.most
        BY DEF FactsAbout, Meets
    <2>3. ASSUME NEW m \in found(d)
          PROVE  m.to \in A /\ m.most \in Int /\ V[source] - V[m.to] <= m.most
        <3>1. CASE \E f \in facts : f.from \in DOMAIN d /\ m = [to |-> f.to, most |-> d[f.from] + f.most]
            <4>1. PICK f \in facts : /\ f.from \in DOMAIN d
                                     /\ m = [to |-> f.to, most |-> d[f.from] + f.most]
                BY <3>1
            <4>2. m.to = f.to /\ m.most = d[f.from] + f.most
                BY <4>1
            <4>3. /\ V[source] \in Int /\ V[f.from] \in Int /\ V[f.to] \in Int
                  /\ d[f.from] \in Int /\ V[source] - V[f.from] <= d[f.from]
                  /\ f.most \in Int /\ V[f.from] - V[f.to] <= f.most
                BY <2>1, <2>2, <4>1
            <4> QED BY <2>2, <4>2, <4>3
        <3>2. CASE \E x \in DOMAIN d : m = [to |-> x, most |-> d[x]]
            BY <2>1, <3>2
        <3> QED BY <3>1, <3>2
    <2> DEFINE S == {m.to : m \in found(d)}
    <2>4. S \subseteq A
        <3> HIDE DEF found
        <3> QED BY <2>3
    <2>5. ASSUME NEW x \in S
          PROVE  MinOf(about(d, x)) \in Int /\ V[source] - V[x] <= MinOf(about(d, x))
        <3>1. PICK m \in found(d) : m.to = x
            OBVIOUS
        <3> HIDE DEF found
        <3>2. m.most \in about(d, x)
            BY <3>1
        <3>3. about(d, x) \subseteq Int /\ \A n \in about(d, x) : V[source] - V[x] <= n
            BY <2>3
        <3>4. V[source] - V[x] \in Int
            BY <2>4
        <3> HIDE DEF about
        <3> QED BY <3>2, <3>3, <3>4, LeastOfBounded
    <2> HIDE DEF about, found
    <2>6. step(d) \in [S -> Int] /\ S \in SUBSET A
        BY <2>4, <2>5
    <2>7. Sound(V, source, step(d))
        BY <2>5 DEF Sound
    <2> HIDE DEF step, S
    <2> QED BY <2>6, <2>7
<1>3. PICK f \in [Nat -> D] : Iterates(f, start, G)
    <2>1. G \in [D -> D]
        <3> HIDE DEF step, D
        <3> QED BY <1>2
    <2> HIDE DEF G, D, start
    <2> QED BY <1>1, <2>1, IterationExists
<1>4. f[0] = start /\ \A n \in Nat : f[n] \in D /\ f[n + 1] = step(f[n])
    <2> HIDE DEF step, D, start
    <2> QED BY <1>3 DEF Iterates
<1>5. f = F(f)
    <2>1. \A n \in Nat : n # 0 => n - 1 \in Nat /\ (n - 1) + 1 = n
        OBVIOUS
    <2> HIDE DEF step, D, start
    <2> QED BY <1>3, <1>4, <2>1
<1>6. bound = F(bound)
    <2> HIDE DEF F
    <2> QED BY <1>5
<1>7. Shortest(facts, source) = [bound |-> bound[N], consistent |-> bound[N - 1] = bound[N]]
    BY DEF Shortest
<1> HIDE DEF bound
<1>8. bound[0] = start /\ \A n \in Nat : bound[n + 1] = step(bound[n])
    <2>1. \A n \in Nat : n + 1 \in Nat /\ n + 1 # 0 /\ (n + 1) - 1 = n
        OBVIOUS
    <2> HIDE DEF step, D, start
    <2> QED BY <1>6, <2>1
<1> DEFINE T == {n \in Nat : bound[n] \in D}
<1>9. \A n \in Nat : n \in T
    <2>1. 0 \in T
        <3> HIDE DEF D, start
        <3> QED BY <1>1, <1>8
    <2>2. ASSUME NEW n \in Nat, n \in T PROVE n + 1 \in T
        <3> HIDE DEF D, step
        <3> QED BY <1>2, <1>8, <2>2
    <2> HIDE DEF T
    <2> QED BY <2>1, <2>2, NumberInduction
<1>10. N \in Nat
    <2>1. {source} \union {f2.to : f2 \in facts} \subseteq A
        BY DEF FactsAbout
    <2> QED BY <2>1, FS_Subset, FS_CardinalityType
<1>11. bound[N] \in D
    <2> HIDE DEF D, N
    <2> QED BY <1>9, <1>10
<1>12. DOMAIN bound[N] \subseteq A /\ Sound(V, source, bound[N])
    <2> HIDE DEF N
    <2> QED BY <1>11
<1> HIDE DEF N
<1> QED BY <1>7, <1>12

\* What the facts entail holds of values that meet them.
LEMMA EntailsIsSound ==
    ASSUME NEW A, IsFiniteSet(A), NEW V \in [A -> Int], NEW facts \in SUBSET FactsAbout(A),
           Meets(V, facts), NEW a \in A, NEW b \in A, NEW c \in Int, Entails(facts, a, b, c)
    PROVE  V[a] - V[b] <= c
<1>1. CASE a = b
    BY <1>1 DEF Entails
<1>2. CASE a # b
    <2> DEFINE s == Shortest(facts, a)
    <2>1. b \in DOMAIN s.bound /\ s.bound[b] <= c
        BY <1>2 DEF Entails
    <2>2. Sound(V, a, s.bound)
        BY ShortestIsSound
    <2> HIDE DEF s
    <2>3. s.bound[b] \in Int /\ V[a] - V[b] <= s.bound[b]
        BY <2>1, <2>2 DEF Sound
    <2> QED BY <2>1, <2>3
<1> QED BY <1>1, <1>2

-----------------------------------------------------------------------------
(* Slices.                                                                 *)

Atoms == {Origin} \union {Number(v) : v \in Value} \union {Length(v) : v \in Value}

LEMMA AtomsAreFinite == IsFiniteSet(Atoms)
<1>1. IsFiniteSet(Value)
    BY ValuesAreComputed
<1>2. \A T : (\E f : f \in Surjection(Value, T)) => IsFiniteSet(T)
    BY <1>1, FS_Surjection
<1>3. IsFiniteSet({Number(v) : v \in Value})
    <2> DEFINE T == {Number(v) : v \in Value}
    <2>1. [v \in Value |-> Number(v)] \in Surjection(Value, T)
        BY DEF Surjection
    <2> HIDE DEF T
    <2>2. IsFiniteSet(T)
        BY <1>2, <2>1
    <2> QED BY <2>2 DEF T
<1>4. IsFiniteSet({Length(v) : v \in Value})
    <2> DEFINE T == {Length(v) : v \in Value}
    <2>1. [v \in Value |-> Length(v)] \in Surjection(Value, T)
        BY DEF Surjection
    <2> HIDE DEF T
    <2>2. IsFiniteSet(T)
        BY <1>2, <2>1
    <2> QED BY <2>2 DEF T
<1>5. IsFiniteSet({Origin})
    BY FS_Singleton
<1>6. IsFiniteSet({Origin} \union {Number(v) : v \in Value})
    BY <1>3, <1>5, FS_Union
<1> QED BY <1>4, <1>6, FS_Union DEF Atoms

\* Where the values V of the atoms put a term.
At(V, t) == V[t.atom] + t.offset

LEMMA TermFacts ==
    ASSUME NEW v \in Value, NEW t \in Terms(v)
    PROVE  t.atom \in Atoms /\ t.offset \in Nat
<1>1. v \in Leaves /\ IsInt(v) => Constant(v) \in Nat
    <2>1. v \in Leaves /\ IsInt(v) => Makes[v].imm \in Seq(Nat) /\ Len(Makes[v].imm) = 1
        BY MakesIsOperation, MakesHasOperands DEF IsInt, Arith
    <2> QED BY <2>1 DEF Constant
<1> QED BY <1>1 DEF Terms, Atoms

\* The values V give slice v the length its operation does.
CutSays(V, v) ==
    LET in(i) == Makes[v].ins[i]
        imm   == Makes[v].imm
    IN  /\ Makes[v].op = "extract3" => \A t \in Terms(in(1)) : V[Length(v)] = At(V, t)
        /\ Makes[v].op = "substring3" =>
               \A t \in Terms(in(1)), s \in Terms(in(2)) : V[Length(v)] = At(V, t) - At(V, s)
        /\ Makes[v].op = "extract" =>
               V[Length(v)] = IF imm[2] = 0 THEN V[Length(in(1))] - imm[1] ELSE imm[2]
        /\ Makes[v].op = "substring" => V[Length(v)] = imm[2] - imm[1]

\* The operands of slice v.
LEMMA SliceOperands ==
    ASSUME NEW v \in Leaves
    PROVE  /\ Makes[v].op = "extract3" => Makes[v].ins[1] \in Leaves
           /\ Makes[v].op = "substring3" => Makes[v].ins[1] \in Leaves /\ Makes[v].ins[2] \in Leaves
           /\ Makes[v].op \in {"extract", "substring"} =>
                  /\ Makes[v].ins[1] \in Leaves
                  /\ Makes[v].imm[1] \in Nat /\ Makes[v].imm[2] \in Nat
<1>1. Makes[v].ins \in Seq(Leaves) /\ Makes[v].imm \in Seq(Nat)
    BY MakesIsOperation
<1>2. /\ Makes[v].op \in {"extract3", "substring3"} => Len(Makes[v].ins) = 3
      /\ Makes[v].op \in {"extract", "substring"} => Len(Makes[v].ins) = 1 /\ Len(Makes[v].imm) = 2
    BY MakesHasOperands DEF Arith
<1> QED BY <1>1, <1>2

LEMMA CutIsSound ==
    ASSUME NEW V \in [Atoms -> Int], V[Origin] = 0,
           NEW facts \in SUBSET FactsAbout(Atoms), Meets(V, facts),
           NEW v \in Leaves, CutSays(V, v), NEW atom \in Atoms, NEW n \in Int,
           ProvesCut(facts, v, atom, n)
    PROVE  n + V[atom] <= V[Length(v)]
<1> DEFINE in(i) == Makes[v].ins[i]
           imm == Makes[v].imm
<1>1. /\ IsFiniteSet(Atoms) /\ Origin \in Atoms /\ Length(v) \in Atoms
      /\ V[Length(v)] \in Int /\ V[atom] \in Int
    BY AtomsAreFinite DEF Atoms, Leaves
<1>2. CASE Makes[v].op = "extract3"
    <2>1. PICK t \in Terms(in(1)) : Entails(facts, atom, t.atom, t.offset - n)
        BY <1>2 DEF ProvesCut
    <2>2. t.atom \in Atoms /\ t.offset \in Nat
        BY <1>2, <2>1, SliceOperands, TermFacts DEF Leaves
    <2>3. t.offset - n \in Int
        BY <2>2
    <2>4. V[atom] - V[t.atom] <= t.offset - n
        BY <1>1, <2>1, <2>2, <2>3, EntailsIsSound
    <2>5. V[Length(v)] = V[t.atom] + t.offset
        BY <1>2, <2>1 DEF CutSays, At
    <2>6. V[t.atom] \in Int
        BY <2>2
    <2> QED BY <1>1, <2>2, <2>4, <2>5, <2>6
<1>3. CASE Makes[v].op = "substring3"
    <2>1. PICK t \in Terms(in(1)), s \in Terms(in(2)) :
              Entails(facts, s.atom, t.atom, t.offset - s.offset - n)
        BY <1>3 DEF ProvesCut
    <2>2. t.atom \in Atoms /\ t.offset \in Nat /\ s.atom \in Atoms /\ s.offset \in Nat
        BY <1>3, <2>1, SliceOperands, TermFacts DEF Leaves
    <2>3. t.offset - s.offset - n \in Int
        BY <2>2
    <2>4. V[s.atom] - V[t.atom] <= t.offset - s.offset - n
        BY <1>1, <2>1, <2>2, <2>3, EntailsIsSound
    <2>5. V[Length(v)] = (V[t.atom] + t.offset) - (V[s.atom] + s.offset)
        BY <1>3, <2>1 DEF CutSays, At
    <2>6. V[t.atom] \in Int /\ V[s.atom] \in Int /\ atom = Origin
        BY <1>3, <2>2 DEF ProvesCut
    <2> QED BY <1>1, <2>2, <2>4, <2>5, <2>6
<1>4. CASE Makes[v].op = "extract" /\ imm[2] # 0
    <2>1. Entails(facts, atom, Origin, imm[2] - n) /\ imm[2] \in Nat /\ V[Length(v)] = imm[2]
        BY <1>4, SliceOperands DEF ProvesCut, CutSays
    <2>2. imm[2] - n \in Int
        BY <2>1
    <2>3. V[atom] - V[Origin] <= imm[2] - n
        BY <1>1, <2>1, <2>2, EntailsIsSound
    <2> HIDE DEF imm
    <2> QED BY <1>1, <2>1, <2>3
<1>5. CASE Makes[v].op = "substring"
    <2>1. /\ Entails(facts, atom, Origin, imm[2] - imm[1] - n)
          /\ imm[1] \in Nat /\ imm[2] \in Nat /\ V[Length(v)] = imm[2] - imm[1]
        BY <1>5, SliceOperands DEF ProvesCut, CutSays
    <2>2. imm[2] - imm[1] - n \in Int
        BY <2>1
    <2>3. V[atom] - V[Origin] <= imm[2] - imm[1] - n
        BY <1>1, <2>1, <2>2, EntailsIsSound
    <2> HIDE DEF imm
    <2> QED BY <1>1, <2>1, <2>3
<1> QED BY <1>2, <1>3, <1>4, <1>5 DEF ProvesCut

\* A length that is proved is at least that, if the values V give each slice it is
\* unfolded through, all in K, the length its operation does.
LEMMA ProvedLength ==
    ASSUME NEW V \in [Atoms -> Int], V[Origin] = 0,
           NEW facts \in SUBSET FactsAbout(Atoms), Meets(V, facts),
           NEW K \in SUBSET Leaves,
           \A v \in K : IsVar(v) => CutSays(V, v) /\ (ReachesEnd(v) => Makes[v].ins[1] \in K),
           NEW buffer \in K, NEW atom \in Atoms, NEW most \in Int,
           ProvesLength(facts, buffer, atom, most)
    PROVE  most + V[atom] <= V[Length(buffer)]
<1> DEFINE N == MaxUnfolding
           D == [of : K, most : Int]
           A == [of |-> buffer, most |-> most]
           next(w) == IF ReachesEnd(w.of)
                      THEN [of |-> Makes[w.of].ins[1], most |-> w.most + Makes[w.of].imm[1]]
                      ELSE w
           G == [p \in (1..N) \X D |-> next(p[2])]
           F(f) == [k \in 0..N |-> IF k = 0 THEN A
                                   ELSE LET w == f[k - 1]
                                        IN IF ReachesEnd(w.of)
                                           THEN [of |-> Makes[w.of].ins[1],
                                                 most |-> w.most + Makes[w.of].imm[1]]
                                           ELSE w]
           whole == CHOOSE f : f = F(f)
<1>1. N = 5 /\ N \in Nat
    BY DEF MaxUnfolding
<1>2. ASSUME NEW w \in D
      PROVE  /\ next(w) \in D
             /\ V[Length(next(w).of)] - next(w).most = V[Length(w.of)] - w.most
    <2>1. CASE ReachesEnd(w.of)
        <3> DEFINE v == w.of
        <3>1. /\ v \in Leaves /\ IsVar(v) /\ CutSays(V, v) /\ Makes[v].ins[1] \in K
              /\ Makes[v].op = "extract" /\ Makes[v].imm[2] = 0
            BY <2>1 DEF ReachesEnd
        <3>2. /\ Makes[v].imm[1] \in Nat
              /\ V[Length(v)] = V[Length(Makes[v].ins[1])] - Makes[v].imm[1]
            BY <3>1, SliceOperands DEF CutSays
        <3>3. V[Length(Makes[v].ins[1])] \in Int /\ w.most \in Int
            BY <3>1 DEF Atoms, Leaves
        <3>4. next(w) = [of |-> Makes[v].ins[1], most |-> w.most + Makes[v].imm[1]]
            BY <2>1
        <3> HIDE DEF next, v
        <3> QED BY <3>1, <3>2, <3>3, <3>4 DEF v
    <2> QED BY <2>1
<1>3. PICK f \in [0..N -> D] : StepByStep(f, A, N, G)
    <2>1. G \in [(1..N) \X D -> D]
        <3> HIDE DEF next, D
        <3> QED BY <1>2
    <2>2. A \in D
        OBVIOUS
    <2> HIDE DEF G, D, A, N
    <2> QED BY <1>1, <2>1, <2>2, RecursionUpTo
<1>4. f[0] = A /\ \A k \in 1..N : f[k] = next(f[k - 1])
    <2>1. \A k \in 1..N : k - 1 \in 0..N
        BY <1>1
    <2> HIDE DEF next, D, A, N
    <2> QED BY <1>3, <2>1 DEF StepByStep
<1>5. f = F(f)
    <2>1. \A k \in 0..N : k # 0 => k \in 1..N
        BY <1>1
    <2> HIDE DEF D, A, N
    <2> QED BY <1>3, <1>4, <2>1
<1>6. whole = F(whole)
    <2> HIDE DEF F
    <2> QED BY <1>5
<1>7. PICK k \in 0..N :
          \/ Entails(facts, atom, Length(whole[k].of), -whole[k].most)
          \/ IsVar(whole[k].of) /\ ProvesCut(facts, whole[k].of, atom, whole[k].most)
    BY DEF ProvesLength
<1> HIDE DEF whole
<1>8. whole[0] = A /\ \A j \in 1..N : whole[j] = next(whole[j - 1])
    <2>1. 0 \in 0..N /\ \A j \in 1..N : j \in 0..N /\ j # 0
        BY <1>1
    <2> HIDE DEF A, N
    <2> QED BY <1>6, <2>1
<1> DEFINE T == {j \in Nat : j <= N =>
                     /\ whole[j] \in D
                     /\ V[Length(whole[j].of)] - whole[j].most = V[Length(buffer)] - most}
<1>9. \A j \in Nat : j \in T
    <2>1. 0 \in T
        BY <1>8
    <2>2. ASSUME NEW j \in Nat, j \in T PROVE j + 1 \in T
        <3> SUFFICES ASSUME j + 1 <= N
                     PROVE  /\ whole[j + 1] \in D
                            /\ V[Length(whole[j + 1].of)] - whole[j + 1].most = V[Length(buffer)] - most
            OBVIOUS
        <3>1. j + 1 \in 1..N /\ (j + 1) - 1 = j /\ j <= N
            BY <1>1
        <3>2. whole[j + 1] = next(whole[j])
            <4> HIDE DEF next, N
            <4> QED BY <1>8, <3>1
        <3> HIDE DEF next, D, N
        <3> QED BY <1>2, <2>2, <3>1, <3>2
    <2> HIDE DEF T
    <2> QED BY <2>1, <2>2, NumberInduction
<1>10. whole[k] \in D /\ V[Length(whole[k].of)] - whole[k].most = V[Length(buffer)] - most
    BY <1>1, <1>7, <1>9
<1> DEFINE v == whole[k].of
           n == whole[k].most
<1>11. /\ v \in K /\ v \in Leaves /\ n \in Int /\ -n \in Int
       /\ Length(v) \in Atoms /\ Length(buffer) \in Atoms
       /\ V[Length(v)] \in Int /\ V[Length(buffer)] \in Int /\ V[atom] \in Int
    BY <1>10 DEF Atoms, Leaves
<1>12. n + V[atom] <= V[Length(v)]
    <2>1. CASE Entails(facts, atom, Length(v), -n)
        <3> HIDE DEF v, n
        <3>1. V[atom] - V[Length(v)] <= -n
            BY <1>11, <2>1, AtomsAreFinite, EntailsIsSound
        <3> QED BY <1>11, <3>1
    <2>2. CASE IsVar(v) /\ ProvesCut(facts, v, atom, n)
        <3> HIDE DEF v, n
        <3> QED BY <1>11, <2>2, CutIsSound
    <2> QED BY <1>7, <2>1, <2>2
<1>13. V[Length(v)] - n = V[Length(buffer)] - most
    BY <1>10
<1> HIDE DEF v, n
<1> QED BY <1>11, <1>12, <1>13

-----------------------------------------------------------------------------
(* Accesses.                                                               *)

\* An access has its buffer, and its other operands before it.
LEMMA AccessOperands ==
    ASSUME NEW v \in Leaves, Makes[v].op \in ByteOps
    PROVE  LET m == Makes[v] IN
           /\ m.ins \in Seq(Leaves) /\ Len(m.ins) \in 1..3
           /\ Buffer(v) \in Leaves
           /\ \A i \in 1..Len(m.ins) : m.ins[i] \in Leaves
           /\ m.op \in {"extract", "substring"} =>
                  Len(m.ins) = 1 /\ m.imm[1] \in Nat /\ m.imm[2] \in Nat
           /\ m.op \in {"getbyte", "extract_uint16"} => Len(m.ins) = 2
           /\ m.op \in {"extract3", "substring3", "setbyte"} => Len(m.ins) = 3
<1>1. Makes[v].ins \in Seq(Leaves) /\ Makes[v].imm \in Seq(Nat)
    BY MakesIsOperation
<1>2. /\ Makes[v].op \in {"extract3", "substring3", "setbyte"} => Len(Makes[v].ins) = 3
      /\ Makes[v].op \in {"extract", "substring"} => Len(Makes[v].ins) = 1 /\ Len(Makes[v].imm) = 2
      /\ Makes[v].op \in {"getbyte", "extract_uint16"} => Len(Makes[v].ins) = 2
    BY MakesHasOperands DEF Arith
<1>3. Len(Makes[v].ins) \in 1..3
    BY <1>2 DEF ByteOps, Slices
<1> DEFINE m == Makes[v]
<1>4. \A i \in 1..Len(m.ins) : m.ins[i] \in Leaves
    BY <1>1
<1>5. m.op \in {"extract", "substring"} => m.imm[1] \in Nat /\ m.imm[2] \in Nat
    BY <1>1, <1>2
<1>6. Buffer(v) \in Leaves
    <2>1. Len(m.ins) \in 1..Len(m.ins)
        <3>1. \A n \in 1..3 : n \in 1..n
            OBVIOUS
        <3> QED BY <1>3, <3>1
    <2>2. m.ins[Len(m.ins)] \in Leaves
        BY <1>4, <2>1
    <2> QED BY <2>2 DEF Buffer, BufferOf
<1> QED BY <1>1, <1>2, <1>3, <1>4, <1>5, <1>6

\* The values e of the leaves, integer constants being what they are.
Plain(e) == e \in [Leaves -> Nat] /\ \A w \in Leaves : IsInt(w) => e[w] = Constant(w)

\* Where the values V of the atoms are those of the leaves S in e.
Shows(V, e, S) == \A w \in S : ~ IsInt(w) /\ w \notin Phis => V[Number(w)] = e[w]

LEMMA TermShows ==
    ASSUME NEW V \in [Atoms -> Int], V[Origin] = 0, NEW e, Plain(e), NEW w \in Leaves,
           Shows(V, e, {w}), NEW t \in Terms(w)
    PROVE  At(V, t) = e[w] /\ t.atom \in Atoms /\ t.offset \in Nat /\ V[t.atom] \in Int
<1>1. t.atom \in Atoms /\ t.offset \in Nat
    BY TermFacts DEF Leaves
<1>2. At(V, t) = e[w]
    <2>1. CASE IsInt(w)
        <3>1. t.atom = Origin /\ t.offset = e[w] /\ e[w] \in Nat
            BY <2>1 DEF Terms, Plain
        <3> QED BY <3>1 DEF At
    <2>2. CASE ~ IsInt(w)
        <3>1. t.atom = Number(w) /\ t.offset = 0 /\ w \notin Phis
            BY <2>2 DEF Terms
        <3>2. V[Number(w)] = e[w] /\ e[w] \in Nat
            BY <2>2, <3>1 DEF Shows, Plain
        <3> QED BY <3>1, <3>2 DEF At
    <2> QED BY <2>1, <2>2
<1> QED BY <1>1, <1>2

\* The end of the bytes access v needs, as its operands are in e.
End(v, e) == IF Makes[v].op = "extract" THEN Makes[v].imm[1] + Makes[v].imm[2]
             ELSE Window(Makes[v], e).to

\* What is needed is the end of the access.
LEMMA NeededIsEnd ==
    ASSUME NEW V \in [Atoms -> Int], V[Origin] = 0, NEW e, Plain(e),
           NEW v \in Leaves, Makes[v].op \in ByteOps, Shows(V, e, Indices(v)),
           NEW m \in Needed(Access(v))
    PROVE  /\ m.atom \in Atoms /\ m.most \in Int /\ m.most + V[m.atom] = End(v, e)
           /\ ~ Access(v).dynamic => m.atom = Origin
<1> DEFINE in(i) == Makes[v].ins[i]
           imm == Makes[v].imm
           acc == Access(v)
           To(n)        == [base |-> {}, extra |-> {n}, dynamic |-> FALSE]
           Beyond(w, n) == IF IsInt(w) THEN To(n + Constant(w))
                           ELSE [base |-> {w}, extra |-> {n}, dynamic |-> TRUE]
           Ends(k) == /\ m.atom \in Atoms /\ m.most \in Int /\ m.most + V[m.atom] = k
                      /\ ~ acc.dynamic => m.atom = Origin
<1>1. ASSUME NEW n \in Nat, acc = To(n) PROVE Ends(n)
    <2>1. m.atom = Origin /\ m.most = n + 0
        BY <1>1 DEF Needed
    <2>2. Origin \in Atoms
        BY DEF Atoms
    <2> HIDE DEF acc
    <2> QED BY <2>1, <2>2
<1>2. ASSUME NEW w \in Indices(v), w \in Leaves, NEW n \in Nat, acc = Beyond(w, n)
      PROVE  Ends(n + e[w])
    <2>1. e[w] \in Nat /\ (IsInt(w) => e[w] = Constant(w))
        BY <1>2 DEF Plain
    <2>2. CASE IsInt(w)
        <3>1. acc = To(n + e[w]) /\ n + e[w] \in Nat
            <4> HIDE DEF acc, To
            <4> QED BY <1>2, <2>1, <2>2
        <3> HIDE DEF acc, To
        <3> QED BY <1>1, <3>1
    <2>3. CASE ~ IsInt(w)
        <3>1. acc = [base |-> {w}, extra |-> {n}, dynamic |-> TRUE]
            BY <1>2, <2>3
        <3>2. PICK t \in Terms(w) : m = [atom |-> t.atom, most |-> n + t.offset]
            BY <3>1 DEF Needed
        <3>3. Shows(V, e, {w})
            BY <1>2 DEF Shows
        <3>4. At(V, t) = e[w] /\ t.atom \in Atoms /\ t.offset \in Nat /\ V[t.atom] \in Int
            BY <1>2, <3>2, <3>3, TermShows
        <3>5. m.atom = t.atom /\ m.most = n + t.offset /\ acc.dynamic
            BY <3>1, <3>2
        <3> HIDE DEF acc
        <3> QED BY <2>1, <3>4, <3>5 DEF At
    <2> QED BY <2>2, <2>3
<1>3. /\ Makes[v].ins \in Seq(Leaves) /\ \A i \in 1..Len(Makes[v].ins) : in(i) \in Leaves
      /\ Makes[v].op \in {"extract", "substring"} => imm[1] \in Nat /\ imm[2] \in Nat
      /\ Makes[v].op \in {"getbyte", "extract_uint16"} => Len(Makes[v].ins) = 2
      /\ Makes[v].op \in {"extract3", "substring3", "setbyte"} => Len(Makes[v].ins) = 3
    BY AccessOperands
<1>4. CASE Makes[v].op = "extract"
    <2>1. acc = To(imm[1] + imm[2]) /\ End(v, e) = imm[1] + imm[2]
        BY <1>4 DEF Access, End
    <2>2. imm[1] + imm[2] \in Nat
        BY <1>3, <1>4
    <2> HIDE DEF acc, To, imm, Ends
    <2>3. Ends(imm[1] + imm[2])
        BY <1>1, <2>1, <2>2
    <2> QED BY <2>1, <2>3 DEF Ends, acc
<1>5. CASE Makes[v].op = "substring"
    <2>1. acc = To(imm[2]) /\ End(v, e) = imm[2]
        BY <1>5 DEF Access, End, Window
    <2>2. imm[2] \in Nat
        BY <1>3, <1>5
    <2> HIDE DEF acc, To, imm, Ends
    <2>3. Ends(imm[2])
        BY <1>1, <2>1, <2>2
    <2> QED BY <2>1, <2>3 DEF Ends, acc
<1>6. /\ Len(Makes[v].ins) \in {2, 3} => in(1) \in Indices(v) /\ in(1) \in Leaves /\ e[in(1)] \in Nat
      /\ Len(Makes[v].ins) = 3 => in(2) \in Indices(v) /\ in(2) \in Leaves /\ e[in(2)] \in Nat
    <2>1. \A n \in {2, 3} : 1 \in 1..n /\ 1 \in 1..(n - 1)
        OBVIOUS
    <2>2. 2 \in 1..3 /\ 2 \in 1..(3 - 1)
        OBVIOUS
    <2>3. \A i \in 1..(Len(Makes[v].ins) - 1) : in(i) \in Indices(v)
        BY DEF Indices
    <2> HIDE DEF in
    <2> QED BY <1>3, <2>1, <2>2, <2>3 DEF Plain
<1>7. CASE Makes[v].op = "extract3"
    <2>1. End(v, e) = e[in(2)] + e[in(1)]
        BY <1>7 DEF End, Window
    <2>2. acc.extra # {}
        BY DEF Needed
    <2>3. \/ IsInt(in(1)) /\ acc = Beyond(in(2), e[in(1)])
          \/ IsInt(in(2)) /\ acc = Beyond(in(1), e[in(2)])
        <3>1. \/ IsInt(in(1)) /\ acc = Beyond(in(2), Constant(in(1)))
              \/ IsInt(in(2)) /\ acc = Beyond(in(1), Constant(in(2)))
              \/ acc = [base |-> {}, extra |-> {}, dynamic |-> TRUE]
            BY <1>7 DEF Access
        <3> HIDE DEF acc, Beyond
        <3> QED BY <1>3, <1>6, <1>7, <2>2, <3>1 DEF Plain
    <2> HIDE DEF acc, Beyond, Ends, in
    <2>4. Ends(e[in(2)] + e[in(1)])
        <3>1. CASE acc = Beyond(in(2), e[in(1)])
            <4>1. Ends(e[in(1)] + e[in(2)])
                BY <1>2, <1>3, <1>6, <1>7, <3>1
            <4> QED BY <1>3, <1>6, <1>7, <4>1
        <3>2. CASE acc = Beyond(in(1), e[in(2)])
            BY <1>2, <1>3, <1>6, <1>7, <3>2
        <3> QED BY <2>3, <3>1, <3>2
    <2> QED BY <2>1, <2>4 DEF Ends, acc
<1>8. CASE Makes[v].op = "substring3"
    <2>1. acc = Beyond(in(1), 0) /\ End(v, e) = 0 + e[in(1)]
        BY <1>3, <1>6, <1>8 DEF Access, End, Window
    <2> HIDE DEF acc, Beyond, Ends, in
    <2>2. Ends(0 + e[in(1)])
        BY <1>2, <1>3, <1>6, <1>8, <2>1
    <2> QED BY <2>1, <2>2 DEF Ends, acc
<1>9. CASE Makes[v].op = "setbyte"
    <2>1. acc = Beyond(in(2), 1) /\ End(v, e) = 1 + e[in(2)]
        BY <1>3, <1>6, <1>9 DEF Access, End, Window
    <2> HIDE DEF acc, Beyond, Ends, in
    <2>2. Ends(1 + e[in(2)])
        BY <1>2, <1>3, <1>6, <1>9, <2>1
    <2> QED BY <2>1, <2>2 DEF Ends, acc
<1>10. ASSUME NEW n \in {1, 2}, Makes[v].op = IF n = 1 THEN "getbyte" ELSE "extract_uint16"
       PROVE  Ends(End(v, e))
    <2>1. acc = Beyond(in(1), n) /\ End(v, e) = n + e[in(1)]
        <3>1. CASE n = 1
            BY <1>3, <1>6, <1>10, <3>1 DEF Access, End, Window
        <3>2. CASE n = 2
            BY <1>3, <1>6, <1>10, <3>2 DEF Access, End, Window
        <3> QED BY <3>1, <3>2
    <2> HIDE DEF acc, Beyond, Ends, in
    <2>2. Ends(n + e[in(1)])
        BY <1>2, <1>3, <1>6, <1>10, <2>1
    <2> QED BY <2>1, <2>2
<1>11. CASE Makes[v].op \in {"getbyte", "extract_uint16"}
    <2>1. Ends(End(v, e))
        <3> HIDE DEF Ends
        <3> QED BY <1>10, <1>11
    <2> QED BY <2>1
<1> QED BY <1>4, <1>5, <1>7, <1>8, <1>9, <1>11 DEF ByteOps, Slices

\* Fails and overreads, of an access whose bytes end at End.
LEMMA EndFacts ==
    ASSUME NEW v \in Leaves, Makes[v].op \in ByteOps, NEW e, Plain(e)
    PROVE  /\ End(v, e) \in Int /\ e[Buffer(v)] \in Nat
           /\ Window(Makes[v], e).to > e[Buffer(v)] => End(v, e) > e[Buffer(v)]
           /\ End(v, e) > e[Buffer(v)] => Fails(v, e)
           /\ Makes[v].op = "substring" /\ Makes[v].imm[1] > Makes[v].imm[2] => Fails(v, e)
<1> DEFINE w == Window(Makes[v], e)
<1>1. /\ \A i \in 1..Len(Makes[v].ins) : e[Makes[v].ins[i]] \in Nat
      /\ e[Buffer(v)] \in Nat
      /\ Makes[v].op \in {"extract", "substring"} => Makes[v].imm[1] \in Nat /\ Makes[v].imm[2] \in Nat
      /\ Makes[v].op \in {"getbyte", "extract_uint16"} => Len(Makes[v].ins) = 2
      /\ Makes[v].op \in {"extract3", "substring3", "setbyte"} => Len(Makes[v].ins) = 3
    BY AccessOperands DEF Plain
<1>2. Fails(v, e) <=> ~ (w.from <= w.to /\ w.to <= e[Buffer(v)])
    BY DEF Fails, Fail, Buffer, ByteOps, Slices
<1>3. CASE Makes[v].op = "extract"
    <2>1. /\ End(v, e) = Makes[v].imm[1] + Makes[v].imm[2] /\ w.from = Makes[v].imm[1]
          /\ w.to = IF Makes[v].imm[2] = 0 THEN e[Buffer(v)] ELSE Makes[v].imm[1] + Makes[v].imm[2]
        BY <1>3 DEF End, Window, Buffer
    <2> HIDE DEF w
    <2> QED BY <1>1, <1>2, <1>3, <2>1 DEF w
<1>4. CASE Makes[v].op # "extract"
    <2>1. End(v, e) = w.to
        BY <1>4 DEF End
    <2>2. w.to \in Int /\ w.from \in Int
        <3>1. \A n \in {2, 3} : 1 \in 1..n
            OBVIOUS
        <3>2. 2 \in 1..3
            OBVIOUS
        <3>3. /\ Makes[v].op \in {"getbyte", "extract_uint16"} => e[Makes[v].ins[1]] \in Nat
              /\ Makes[v].op \in {"extract3", "substring3", "setbyte"} =>
                     e[Makes[v].ins[1]] \in Nat /\ e[Makes[v].ins[2]] \in Nat
            BY <1>1, <3>1, <3>2
        <3>4. Makes[v].op \in {"substring", "getbyte", "extract_uint16", "extract3", "substring3", "setbyte"}
            BY <1>4 DEF ByteOps, Slices
        <3>5. CASE Makes[v].op = "substring"
            BY <1>1, <3>5 DEF Window
        <3>6. CASE Makes[v].op = "extract3"
            BY <3>3, <3>6 DEF Window
        <3>7. CASE Makes[v].op = "substring3"
            BY <3>3, <3>7 DEF Window
        <3>8. CASE Makes[v].op = "setbyte"
            BY <3>3, <3>8 DEF Window
        <3>9. CASE Makes[v].op = "getbyte"
            BY <3>3, <3>9 DEF Window
        <3>10. CASE Makes[v].op = "extract_uint16"
            BY <3>3, <3>10 DEF Window
        <3> QED BY <3>4, <3>5, <3>6, <3>7, <3>8, <3>9, <3>10
    <2>3. Makes[v].op = "substring" => w.from = Makes[v].imm[1] /\ w.to = Makes[v].imm[2]
        BY DEF Window
    <2> HIDE DEF w
    <2> QED BY <1>1, <1>2, <2>1, <2>2, <2>3 DEF w
<1> QED BY <1>3, <1>4

\* What is said of an access is so of the values e of the leaves, if the atoms have values
\* that meet the facts, show what e has where the access takes its operands, and give the
\* slices K its length is unfolded through the lengths their operations do.
THEOREM VerdictIsSound ==
    ASSUME NEW V \in [Atoms -> Int], V[Origin] = 0,
           NEW facts \in SUBSET FactsAbout(Atoms), Meets(V, facts),
           NEW K \in SUBSET Leaves,
           \A w \in K : IsVar(w) => CutSays(V, w) /\ (ReachesEnd(w) => Makes[w].ins[1] \in K),
           NEW e, Plain(e), NEW v \in Leaves, Makes[v].op \in ByteOps, Buffer(v) \in K,
           Shows(V, e, Indices(v)), V[Length(Buffer(v))] = e[Buffer(v)]
    PROVE  /\ Verdict(facts, v).inBounds => ~ (Window(Makes[v], e).to > e[Buffer(v)])
           /\ Verdict(facts, v).provenOob => Fails(v, e)
<1> DEFINE acc == Access(v)
           s == Shortest(facts, Length(Buffer(v)))
           proved == \E m \in Needed(acc) : ProvesLength(facts, Buffer(v), m.atom, m.most)
           beyond == \E m \in Needed(acc) :
                         \E x \in {m.atom, Origin} \cap DOMAIN s.bound : s.bound[x] < m.most
           reversed == Makes[v].op = "substring" /\ Makes[v].imm[1] > Makes[v].imm[2]
<1>1. /\ Verdict(facts, v).inBounds => ~ reversed /\ proved
      /\ Verdict(facts, v).provenOob => reversed \/ (beyond /\ ~ acc.dynamic)
    <2>1. Verdict(facts, v) =
              IF reversed THEN [inBounds |-> FALSE, provenOob |-> TRUE]
              ELSE [inBounds |-> proved, provenOob |-> ~ proved /\ s.consistent /\ beyond /\ ~ acc.dynamic]
        BY DEF Verdict
    <2>2. CASE reversed
        <3>1. Verdict(facts, v) = [inBounds |-> FALSE, provenOob |-> TRUE]
            BY <2>1, <2>2
        <3> QED BY <2>2, <3>1
    <2>3. CASE ~ reversed
        <3> DEFINE oob == ~ proved /\ s.consistent /\ beyond /\ ~ acc.dynamic
        <3>1. Verdict(facts, v) = [inBounds |-> proved, provenOob |-> oob]
            BY <2>1, <2>3
        <3>2. Verdict(facts, v).inBounds = proved /\ Verdict(facts, v).provenOob = oob
            <4> HIDE DEF proved, oob
            <4> QED BY <3>1
        <3> HIDE DEF s, acc, reversed
        <3> QED BY <2>3, <3>2
    <2> QED BY <2>2, <2>3
<1>2. /\ IsFiniteSet(Atoms) /\ Origin \in Atoms /\ Length(Buffer(v)) \in Atoms
      /\ Buffer(v) \in Leaves
    BY AtomsAreFinite, AccessOperands DEF Atoms, Leaves
<1>3. \A m \in Needed(acc) : /\ m.atom \in Atoms /\ m.most \in Int /\ m.most + V[m.atom] = End(v, e)
                             /\ ~ acc.dynamic => m.atom = Origin
    BY NeededIsEnd
<1>4. /\ End(v, e) \in Int /\ e[Buffer(v)] \in Nat
      /\ Window(Makes[v], e).to > e[Buffer(v)] => End(v, e) > e[Buffer(v)]
      /\ End(v, e) > e[Buffer(v)] => Fails(v, e)
      /\ reversed => Fails(v, e)
    BY EndFacts
<1> HIDE DEF acc, reversed
<1>5. ASSUME proved PROVE ~ (Window(Makes[v], e).to > e[Buffer(v)])
    <2>1. PICK m \in Needed(acc) : ProvesLength(facts, Buffer(v), m.atom, m.most)
        BY <1>5
    <2>2. m.atom \in Atoms /\ m.most \in Int
        BY <1>3
    <2>3. m.most + V[m.atom] <= V[Length(Buffer(v))]
        BY <2>1, <2>2, ProvedLength
    <2>4. End(v, e) <= e[Buffer(v)]
        BY <1>3, <2>3
    <2>5. ~ (End(v, e) > e[Buffer(v)])
        BY <1>4, <2>4
    <2> QED BY <1>4, <2>5
<1>6. ASSUME beyond, ~ acc.dynamic PROVE Fails(v, e)
    <2>1. PICK m \in Needed(acc) :
              \E x \in {m.atom, Origin} \cap DOMAIN s.bound : s.bound[x] < m.most
        BY <1>6
    <2>2. m.atom = Origin /\ m.most \in Int /\ m.most + V[Origin] = End(v, e)
        BY <1>3, <1>6
    <2>3. Origin \in DOMAIN s.bound /\ s.bound[Origin] < m.most
        BY <2>1, <2>2
    <2>4. Sound(V, Length(Buffer(v)), s.bound)
        BY <1>2, ShortestIsSound
    <2> HIDE DEF s
    <2>5. s.bound[Origin] \in Int /\ V[Length(Buffer(v))] - V[Origin] <= s.bound[Origin]
        BY <2>3, <2>4 DEF Sound
    <2>6. End(v, e) > e[Buffer(v)]
        BY <1>4, <2>2, <2>3, <2>5
    <2> QED BY <1>4, <2>6
<1> QED BY <1>1, <1>4, <1>5, <1>6

-----------------------------------------------------------------------------
(* The checks beside the analysis of ranges.                               *)

LEMMA BoundsStep == [BoundsNext]_boundsVars => [Next]_vars
BY DEF BoundsNext, Analyse, CheckBounds, Continue, Next, boundsVars

\* Checking bounds disturbs neither the analysis of ranges nor the run.
THEOREM BoundsRefineRanges == BoundsSpec => Spec
<1>1. BoundsInit => Init
    BY DEF BoundsInit
<1> QED BY <1>1, BoundsStep, PTL DEF BoundsSpec, Spec

\* A verdict is a verdict, whatever is known.
LEMMA VerdictIsVerdict ==
    ASSUME NEW facts, NEW v
    PROVE  Verdict(facts, v) \in [inBounds : BOOLEAN, provenOob : BOOLEAN]
<1> DEFINE acc == Access(v)
           proved == \E m \in Needed(acc) : ProvesLength(facts, Buffer(v), m.atom, m.most)
           s == Shortest(facts, Length(Buffer(v)))
           beyond == \E m \in Needed(acc) :
                         \E x \in {m.atom, Origin} \cap DOMAIN s.bound : s.bound[x] < m.most
           oob == ~ proved /\ s.consistent /\ beyond /\ ~ acc.dynamic
           reversed == Makes[v].op = "substring" /\ Makes[v].imm[1] > Makes[v].imm[2]
<1>1. Verdict(facts, v) =
          IF reversed THEN [inBounds |-> FALSE, provenOob |-> TRUE]
          ELSE [inBounds |-> proved, provenOob |-> oob]
    BY DEF Verdict
<1>2. proved \in BOOLEAN /\ oob \in BOOLEAN
    OBVIOUS
<1> HIDE DEF acc, proved, s, beyond, oob, reversed
<1> QED BY <1>1, <1>2

LEMMA SameSites ==
    ASSUME UNCHANGED program
    PROVE  Sites' = Sites /\ Made' = Made
<1>1. \A b : B(b)' = B(b)
    BY DEF B, program
<1>2. Blocks' = Blocks
    BY DEF Blocks, program
<1>3. Made' = Made
    BY <1>1, <1>2 DEF Made
<1> QED BY <1>3 DEF Sites

\* The verdicts, the ranges and the run keep their types.
THEOREM BoundsTypeCorrect == BoundsSpec => []BoundsTypeOK
<1> DEFINE Verdicts == /\ DOMAIN verdict \subseteq Sites
                       /\ \A v \in DOMAIN verdict :
                              verdict[v] \in [inBounds : BOOLEAN, provenOob : BOOLEAN]
<1>1. BoundsInit => Verdicts
    BY DEF BoundsInit
<1>2. Verdicts /\ [BoundsNext]_boundsVars => Verdicts'
    <2> SUFFICES ASSUME Verdicts, [BoundsNext]_boundsVars PROVE Verdicts'
        OBVIOUS
    <2>0. Sites' = Sites
        BY BoundsStep, TextStays, SameSites
    <2>1. CASE verdict' = verdict
        BY <2>0, <2>1
    <2>2. CASE CheckBounds
        <3>1. verdict' = [v \in Sites |-> Verdict(FactsAt(DefinedIn(v)), v)]
            BY <2>2 DEF CheckBounds
        <3> QED BY <3>1, VerdictIsVerdict, <2>0
    <2> QED BY <2>1, <2>2 DEF BoundsNext, Analyse, Continue, boundsVars
<1>3. TypeOK /\ Verdicts => BoundsTypeOK
    BY DEF BoundsTypeOK
<1>4. Spec => []TypeOK
    BY TypeCorrect
<1> QED BY <1>1, <1>2, <1>3, <1>4, BoundsRefineRanges, PTL DEF BoundsSpec

-----------------------------------------------------------------------------
(* What the operations of a run have made stays made.                      *)

\* The leaves that can change.
Changing == Leaves \ Fixed

\* The blocks a path leads to without defining l are the fewest that are closed so.
LEMMA UndefinedLeast ==
    ASSUME IsProgram(prog), Graph, NEW l
    PROVE  /\ Undefined(l) \subseteq All /\ Undefined(l) \cap Definitions(l) = {}
           /\ \A K : /\ Entries \ Definitions(l) \subseteq K
                     /\ \A b \in K \cap Undefined(l) : Flow(b) \ Definitions(l) \subseteq K
                     => Undefined(l) \subseteq K
<1> DEFINE here == Definitions(l)
           next == [b \in All |-> Flow(b) \ here]
           S == Entries \ here
<1>1. prog.blocks \in Seq(Block) /\ next \in [All -> SUBSET All]
    BY FlowTypes
<1>2. S \in SUBSET All /\ S \subseteq All \ here
    BY FlowTypes DEF Entries, Graph
<1>3. /\ Undefined(l) = Closure(S, next)
      /\ \A b \in All : next[b] = Flow(b) \ here /\ next[b] \subseteq All \ here
    BY FlowTypes DEF Undefined
<1> HIDE DEF next, S
<1>4. /\ Closure(S, next) \subseteq All /\ S \subseteq Closure(S, next)
      /\ \A b \in Closure(S, next) : next[b] \subseteq Closure(S, next)
      /\ \A K : /\ S \subseteq K
                /\ \A b \in K \cap All : next[b] \subseteq K
                => Closure(S, next) \subseteq K
    BY <1>1, <1>2, ClosureFacts
<1>5. Closure(S, next) \subseteq All \ here
    BY <1>2, <1>3, <1>4
<1>6. ASSUME NEW K, Entries \ here \subseteq K,
             \A b \in K \cap Undefined(l) : Flow(b) \ here \subseteq K
      PROVE  Undefined(l) \subseteq K
    <2> DEFINE L == K \cap Undefined(l)
    <2>1. S \subseteq L
        BY <1>3, <1>4, <1>6 DEF S
    <2>2. ASSUME NEW b \in L \cap All PROVE next[b] \subseteq L
        BY <1>3, <1>4, <1>6
    <2> HIDE DEF L
    <2>3. Closure(S, next) \subseteq L
        BY <1>4, <2>1, <2>2
    <2> QED BY <1>3, <2>3 DEF L
<1> QED BY <1>3, <1>4, <1>5, <1>6

\* What an operation takes is defined where its own result is.
LEMMA InputsComeFirst ==
    ASSUME IsProgram(prog), Graph, SingleAssignment,
           NEW c \in Blocks, NEW l \in B(c).defs, NEW y \in InputsOf(l) \ Fixed
    PROVE  /\ l \in Changing /\ y \in Changing /\ y \in Reads(c) /\ Definitions(l) = {c}
           /\ c \notin Undefined(y)
           /\ Undefined(y) \subseteq Undefined(l)
<1>1. c \in All /\ l \in Changing /\ y \in Changing
    <2>1. l \in Leaves \ Fixed
        BY DefinesFacts DEF Graph
    <2> QED BY <2>1, MakesIsOperation DEF Graph, InputsOf, Changing
<1>2. y \in Reads(c)
    <2>1. B(c) \in Block /\ Linked(B(c), prog.blocks)
        BY <1>1, FlowTypes DEF IsProgram, B, All
    <2>2. InputsOf(l) \subseteq B(c).uses /\ B(c).uses \subseteq Value
        BY <2>1 DEF Linked, Block
    <2>3. \A v \in Value : v \in Computing(v)
        BY ComputingSteps
    <2> QED BY <2>2, <2>3 DEF Reads
<1>3. c \notin Undefined(y)
    BY <1>1, <1>2, ReadsAreDefined DEF Changing
<1>4. Definitions(l) = {c}
    <2>1. c \in Definitions(l)
        BY DEF Definitions, Defines
    <2>2. \A d \in Definitions(l) : d = c
        BY <1>1, <2>1, OneDefinition DEF Changing
    <2> QED BY <2>1, <2>2
<1> DEFINE K == Undefined(y) \cap Undefined(l)
<1>5. Undefined(y) \subseteq K
    <2>1. /\ \A b \in Entries : b \in Undefined(l) \union Definitions(l)
          /\ \A b \in Undefined(l) : Flow(b) \subseteq Undefined(l) \union Definitions(l)
          /\ \A b \in Entries : b \in Undefined(y) \union Definitions(y)
          /\ \A b \in Undefined(y) : Flow(b) \subseteq Undefined(y) \union Definitions(y)
        BY UndefinedFacts
    <2>2. Entries \ Definitions(y) \subseteq K
        BY <1>3, <1>4, <2>1
    <2>3. \A b \in K \cap Undefined(y) : Flow(b) \ Definitions(y) \subseteq K
        BY <1>3, <1>4, <2>1
    <2> HIDE DEF K
    <2> QED BY <2>2, <2>3, UndefinedLeast
<1> QED BY <1>1, <1>2, <1>3, <1>4, <1>5

\* The blocks of the routines.
LEMMA RoutineLeast ==
    ASSUME IsProgram(prog), Graph
    PROVE  /\ Entries \subseteq Routine(Entries)
           /\ \A b \in Routine(Entries) : Flow(b) \subseteq Routine(Entries)
           /\ \A K : /\ Entries \subseteq K
                     /\ \A b \in K \cap All : Flow(b) \subseteq K
                     => Routine(Entries) \subseteq K
<1> DEFINE next == [b \in All |-> Flow(b)]
<1>1. Entries \in SUBSET All
    BY FlowTypes DEF Entries, Graph
<1>2. prog.blocks \in Seq(Block) /\ next \in [All -> SUBSET All]
    BY FlowTypes
<1>3. Routine(Entries) = Closure(Entries, next) /\ \A b \in All : next[b] = Flow(b)
    BY DEF Routine
<1> HIDE DEF next
<1>4. \A K : Entries \subseteq K /\ (\A b \in K \cap All : next[b] \subseteq K)
                 => Closure(Entries, next) \subseteq K
    BY <1>1, <1>2, ClosureFacts
<1>5. \A K : Entries \subseteq K /\ (\A b \in K \cap All : Flow(b) \subseteq K)
                 => Routine(Entries) \subseteq K
    BY <1>3, <1>4
<1> QED BY <1>1, <1>5, RoutineFacts

\* No path of a routine comes to what defines an operand behind the operation.
LEMMA NoInputHere ==
    ASSUME IsProgram(prog), Graph, SingleAssignment,
           NEW c \in Blocks, NEW l \in B(c).defs, NEW y \in InputsOf(l),
           NEW b \in Routine(Entries), b \in Definitions(y)
    PROVE  b \in Undefined(l) \union Definitions(l)
<1> SUFFICES ASSUME b \notin Undefined(l) \union Definitions(l) PROVE FALSE
    OBVIOUS
<1>1. y \notin Fixed
    <2>1. Defines(b) \subseteq Leaves \ Fixed /\ y \in Defines(b)
        BY DefinesFacts DEF Definitions, Graph
    <2> QED BY <2>1
<1>2. /\ y \in Changing /\ Definitions(l) = {c} /\ c \notin Undefined(y)
      /\ Undefined(y) \subseteq Undefined(l)
    BY <1>1, InputsComeFirst
<1>3. Definitions(y) = {b}
    BY <1>2, OneDefinition DEF Changing
<1>4. /\ \A x \in Entries : x \in Undefined(l) \union Definitions(l)
      /\ \A x \in Undefined(l) : Flow(x) \subseteq Undefined(l) \union Definitions(l)
      /\ \A x \in Entries : x \in Undefined(y) \union Definitions(y)
      /\ \A x \in Undefined(y) : Flow(x) \subseteq Undefined(y) \union Definitions(y)
    BY UndefinedFacts
<1> DEFINE K == Undefined(y) \cap Undefined(l)
<1>5. Entries \subseteq K
    BY <1>2, <1>3, <1>4
<1>6. \A x \in K \cap All : Flow(x) \subseteq K
    BY <1>2, <1>3, <1>4
<1> HIDE DEF K
<1>7. Routine(Entries) \subseteq K
    BY <1>5, <1>6, RoutineLeast
<1> QED BY <1>7 DEF K

\* What made l succeeded, and gave it the value it has in e; its operands were in their ranges.
WellMade(l, e) ==
    /\ l \in Made \union Phis
    /\ l \in DOMAIN Unconditional => In(e[l], Unconditional[l])
    /\ l \in Made => /\ ~ Fails(l, e) /\ e[l] \in Results(l, e)
                     /\ \A y \in InputsOf(l) \cap DOMAIN range : In(e[y], range[y])

\* So it is with every leaf that block b is only reached behind.
Well(b) == \A l \in Changing : b \notin Undefined(l) => WellMade(l, env)

Arrived == \A l \in Changing : at \notin Undefined(l) \union Definitions(l) => WellMade(l, env)

JustMade == \A l \in B(at).defs : Fails(l, env) \/ env[l] \in Results(l, env)

CallersWell == \A i \in DOMAIN frames : Well(Site(frames[i]))

\* Block d only ever follows what defines l, which no path that avoids d leads to: the run has
\* not come to either.
SeenLate(d, l) ==
    d \notin Undefined(l) /\ Definitions(l) \cap (ReachableAvoiding(d) \union {d}) = {}

MadeLate ==
    \A d \in Blocks : \A l \in Changing :
        SeenLate(d, l) => at \in ReachableAvoiding(d) /\ l \notin Defined

\* What the run had when it left a block that dominates the one it is in it still has.
DominatorsWell == \A d \in Blocks : Dominates(d, at) => Well(d)

InRoutines ==
    at \in Routine(Entries) /\ \A i \in DOMAIN frames : Site(frames[i]) \in Routine(Entries)

MadeInv ==
    mode = "run" =>
        Arrived /\ JustMade /\ CallersWell /\ DominatorsWell /\ MadeLate /\ InRoutines

\* What an operation may make depends on its operands alone.
LEMMA ResultsAgree ==
    ASSUME NEW l \in Leaves, NEW d, NEW e, \A i \in InputsOf(l) : d[i] = e[i]
    PROVE  Results(l, d) = Results(l, e)
<1> DEFINE m == Makes[l]
<1>1. /\ \A i \in DOMAIN m.ins : d[m.ins[i]] = e[m.ins[i]]
      /\ m.ins \in Seq(Leaves) /\ m.imm \in Seq(Nat)
      /\ m.op \in {"read", "int", "bytes", "len"} \union Arith \union ByteOps
    BY MakesIsOperation DEF InputsOf
<1>2. /\ m.op \in {"extract", "substring", "len"} => Len(m.ins) = 1
      /\ m.op \in Arith \union {"getbyte", "extract_uint16"} => Len(m.ins) = 2
      /\ m.op \in {"extract3", "substring3", "setbyte"} => Len(m.ins) = 3
    BY MakesHasOperands DEF Arith, m
<1> HIDE DEF m
<1> DEFINE reads == Readable[l]
<1>3. CASE m.op \in {"read", "int", "bytes", "getbyte", "extract_uint16"}
    <2>1. Outputs(m, d, reads) = reads /\ Outputs(m, e, reads) = reads
        BY <1>3 DEF Outputs, Slices
    <2> QED BY <2>1 DEF Results, m
<1>4. CASE m.op \in Arith
    <2>1. 1 \in DOMAIN m.ins /\ 2 \in DOMAIN m.ins
        BY <1>1, <1>2, <1>4
    <2>2. Left(m, d) = Left(m, e) /\ Right(m, d) = Right(m, e)
        BY <1>1, <2>1 DEF Left, Right
    <2> HIDE <1>1
    <2>3. Outputs(m, d, reads) = Outputs(m, e, reads)
        BY <1>4, <2>2 DEF Outputs, Arith
    <2> QED BY <2>3 DEF Results, m
<1>5. CASE m.op \in Slices \union {"len", "setbyte"}
    <2>1. Len(m.ins) \in {1, 2, 3}
        BY <1>2, <1>5 DEF Slices
    <2>2. \A i \in {1, 2} : i <= Len(m.ins) => d[m.ins[i]] = e[m.ins[i]]
        BY <1>1, <2>1
    <2>3. d[BufferOf(m)] = e[BufferOf(m)]
        <3>1. Len(m.ins) \in DOMAIN m.ins
            <4> DEFINE s == m.ins
            <4>1. s \in Seq(Leaves) /\ Len(s) \in {1, 2, 3}
                BY <1>1, <2>1
            <4> HIDE DEF s
            <4>2. Len(s) \in DOMAIN s
                BY <4>1
            <4> QED BY <4>2 DEF s
        <3> QED BY <1>1, <3>1 DEF BufferOf
    <2>4. CASE m.op \in Slices
        <3>1. Window(m, d) = Window(m, e)
            BY <1>2, <2>2, <2>3, <2>4 DEF Window, Slices
        <3>2. /\ Outputs(m, d, reads) = LET w == Window(m, d) IN {w.to - w.from}
              /\ Outputs(m, e, reads) = LET w == Window(m, e) IN {w.to - w.from}
            BY <2>4 DEF Outputs, Slices
        <3>3. Outputs(m, d, reads) = Outputs(m, e, reads)
            BY <3>1, <3>2
        <3> QED BY <3>3 DEF Results, m
    <2>5. CASE m.op = "len"
        <3>1. d[m.ins[1]] = e[m.ins[1]]
            BY <1>2, <2>2, <2>5
        <3>2. Outputs(m, d, reads) = Outputs(m, e, reads)
            BY <2>5, <3>1 DEF Outputs, Slices
        <3> QED BY <3>2 DEF Results, m
    <2>6. CASE m.op = "setbyte"
        <3>1. Outputs(m, d, reads) = Outputs(m, e, reads)
            BY <2>3, <2>6 DEF Outputs, Slices
        <3> QED BY <3>1 DEF Results, m
    <2> QED BY <1>5, <2>4, <2>5, <2>6
<1> QED BY <1>1, <1>3, <1>4, <1>5 DEF ByteOps, Slices

\* A leaf stays well made while it and its operands keep their values.
LEMMA WellStays ==
    ASSUME NEW l \in Leaves, NEW d, NEW e, d[l] = e[l],
           l \in Made => \A y \in InputsOf(l) : d[y] = e[y], WellMade(l, d)
    PROVE  WellMade(l, e)
<1>1. l \in Made => Fails(l, d) = Fails(l, e) /\ Results(l, d) = Results(l, e)
    BY FailsAgree, ResultsAgree
<1> QED BY <1>1 DEF WellMade

\* So it is with a phi of the block the run is in.
LEMMA PhiWell ==
    ASSUME Running, RunInv, NEW l \in Changing, at \notin Undefined(l),
           l \in PhisOf(at), l \notin B(at).defs
    PROVE  WellMade(l, env)
<1>1. /\ IsProgram(prog) /\ Graph /\ at \in Blocks
      /\ RangesHold /\ SingleAssignment /\ OwnComplete
    BY MachineGraph DEF Running, MachineInv, RunInv, Scoped, CallsInv
<1>2. l \in Defined /\ l \in Phis
    BY <1>1 DEF OwnComplete, Changing, Defined, Phis
<1>3. l \in DOMAIN Unconditional => In(env[l], Unconditional[l])
    BY <1>2, <1>1 DEF RangesHold
<1>4. ASSUME NEW c \in Blocks, l \in B(c).defs PROVE FALSE
    <2>1. c \in Definitions(l) /\ at \in Definitions(l)
        BY <1>1, <1>4 DEF Definitions, Defines
    <2>2. c = at
        BY <1>1, <2>1, OneDefinition DEF Changing
    <2> QED BY <1>4, <2>2
<1>5. l \notin Made
    BY <1>4 DEF Made
<1> QED BY <1>2, <1>3, <1>5 DEF WellMade

\* So it is with all that block at is behind of when it is left.
LEMMA AtWell ==
    ASSUME Running, ~ Panics, RunInv, AnalysisInv, Arrived, JustMade
    PROVE  Well(at)
<1>1. /\ IsProgram(prog) /\ Graph /\ at \in Blocks /\ at \in All /\ mode = "run"
      /\ RangesHold /\ SingleAssignment /\ OwnComplete
    BY MachineGraph DEF Running, MachineInv, RunInv, Scoped, CallsInv, Graph
<1> SUFFICES ASSUME NEW l \in Changing, at \notin Undefined(l) PROVE WellMade(l, env)
    BY DEF Well
<1>2. l \in own /\ l \in Defined
    BY <1>1 DEF OwnComplete, Changing, Defined
<1>3. l \in DOMAIN Unconditional => In(env[l], Unconditional[l])
    BY <1>1, <1>2 DEF RangesHold, Panics
<1>4. CASE l \in B(at).defs
    <2>1. l \in Made
        BY <1>1, <1>4 DEF Made
    <2>2. ~ Fails(l, env)
        BY <1>1, <1>4 DEF Panics
    <2>3. env[l] \in Results(l, env)
        BY <1>4, <2>2 DEF JustMade
    <2>4. InputsOf(l) \subseteq B(at).uses
        <3>1. Linked(B(at), prog.blocks)
            BY <1>1, FlowTypes DEF IsProgram, B, All
        <3> QED BY <1>4, <3>1 DEF Linked
    <2>5. \A y \in InputsOf(l) \cap DOMAIN range : In(env[y], range[y])
        BY <2>4, ReadInRange
    <2> QED BY <1>3, <2>1, <2>2, <2>3, <2>5 DEF WellMade
<1>5. CASE l \in PhisOf(at) /\ l \notin B(at).defs
    BY <1>5, PhiWell
<1>6. CASE at \notin Definitions(l)
    BY <1>6 DEF Arrived
<1> QED BY <1>4, <1>5, <1>6 DEF Definitions, Defines

\* None of it depends on more than the program, its ranges and the run.
LEMMA SameMade ==
    ASSUME UNCHANGED program, UNCHANGED range
    PROVE  /\ Made' = Made /\ Routine(Entries)' = Routine(Entries)
           /\ \A l : WellMade(l, env)' = WellMade(l, env')
           /\ \A d, l : SeenLate(d, l)' = SeenLate(d, l)
<1>1. /\ Blocks' = Blocks /\ Phis' = Phis /\ Unconditional' = Unconditional /\ range' = range
      /\ \A b : B(b)' = B(b)
      /\ \A g : ReachableAvoiding(g)' = ReachableAvoiding(g)
    BY SameAnalysis
<1>2. \A l : Undefined(l)' = Undefined(l) /\ Definitions(l)' = Definitions(l)
    BY SameScope
<1>3. Made' = Made
    BY <1>1 DEF Made
<1>4. Entries' = Entries
    <2>1. prog' = prog
        BY DEF program
    <2>2. \A b : Arms(b)' = Arms(b)
        BY <2>1, SameText
    <2> QED BY <1>1, <2>2 DEF Entries
<1>5. Routine(Entries)' = Routine(Entries)
    BY <1>4, SameSite
<1>6. \A l : WellMade(l, env)' = WellMade(l, env')
    BY <1>1, <1>3 DEF WellMade
<1>7. \A d, l : SeenLate(d, l)' = SeenLate(d, l)
    BY <1>1, <1>2 DEF SeenLate
<1> QED BY <1>3, <1>5, <1>6, <1>7

\* Where the run goes on: within its routine, to another's entry, or behind the call it is in.
LEMMA PassMoves ==
    ASSUME Running, InRoutines, NEW b \in Blocks, NEW e, NEW d, Passes(b, e, d)
    PROVE  /\ b \in Routine(Entries)
           /\ \/ b \in Flow(at)
              \/ b \in Entries
              \/ \E i \in DOMAIN frames : b \in Flow(Site(frames[i]))
<1>1. IsProgram(prog) /\ Graph /\ at \in Blocks /\ Leads(b)
    BY PassFacts DEF Passes
<1>2. \/ b \in Flow(at)
      \/ b \in Entries
      \/ \E i \in DOMAIN frames : b \in Flow(Site(frames[i]))
    <2>1. CASE B(at).op = "callsub"
        <3>1. b \in Arms(at)
            BY <1>1, <2>1, CallFacts DEF Leads
        <3> QED BY <1>1, <2>1, <3>1 DEF Entries
    <2>2. CASE B(at).op = "retsub"
        <3>1. frames # <<>> /\ b \in Following(Site(frames[Len(frames)]))
            BY <1>1, <2>2 DEF Leads
        <3>2. Len(frames) \in DOMAIN frames
            BY <3>1 DEF Running, MachineInv
        <3>3. B(Site(frames[Len(frames)])).op = "callsub"
            BY <3>2, OlderFrames
        <3> QED BY <3>1, <3>2, <3>3 DEF Flow
    <2>3. CASE B(at).op \notin {"callsub", "retsub"}
        BY <1>1, <2>3, TakenFacts DEF Leads
    <2> QED BY <2>1, <2>2, <2>3
<1>3. b \in Routine(Entries)
    BY <1>1, <1>2, RoutineLeast DEF InRoutines
<1> QED BY <1>2, <1>3

\* What the run comes behind of is as it was.
LEMMA PassLeaves ==
    ASSUME Running, InRoutines, NEW b \in Blocks, NEW e, NEW d, Passes(b, e, d),
           NEW l \in Changing, b \notin Undefined(l) \union Definitions(l), WellMade(l, env)
    PROVE  WellMade(l, env')
<1>1. IsProgram(prog) /\ Graph /\ \A x \in Leaves \ Defines(b) : env'[x] = env[x]
    BY PassFacts
<1>2. b \in Routine(Entries) /\ SingleAssignment
    BY PassMoves DEF Running, Scoped
<1>3. l \notin Defines(b) /\ l \in Leaves
    BY DEF Definitions, Changing
<1>4. ASSUME l \in Made, NEW y \in InputsOf(l) PROVE env[y] = env'[y]
    <2>1. PICK c \in Blocks : l \in B(c).defs
        BY <1>4 DEF Made
    <2>2. b \notin Definitions(y)
        BY <1>1, <1>2, <2>1, NoInputHere
    <2>3. y \in Leaves
        BY <1>3, MakesIsOperation DEF InputsOf
    <2> QED BY <1>1, <2>2, <2>3 DEF Definitions
<1> QED BY <1>1, <1>3, <1>4, WellStays

\* A block that is entered while a call is in progress defines none of its caller's leaves.
LEMMA FrameOwn ==
    ASSUME Running, NEW b \in Blocks, NEW f, FrameAt(b, f)
    PROVE  f.own \cap Defines(b) = {}
<1> DEFINE c == Site(f)
<1>1. /\ IsProgram(prog) /\ Graph /\ SingleAssignment /\ CallsDoNotRecur
    BY MachineGraph DEF Running, MachineInv, Scoped
<1>2. /\ c \in Blocks /\ c \in All /\ B(c).op = "callsub" /\ b \in During(c)
      /\ f.own \subseteq Leaves \ Fixed /\ Follows(c, f.own)
    BY <1>1 DEF FrameAt, Graph
<1> HIDE DEF c
<1> SUFFICES ASSUME NEW l \in f.own, l \in Defines(b) PROVE FALSE
    OBVIOUS
<1>3. PICK x \in Definitions(l) : c \in Routine({x})
    BY <1>2 DEF Follows
<1>4. x = b
    BY <1>1, <1>2, <1>3, OneDefinition DEF Definitions
<1>5. c \in During(c)
    BY <1>1, <1>2, <1>3, <1>4, DuringFacts
<1> QED BY <1>1, <1>2, <1>5 DEF CallsDoNotRecur

\* Leaves whose operands have been defined with them keep their values when these do.
LEMMA WellBehind ==
    ASSUME Running, NEW b \in Blocks, NEW e, NEW d, Passes(b, e, d), NEW c, Well(c),
           \A l \in Changing : c \notin Undefined(l) => l \notin Defines(b)
    PROVE  \A l \in Changing : c \notin Undefined(l) => WellMade(l, env')
<1>1. /\ IsProgram(prog) /\ Graph /\ SingleAssignment /\ b \in All
      /\ \A x \in Leaves \ Defines(b) : env'[x] = env[x]
    BY PassFacts DEF Running, Scoped
<1> SUFFICES ASSUME NEW l \in Changing, c \notin Undefined(l) PROVE WellMade(l, env')
    OBVIOUS
<1>2. l \in Leaves /\ l \notin Defines(b) /\ WellMade(l, env)
    BY DEF Well, Changing
<1>3. ASSUME l \in Made, NEW y \in InputsOf(l) PROVE env[y] = env'[y]
    <2>1. PICK x \in Blocks : l \in B(x).defs
        BY <1>3 DEF Made
    <2>2. y \in Leaves /\ Defines(b) \subseteq Leaves \ Fixed
        BY <1>1, <1>2, MakesIsOperation, DefinesFacts DEF InputsOf
    <2>3. CASE y \in Fixed
        BY <1>1, <2>2, <2>3
    <2>4. CASE y \notin Fixed
        <3>1. y \in Changing /\ c \notin Undefined(y)
            BY <1>1, <2>1, <2>4, InputsComeFirst
        <3> QED BY <1>1, <2>2, <3>1
    <2> QED BY <2>3, <2>4
<1> QED BY <1>1, <1>2, <1>3, WellStays

\* What the block that is entered defines has been made from what the run brought.
LEMMA PassMakes ==
    ASSUME Running, NEW b \in Blocks, NEW e, NEW d, Passes(b, e, d)
    PROVE  \A l \in B(b).defs : Fails(l, env') \/ env'[l] \in Results(l, env')
<1>1. IsProgram(prog) /\ b \in All /\ \A l \in Leaves \ B(b).defs : env'[l] = e[l]
    BY PassFacts
<1>2. Enter(b, e, d) /\ e \in [Leaves -> Uint] /\ d \in SUBSET Leaves
    BY DEF Passes, Brings
<1> SUFFICES ASSUME NEW l \in B(b).defs, ~ Fails(l, env') PROVE env'[l] \in Results(l, env')
    OBVIOUS
<1>3. /\ l \in Leaves \ Fixed /\ env'[l] \in IF Fails(l, e) THEN {0} ELSE Results(l, e)
      /\ InputsOf(l) \subseteq B(b).uses \ B(b).defs
      /\ Fails(l, env') = Fails(l, e)
    BY <1>1, <1>2, EnterMakes
<1>4. \A y \in InputsOf(l) : env'[y] = e[y]
    BY <1>1, <1>3, MakesIsOperation DEF InputsOf
<1>5. Results(l, env') = Results(l, e)
    BY <1>3, <1>4, ResultsAgree
<1> QED BY <1>3, <1>5

\* Every move of a run keeps it.
LEMMA PassKeepsMade ==
    ASSUME Running, ~ Panics, RunInv, AnalysisInv, MadeInv, range' = range,
           NEW b \in Blocks, NEW e, NEW d, Passes(b, e, d)
    PROVE  MadeInv'
<1>1. /\ IsProgram(prog) /\ Graph /\ at \in Blocks /\ at \in All /\ at' = b /\ UNCHANGED program
      /\ SingleAssignment /\ Defined' \subseteq Defined \union Defines(b)
    BY PassFacts DEF Running, Scoped
<1>2. Arrived /\ JustMade /\ CallersWell /\ DominatorsWell /\ MadeLate /\ InRoutines
    BY DEF MadeInv, Running
<1>3. Well(at)
    BY <1>2, AtWell
<1>4. /\ d \subseteq Defined /\ b \in Successors(at)
      /\ \A l \in Changing \ d : b \in Undefined(l) \union Definitions(l)
      /\ \A i \in DOMAIN frames' : FrameAt(b, frames'[i])
    BY DEF Passes, Brings, Leads, FramesAt, Changing
<1>5. /\ Made' = Made /\ Routine(Entries)' = Routine(Entries)
      /\ \A l : WellMade(l, env)' = WellMade(l, env')
      /\ \A g, l : SeenLate(g, l)' = SeenLate(g, l)
    BY <1>1, SameMade
<1>6. /\ Blocks' = Blocks /\ \A g : B(g)' = B(g)
      /\ \A g : ReachableAvoiding(g)' = ReachableAvoiding(g)
      /\ \A l : Undefined(l)' = Undefined(l) /\ Definitions(l)' = Definitions(l)
      /\ \A f : Site(f)' = Site(f)
    BY <1>1, SameAnalysis, SameScope, SameSite
<1>7. \A i : Site(frames[i])' = Site(frames'[i])
    BY <1>6
<1>8. Arrived'
    <2> SUFFICES ASSUME NEW l \in Changing, b \notin Undefined(l) \union Definitions(l)
                 PROVE  WellMade(l, env')
        BY <1>1, <1>5, <1>6 DEF Arrived
    <2>1. /\ \A x \in Entries : x \in Undefined(l) \union Definitions(l)
          /\ \A x \in Undefined(l) : Flow(x) \subseteq Undefined(l) \union Definitions(l)
        BY <1>1, UndefinedFacts
    <2>2. WellMade(l, env)
        <3>1. CASE b \in Flow(at)
            BY <1>3, <2>1, <3>1 DEF Well
        <3>2. CASE \E i \in DOMAIN frames : b \in Flow(Site(frames[i]))
            BY <1>2, <2>1, <3>2 DEF CallersWell, Well
        <3> QED BY <1>2, <2>1, <3>1, <3>2, PassMoves
    <2> QED BY <1>2, <2>2, PassLeaves
<1>9. JustMade'
    <2>1. \A l \in B(b).defs : Fails(l, env') \/ env'[l] \in Results(l, env')
        BY PassMakes
    <2> QED BY <1>1, <1>6, <2>1 DEF JustMade
<1>10. CallersWell'
    <2> SUFFICES ASSUME NEW i \in DOMAIN frames', NEW l \in Changing,
                        Site(frames'[i]) \notin Undefined(l)
                 PROVE  WellMade(l, env')
        BY <1>5, <1>6, <1>7 DEF CallersWell, Well
    <2> DEFINE f == frames'[i]
    <2>1. /\ FrameAt(b, f) /\ Site(f) \in {at} \union {Site(frames[j]) : j \in DOMAIN frames}
          /\ \A x \in Changing : Site(f) \notin Undefined(x) => x \in f.own
        BY <1>4 DEF FrameAt, Changing
    <2>2. Well(Site(f))
        BY <1>2, <1>3, <2>1 DEF CallersWell
    <2> HIDE DEF f
    <2>3. f.own \cap Defines(b) = {}
        BY <2>1, FrameOwn
    <2>4. \A x \in Changing : Site(f) \notin Undefined(x) => x \notin Defines(b)
        BY <2>1, <2>3
    <2>5. \A x \in Changing : Site(f) \notin Undefined(x) => WellMade(x, env')
        BY <2>2, <2>4, WellBehind
    <2> QED BY <2>5 DEF f
\* What leads behind a block that dominates b is what leads to it.
<1>11. ASSUME NEW g \in Blocks, NEW l \in Changing, Dominates(g, b), g \notin Undefined(l)
       PROVE  l \notin Defines(b)
    <2> SUFFICES ASSUME l \in Defines(b) PROVE FALSE
        OBVIOUS
    <2>1. b \in Definitions(l)
        BY DEF Definitions
    <2>2. Definitions(l) = {b}
        BY <1>1, <2>1, OneDefinition DEF Changing
    <2>3. SeenLate(g, l)
        BY <1>11, <2>2 DEF SeenLate, Dominates
    <2>4. at \in ReachableAvoiding(g)
        BY <1>2, <2>3 DEF MadeLate
    <2> QED BY <1>1, <1>4, <1>11, <2>4, AvoidingFacts DEF Dominates
<1>12. DominatorsWell'
    <2>1. \A g, x : Dominates(g, x)' = Dominates(g, x)
        BY <1>1, SameAnalysis
    <2>2. \A g : Dominates(g, at)' = Dominates(g, b)
        BY <1>1, <2>1
    <2> SUFFICES ASSUME NEW g \in Blocks, Dominates(g, b), NEW l \in Changing, g \notin Undefined(l)
                 PROVE  WellMade(l, env')
        BY <1>5, <1>6, <2>2 DEF DominatorsWell, Well
    <2>3. at = g \/ Dominates(g, at)
        BY <1>1, <1>4, AvoidingFacts DEF Dominates
    <2>4. Well(g)
        BY <1>2, <1>3, <2>3 DEF DominatorsWell
    <2>5. \A x \in Changing : g \notin Undefined(x) => x \notin Defines(b)
        BY <1>11
    <2>6. \A x \in Changing : g \notin Undefined(x) => WellMade(x, env')
        BY <2>4, <2>5, WellBehind
    <2> QED BY <2>6
<1>13. MadeLate'
    <2> SUFFICES ASSUME NEW g \in Blocks, NEW l \in Changing, SeenLate(g, l)
                 PROVE  b \in ReachableAvoiding(g) /\ l \notin Defined'
        BY <1>1, <1>5, <1>6 DEF MadeLate
    <2>1. at \in ReachableAvoiding(g) /\ l \notin Defined
        BY <1>2 DEF MadeLate
    <2>2. b # g
        BY <1>4, <2>1 DEF SeenLate
    <2>3. b \in ReachableAvoiding(g)
        BY <1>1, <1>4, <2>1, <2>2, AvoidingFacts
    <2>4. l \notin Defines(b)
        BY <2>3 DEF SeenLate, Definitions
    <2> QED BY <1>1, <2>1, <2>3, <2>4
<1>14. InRoutines'
    <2>1. b \in Routine(Entries)
        BY <1>2, PassMoves
    <2>2. \A i \in DOMAIN frames' : Site(frames'[i]) \in Routine(Entries)
        BY <1>2, <1>4 DEF FrameAt, InRoutines
    <2> QED BY <1>1, <1>5, <1>7, <2>1, <2>2 DEF InRoutines
<1> QED BY <1>8, <1>9, <1>10, <1>12, <1>13, <1>14 DEF MadeInv

\* A run begins with it.
LEMMA BeginMakes ==
    ASSUME MachineInv, Scoped, Begin, range' = range
    PROVE  MadeInv'
<1>1. IsProgram(prog) /\ Graph /\ 1 \in All /\ 1 \in Blocks /\ SingleAssignment
    BY MachineGraph, FlowTypes DEF MachineInv, Graph, Scoped
<1>2. PICK e \in [Leaves -> Uint] : Enter(1, e, {})
    BY <1>1, BeginFacts
<1>3. at' = 1 /\ own' = Defines(1) /\ UNCHANGED program
    BY <1>2 DEF Enter
<1>4. frames' = <<>> /\ \A i \in DOMAIN frames' : FALSE
    BY DEF Begin, MachineInv
<1>5. Defined' = Defines(1)
    BY <1>3, <1>4 DEF Defined
<1>6. \A l \in Changing : 1 \in Undefined(l) \union Definitions(l)
    BY <1>1, UndefinedFacts DEF Entries
<1>7. /\ Made' = Made /\ Routine(Entries)' = Routine(Entries)
      /\ \A g, l : SeenLate(g, l)' = SeenLate(g, l)
    BY <1>3, SameMade
<1>8. /\ Blocks' = Blocks /\ \A g : B(g)' = B(g)
      /\ \A g : ReachableAvoiding(g)' = ReachableAvoiding(g)
      /\ \A l : Undefined(l)' = Undefined(l) /\ Definitions(l)' = Definitions(l)
    BY <1>3, SameAnalysis, SameScope
<1>9. Arrived' /\ CallersWell'
    BY <1>3, <1>4, <1>6, <1>8 DEF Arrived, CallersWell
<1>10. JustMade'
    <2>1. {} \in SUBSET Leaves /\ \A l \in Leaves \ B(1).defs : env'[l] = e[l]
        BY <1>1, <1>2, EnterFacts
    <2>2. ASSUME NEW l \in B(1).defs PROVE Fails(l, env') \/ env'[l] \in Results(l, env')
        <3>1. /\ l \in Leaves \ Fixed /\ env'[l] \in IF Fails(l, e) THEN {0} ELSE Results(l, e)
              /\ InputsOf(l) \subseteq B(1).uses \ B(1).defs
              /\ Fails(l, env') = Fails(l, e)
            BY <1>1, <1>2, <2>1, EnterMakes
        <3>2. \A y \in InputsOf(l) : env'[y] = e[y]
            BY <2>1, <3>1, MakesIsOperation DEF InputsOf
        <3>3. Results(l, env') = Results(l, e)
            BY <3>1, <3>2, ResultsAgree
        <3> QED BY <3>1, <3>3
    <2> QED BY <1>3, <1>8, <2>2 DEF JustMade
<1>11. DominatorsWell'
    <2>1. \A g \in Blocks : ~ Dominates(g, 1)
        BY <1>1, AvoidingFacts DEF Dominates
    <2>2. \A g, x : Dominates(g, x)' = Dominates(g, x)
        BY <1>3, SameAnalysis
    <2>3. \A g : Dominates(g, at)' = Dominates(g, 1)
        BY <1>3, <2>2
    <2> QED BY <1>8, <2>1, <2>3 DEF DominatorsWell
<1>12. MadeLate'
    <2> SUFFICES ASSUME NEW g \in Blocks, NEW l \in Changing, SeenLate(g, l)
                 PROVE  1 \in ReachableAvoiding(g) /\ l \notin Defines(1)
        BY <1>3, <1>5, <1>7, <1>8 DEF MadeLate
    <2>1. 1 # g
        BY <1>6 DEF SeenLate
    <2>2. 1 \in ReachableAvoiding(g)
        BY <1>1, <2>1, AvoidingFacts
    <2> QED BY <1>1, <2>2 DEF SeenLate, Definitions
<1>13. InRoutines'
    <2>1. 1 \in Routine(Entries)
        BY <1>1, RoutineLeast DEF Entries
    <2> QED BY <1>3, <1>4, <1>7, <2>1 DEF InRoutines
<1> QED BY <1>9, <1>10, <1>11, <1>12, <1>13 DEF MadeInv

\* It holds of the same run and ranges.
LEMMA MadeStays ==
    ASSUME MadeInv, mode = "run", UNCHANGED <<program, at, env, own, frames>>, range' = range
    PROVE  MadeInv'
<1>1. at' = at /\ env' = env /\ own' = own /\ frames' = frames /\ UNCHANGED program
    OBVIOUS
<1>2. /\ Made' = Made /\ Routine(Entries)' = Routine(Entries)
      /\ \A l : WellMade(l, env)' = WellMade(l, env')
      /\ \A g, l : SeenLate(g, l)' = SeenLate(g, l)
    BY <1>1, SameMade
<1>3. /\ Blocks' = Blocks /\ \A g : B(g)' = B(g)
      /\ \A g : ReachableAvoiding(g)' = ReachableAvoiding(g)
      /\ \A g, x : Dominates(g, x)' = Dominates(g, x)
      /\ \A l : Undefined(l)' = Undefined(l) /\ Definitions(l)' = Definitions(l)
      /\ \A f : Site(f)' = Site(f)
    BY <1>1, SameAnalysis, SameScope, SameSite
<1>4. Defined' = Defined
    BY <1>1 DEF Defined
<1>5. /\ B(at)' = B(at) /\ \A i : Site(frames[i])' = Site(frames[i])
      /\ \A g : Dominates(g, at)' = Dominates(g, at)
      /\ \A l : WellMade(l, env)' = WellMade(l, env)
    BY <1>1, <1>2, <1>3
<1>6. /\ \A g : Well(g)' = Well(g)
      /\ \A i : Well(Site(frames[i]))' = Well(Site(frames[i]))
    BY <1>3, <1>5 DEF Well
<1>7. Arrived' = Arrived /\ JustMade' = JustMade
    BY <1>1, <1>3, <1>5 DEF Arrived, JustMade
<1>8. CallersWell' = CallersWell /\ DominatorsWell' = DominatorsWell
    BY <1>1, <1>3, <1>5, <1>6 DEF CallersWell, DominatorsWell
<1>9. MadeLate' = MadeLate /\ InRoutines' = InRoutines
    BY <1>1, <1>2, <1>3, <1>4, <1>5 DEF MadeLate, InRoutines
<1> QED BY <1>7, <1>8, <1>9 DEF MadeInv

\* So does every step.
LEMMA MadeStep == MachineInv /\ AnalysisInv /\ RunsInRange /\ MadeInv /\ [Next]_vars => MadeInv'
<1> SUFFICES ASSUME MachineInv, AnalysisInv, RunsInRange, MadeInv, [Next]_vars, mode' = "run"
             PROVE  MadeInv'
    BY DEF MadeInv
<1>1. CASE Start
    BY <1>1, BeginMakes DEF Start, RunsInRange, RunsInScope, analysisVars
<1>2. CASE Execute
    <2>1. Step \/ Call \/ Return
        BY <1>2 DEF Execute, Run, Halt
    <2>2. Running /\ ~ Panics /\ RunInv /\ range' = range
        BY <1>2, <2>1 DEF Running, RunsInRange, RunsInScope, Step, Call, Return, Execute, analysisVars
    <2>3. PICK b \in Blocks : \E e, d : Passes(b, e, d)
        BY <2>1, <2>2, RunPasses
    <2>4. PICK e, d : Passes(b, e, d)
        BY <2>3
    <2> QED BY <2>2, <2>4, PassKeepsMade
<1>3. CASE Refine \/ AnotherRound
    BY <1>3 DEF Refine, AnotherRound, machineVars, runVars
<1>4. CASE UNCHANGED vars
    <2>1. UNCHANGED <<program, at, env, own, frames>> /\ mode = "run" /\ range' = range
        BY <1>4 DEF vars, machineVars, runVars, analysisVars
    <2> QED BY <2>1, MadeStays
<1> QED BY <1>1, <1>2, <1>3, <1>4 DEF Next

\* Where no routine calls itself: what a block is behind of has been made, by operations that
\* succeeded on values in their ranges, and nothing it was made from has changed since, whatever
\* loops the run has been through and whatever the calls it is in have defined.
THEOREM MadeInductive == Spec /\ CallsDoNotRecur => []MadeInv
<1>1. Init => MadeInv
    BY DEF Init, InitMachine, MadeInv
<1> QED BY <1>1, MadeStep, MachineInductive, AnalysisInductive, RunInductive, PTL DEF Spec

-----------------------------------------------------------------------------
(* Values for the atoms.                                                   *)

\* Leaves come in layers, each made of the one before.
LEMMA LaidSteps ==
    /\ Laid[0] = {}
    /\ \A n \in Nat : Laid[n + 1] = {v \in Leaves : InputsOf(v) \subseteq Laid[n]}
<1> DEFINE D == SUBSET Leaves
           next(S) == {v \in Leaves : InputsOf(v) \subseteq S}
           G == [S \in D |-> next(S)]
           F(f) == [n \in Nat |-> IF n = 0 THEN {} ELSE next(f[n - 1])]
           A == {}
<1>1. PICK f \in [Nat -> D] : f[0] = A /\ \A n \in Nat : f[n + 1] = G[f[n]]
    <2>1. A \in D /\ G \in [D -> D]
        OBVIOUS
    <2> HIDE DEF D, G, A
    <2>2. \E f \in [Nat -> D] : Iterates(f, A, G)
        BY <2>1, IterationExists
    <2> QED BY <2>2 DEF Iterates
<1>2. f = F(f)
    <2>1. ASSUME NEW n \in Nat PROVE f[n] = F(f)[n]
        <3>1. CASE n = 0
            BY <1>1, <3>1
        <3>2. CASE n # 0
            <4>1. n - 1 \in Nat /\ (n - 1) + 1 = n
                BY <3>2
            <4>2. f[n] = G[f[n - 1]] /\ f[n - 1] \in D
                BY <1>1, <4>1
            <4> HIDE DEF next
            <4> QED BY <3>2, <4>2
        <3> QED BY <3>1, <3>2
    <2> HIDE DEF next
    <2> QED BY <1>1, <2>1
<1>3. Laid = F(Laid)
    <2>1. Laid = CHOOSE g : g = F(g)
        BY DEF Laid
    <2> HIDE DEF F
    <2> QED BY <1>2, <2>1
<1>4. ASSUME NEW n \in Nat PROVE Laid[n + 1] = next(Laid[n])
    <2>1. n + 1 \in Nat /\ n + 1 # 0 /\ (n + 1) - 1 = n
        OBVIOUS
    <2> HIDE DEF next
    <2> QED BY <1>3, <2>1
<1> QED BY <1>3, <1>4

\* The atoms of a set of leaves, and of what w is made from.
AtomsOf(S) == {Number(v) : v \in S} \union {Length(v) : v \in S}

MadeFrom(w) == {Origin} \union AtomsOf(InputsOf(w))

\* No two leaves share an atom.
LEMMA AtomsApart ==
    /\ \A v, w : Number(v) = Number(w) => v = w
    /\ \A v, w : Length(v) = Length(w) => v = w
    /\ \A v, w : Number(v) # Length(w)
    /\ \A v : Number(v) # Origin /\ Length(v) # Origin
BY DEF Number, Length, Origin

\* The values that are as told where each of T is tied, and those of base elsewhere.
TiedTo(V, T, tie, base) ==
    \A x \in Atoms : V[x] = IF x \in T THEN V[tie[x].atom] + tie[x].offset ELSE base[x]

\* The atoms have values that are as told where each of T is tied to what it is made from: values
\* go round by way of phis only.
LEMMA TiedValues ==
    ASSUME NEW T \in SUBSET Atoms, NEW tie \in [T -> [atom : Atoms, offset : Int]],
           NEW base \in [Atoms -> Int],
           \A x \in T : \E w \in Leaves : x \in AtomsOf({w}) /\ tie[x].atom \in MadeFrom(w)
    PROVE  \E V \in [Atoms -> Int] : TiedTo(V, T, tie, base)
<1> DEFINE D == [Atoms -> Int]
           step(V) == [x \in Atoms |-> IF x \in T THEN V[tie[x].atom] + tie[x].offset ELSE base[x]]
           G == [V \in D |-> step(V)]
<1>1. \A V \in D : step(V) \in D
    OBVIOUS
<1>2. PICK f \in [Nat -> D] : Iterates(f, base, G)
    <2>1. G \in [D -> D]
        <3> HIDE DEF step, D
        <3> QED BY <1>1
    <2> HIDE DEF D, G
    <2>2. base \in D
        BY DEF D
    <2> QED BY <2>1, <2>2, IterationExists
<1>3. f[0] = base /\ \A n \in Nat : f[n] \in D /\ f[n + 1] = step(f[n])
    <2> HIDE DEF step, D
    <2> QED BY <1>2 DEF Iterates
<1> DEFINE Settles(x, n) == \A m \in Nat : n <= m => f[m + 1][x] = f[m][x]
           U == {n \in Nat : \A x \in AtomsOf(Laid[n]) : Settles(x, n)}
<1>4. ASSUME NEW x \in Atoms \ T PROVE \A n \in Nat : f[n][x] = base[x]
    <2> DEFINE W == {n \in Nat : f[n][x] = base[x]}
    <2>1. 0 \in W
        BY <1>3
    <2>2. ASSUME NEW n \in Nat PROVE n + 1 \in W
        <3>1. f[n + 1] = step(f[n])
            <4> HIDE DEF step
            <4> QED BY <1>3
        <3> QED BY <3>1
    <2> HIDE DEF W
    <2>3. \A n \in Nat : n \in W
        BY <2>1, <2>2, NumberInduction
    <2> QED BY <2>3 DEF W
<1>5. \A n \in Nat : n \in U
    <2>1. 0 \in U
        BY LaidSteps DEF AtomsOf
    <2>2. ASSUME NEW n \in Nat, n \in U PROVE n + 1 \in U
        <3> SUFFICES ASSUME NEW x \in AtomsOf(Laid[n + 1]), NEW m \in Nat, n + 1 <= m
                     PROVE  f[m + 1][x] = f[m][x]
            OBVIOUS
        <3>1. PICK v \in Leaves : x \in AtomsOf({v}) /\ InputsOf(v) \subseteq Laid[n]
            BY LaidSteps DEF AtomsOf
        <3>2. x \in Atoms
            BY <3>1 DEF AtomsOf, Atoms, Leaves
        <3>3. CASE x \notin T
            BY <1>4, <3>2, <3>3
        <3>4. CASE x \in T
            <4> DEFINE a == tie[x].atom
            <4>1. PICK w \in Leaves : x \in AtomsOf({w}) /\ a \in MadeFrom(w)
                BY <3>4
            <4>2. w = v
                BY <3>1, <4>1, AtomsApart DEF AtomsOf
            <4>3. m - 1 \in Nat /\ n <= m - 1 /\ (m - 1) + 1 = m
                OBVIOUS
            <4>4. f[m][a] = f[m - 1][a]
                <5>1. CASE a = Origin
                    <6>1. Origin \in Atoms \ T
                        <7>1. Origin \notin T
                            BY AtomsApart DEF AtomsOf
                        <7> QED BY <7>1 DEF Atoms
                    <6> QED BY <1>4, <4>3, <5>1, <6>1
                <5>2. CASE a # Origin
                    <6>1. a \in AtomsOf(Laid[n])
                        BY <3>1, <4>1, <4>2, <5>2 DEF MadeFrom, AtomsOf
                    <6>2. Settles(a, n)
                        BY <2>2, <6>1
                    <6> HIDE DEF a
                    <6> QED BY <4>3, <6>2
                <5> QED BY <5>1, <5>2
            <4>5. f[m + 1] = step(f[m]) /\ f[m] = step(f[m - 1])
                <5> HIDE DEF step
                <5> QED BY <1>3, <4>3
            <4>6. f[m + 1][x] = f[m][a] + tie[x].offset /\ f[m][x] = f[m - 1][a] + tie[x].offset
                BY <3>2, <3>4, <4>5
            <4> QED BY <4>4, <4>6
        <3> QED BY <3>3, <3>4
    <2> HIDE DEF U
    <2> QED BY <2>1, <2>2, NumberInduction
<1> DEFINE N == Cardinality(Leaves)
           V == f[N]
<1>6. N \in Nat /\ Leaves = Laid[N]
    <2>1. Leaves \subseteq Value
        BY DEF Leaves
    <2>2. N \in Nat
        BY <2>1, ValuesAreComputed, FS_Subset, FS_CardinalityType
    <2> QED BY <2>2, LeavesAreMade
<1> HIDE DEF N
<1>7. ASSUME NEW x \in Atoms
      PROVE  V[x] = IF x \in T THEN V[tie[x].atom] + tie[x].offset ELSE base[x]
    <2>1. CASE x \notin T
        BY <1>4, <1>6, <2>1
    <2>2. CASE x \in T
        <3>1. x \in AtomsOf(Leaves)
            BY <2>2 DEF AtomsOf
        <3>2. Settles(x, N)
            BY <1>5, <1>6, <3>1
        <3>3. f[N + 1][x] = f[N][x]
            BY <1>6, <3>2
        <3>4. f[N + 1] = step(f[N])
            <4> HIDE DEF step
            <4> QED BY <1>3, <1>6
        <3> QED BY <2>2, <3>3, <3>4
    <2> QED BY <2>1, <2>2
<1>8. V \in [Atoms -> Int]
    BY <1>3, <1>6
<1> HIDE DEF V
<1> QED BY <1>7, <1>8 DEF TiedTo

-----------------------------------------------------------------------------
(* What the facts at the block the run is in speak of.                     *)

\* What a run that no call of a routine by itself troubles is known to be like.
InOrderRun == Running /\ RunInv /\ AnalysisInv /\ MadeInv

\* The run has been through what defines w, and not come back to it.
Behind(w) ==
    \/ at \notin Undefined(w) /\ w \notin B(at).defs
    \/ \E d \in Blocks : Dominates(d, at) /\ d \notin Undefined(w)

\* The leaves that have the values the facts of block at say, and lie in their ranges.
Settled ==
    {w \in Leaves : /\ w \in DOMAIN range => In(env[w], range[w])
                    /\ w \in Fixed \/ Behind(w)}

\* What these say of such a run.
LEMMA OrderlyFacts ==
    ASSUME InOrderRun
    PROVE  /\ mode = "run" /\ IsProgram(prog) /\ Graph /\ prog \in Programs
           /\ at \in Blocks /\ at \in All /\ env \in [Leaves -> Uint] /\ SingleAssignment
           /\ Arrived /\ JustMade /\ DominatorsWell /\ InRoutines
           /\ Passed /\ RangesHold /\ Sourced /\ AreRanges(range)
<1>1. prog \in Programs /\ succ = BlockGraph
    BY DEF InOrderRun, Running, MachineInv
<1> QED BY <1>1, MachineGraph
        DEF InOrderRun, Running, MachineInv, Scoped, Graph, MadeInv, RunInv, AnalysisInv, RangesInv

\* What the run has been through made w.
LEMMA BehindIsMade ==
    ASSUME InOrderRun, NEW w \in Changing, Behind(w)
    PROVE  WellMade(w, env)
<1>1. Arrived /\ DominatorsWell /\ Running /\ RunInv
    BY OrderlyFacts DEF InOrderRun
<1>2. CASE at \notin Undefined(w) /\ w \notin B(at).defs
    <2>1. CASE at \notin Definitions(w)
        BY <1>1, <1>2, <2>1 DEF Arrived
    <2>2. CASE at \in Definitions(w)
        <3>1. w \in PhisOf(at)
            BY <1>2, <2>2 DEF Definitions, Defines
        <3> QED BY <1>1, <1>2, <3>1, PhiWell
    <2> QED BY <2>1, <2>2
<1>3. CASE \E d \in Blocks : Dominates(d, at) /\ d \notin Undefined(w)
    BY <1>1, <1>3 DEF DominatorsWell, Well
<1> QED BY <1>2, <1>3 DEF Behind

\* With a leaf, what it was made from is settled.
LEMMA SettledInputs ==
    ASSUME InOrderRun, NEW w \in Settled, w \in Made
    PROVE  /\ InputsOf(w) \subseteq Settled
           /\ ~ Fails(w, env) /\ env[w] \in Results(w, env)
<1>1. /\ IsProgram(prog) /\ Graph /\ SingleAssignment /\ InRoutines /\ at \in Blocks
      /\ w \in Leaves /\ w \notin Fixed
    BY OrderlyFacts, LeavesOfPrograms DEF Settled
<1>2. w \in Changing /\ Behind(w)
    BY <1>1 DEF Settled, Changing
<1>3. /\ ~ Fails(w, env) /\ env[w] \in Results(w, env)
      /\ \A y \in InputsOf(w) \cap DOMAIN range : In(env[y], range[y])
    BY <1>2, BehindIsMade DEF WellMade
<1>4. PICK c \in Blocks : w \in B(c).defs
    BY DEF Made
<1>5. ASSUME NEW y \in InputsOf(w), y \notin Fixed PROVE Behind(y)
    <2>1. Definitions(w) = {c} /\ Undefined(y) \subseteq Undefined(w)
        BY <1>1, <1>4, <1>5, InputsComeFirst
    <2>2. CASE at \notin Undefined(w) /\ w \notin B(at).defs
        <3>1. at \notin Definitions(w)
            BY <1>4, <2>1, <2>2
        <3>2. at \notin Definitions(y)
            BY <1>1, <1>4, <2>2, <3>1, NoInputHere DEF InRoutines
        <3> QED BY <1>1, <2>1, <2>2, <3>2 DEF Behind, Definitions, Defines
    <2>3. CASE \E d \in Blocks : Dominates(d, at) /\ d \notin Undefined(w)
        BY <2>1, <2>3 DEF Behind
    <2> QED BY <1>2, <2>2, <2>3 DEF Behind
<1>6. InputsOf(w) \subseteq Leaves
    BY <1>1, MakesIsOperation DEF InputsOf
<1> QED BY <1>3, <1>5, <1>6 DEF Settled

\* What an operation takes is settled where it is made.
LEMMA OperandsSettled ==
    ASSUME InOrderRun, NEW v \in B(at).defs
    PROVE  InputsOf(v) \subseteq Settled
<1>1. /\ IsProgram(prog) /\ Graph /\ SingleAssignment /\ at \in Blocks /\ at \in All
      /\ Running /\ RunInv /\ AnalysisInv
    BY OrderlyFacts DEF InOrderRun
<1>2. InputsOf(v) \subseteq B(at).uses \ B(at).defs
    <2>1. Linked(B(at), prog.blocks)
        BY <1>1, FlowTypes DEF IsProgram, B, All
    <2> QED BY <2>1 DEF Linked
<1>3. v \in Leaves
    BY <1>1, DefinesFacts
<1>4. InputsOf(v) \subseteq Leaves
    BY <1>3, MakesIsOperation DEF InputsOf
<1>5. ASSUME NEW y \in InputsOf(v), y \in DOMAIN range PROVE In(env[y], range[y])
    BY <1>1, <1>2, <1>5, ReadInRange
<1>6. ASSUME NEW y \in InputsOf(v), y \notin Fixed PROVE Behind(y)
    <2>1. y \in Reads(at)
        BY <1>1, <1>6, InputsComeFirst
    <2>2. at \notin Undefined(y)
        BY <1>1, <1>4, <1>6, <2>1, ReadsAreDefined
    <2> QED BY <1>2, <2>2 DEF Behind
<1> QED BY <1>4, <1>5, <1>6 DEF Settled

\* What a guard that comes first tests is settled.
LEMMA TestsSettled ==
    ASSUME InOrderRun, NEW g \in Asserting, Dominates(g, at)
    PROVE  /\ Tests(g) \cap Leaves \subseteq Settled
           /\ Eval(env)[B(g).cond] # 0
<1>1. /\ IsProgram(prog) /\ Graph /\ SingleAssignment /\ at \in Blocks /\ Passed
      /\ Running /\ RunInv /\ AnalysisInv /\ g \in Blocks
    BY OrderlyFacts DEF InOrderRun, Asserting
<1>2. PassedWith(g, env)
    BY <1>1, DominatingPassed
<1> SUFFICES ASSUME NEW y \in Tests(g), y \in Leaves PROVE y \in Settled
    BY <1>2 DEF PassedWith
<1>3. ASSUME y \in DOMAIN range PROVE In(env[y], range[y])
    <2>1. y \in DOMAIN Unconditional => In(env[y], Unconditional[y])
        BY <1>2 DEF PassedWith
    <2>2. ASSUME NEW k \in Sayers(y, range) PROVE Dominates(k, at)
        <3>1. k \in Blocks /\ NarrowingIsSound(y, k)
            BY DEF Sayers, Asserting
        <3>2. g = k \/ Dominates(k, g)
            BY <1>1, <3>1 DEF NarrowingIsSound, UsesApart
        <3> QED BY <1>1, <3>1, <3>2, DominatesTransitive
    <2> QED BY <1>1, <1>3, <2>1, <2>2, InRangeBehind
<1>4. ASSUME y \notin Fixed PROVE Behind(y)
    <2>1. y \in Reads(g)
        BY <1>1, TestsAreRead
    <2>2. g \notin Undefined(y)
        BY <1>1, <1>4, <2>1, ReadsAreDefined
    <2> QED BY <1>1, <2>2 DEF Behind
<1> QED BY <1>3, <1>4 DEF Settled

\* Where the operations the program-wide facts rest on come first, their results are settled.
LEMMA BoundingSettled ==
    ASSUME InOrderRun, FactsPrecede(at)
    PROVE  Bounding \subseteq Settled
<1>1. /\ IsProgram(prog) /\ Graph /\ at \in Blocks /\ DominatorsWell
      /\ Running /\ RunInv /\ AnalysisInv /\ AreRanges(range)
    BY OrderlyFacts DEF InOrderRun
<1> SUFFICES ASSUME NEW y \in Bounding PROVE y \in Settled
    OBVIOUS
<1> DEFINE d == DefinedIn(y)
<1>2. y \in Made /\ y \in Changing /\ y \in Leaves
    BY <1>1, LeavesOfPrograms DEF Bounding, Changing
<1>3. d \in Blocks /\ y \in B(d).defs
    BY <1>2 DEF DefinedIn, Made
<1>4. Dominates(d, at) /\ \A g \in Asserting : y \in Tests(g) => Dominates(g, at)
    BY DEF FactsPrecede, Asserting
<1> HIDE DEF d
<1>5. d \notin Undefined(y)
    <2>1. Undefined(y) \cap Definitions(y) = {}
        BY <1>1, UndefinedLeast
    <2> QED BY <1>3, <2>1 DEF Definitions, Defines
<1>6. WellMade(y, env)
    BY <1>1, <1>2, <1>3, <1>4, <1>5 DEF DominatorsWell, Well
<1>7. ASSUME y \in DOMAIN range PROVE In(env[y], range[y])
    <2>1. y \in DOMAIN Unconditional => In(env[y], Unconditional[y])
        BY <1>6 DEF WellMade
    <2>2. ASSUME NEW k \in Sayers(y, range) PROVE Dominates(k, at)
        <3>1. k \in Asserting /\ y \in Told(k, range)
            BY DEF Sayers
        <3>2. B(k).cond \in Value /\ Tests(k) = Computing(B(k).cond)
            BY <1>1, <3>1, AssertingFacts
        <3>3. y \in Tests(k)
            BY <1>1, <3>1, <3>2, AboutFacts
        <3> QED BY <1>4, <3>1, <3>3
    <2> QED BY <1>1, <1>7, <2>1, <2>2, InRangeBehind
<1> QED BY <1>2, <1>3, <1>4, <1>5, <1>7 DEF Settled, Behind

-----------------------------------------------------------------------------
(* Facts that values of the atoms meet.                                    *)

MetBy(V, S) == S \subseteq FactsAbout(Atoms) /\ Meets(V, S)

\* One fact is met.
LEMMA DiffMet ==
    ASSUME NEW V \in [Atoms -> Int], NEW a \in Atoms, NEW b \in Atoms, NEW c \in Int,
           V[a] - V[b] <= c
    PROVE  MetBy(V, {Diff(a, b, c)})
BY DEF MetBy, Meets, FactsAbout, Diff

\* Two sets of facts are.
LEMMA UnionMet ==
    ASSUME NEW V, NEW S, NEW T, MetBy(V, S), MetBy(V, T)
    PROVE  MetBy(V, S \union T)
BY DEF MetBy, Meets

\* Any number of sets are.
LEMMA UnionsMet ==
    ASSUME NEW V, NEW X, \A S \in X : MetBy(V, S)
    PROVE  MetBy(V, UNION X)
BY DEF MetBy, Meets

\* No facts are.
LEMMA NoneMet == \A V : MetBy(V, {})
BY DEF MetBy, Meets

\* An equality that holds is.
LEMMA EqualMet ==
    ASSUME NEW V \in [Atoms -> Int], NEW a \in Atoms, NEW b \in Atoms, NEW k \in Int,
           V[a] = V[b] + k
    PROVE  MetBy(V, Equal(a, b, k))
<1>1. V[a] \in Int /\ V[b] \in Int /\ -k \in Int
    OBVIOUS
<1>2. MetBy(V, {Diff(a, b, k)})
    BY <1>1, DiffMet
<1>3. MetBy(V, {Diff(b, a, -k)})
    BY <1>1, DiffMet
<1>4. MetBy(V, {Diff(a, b, k)} \union {Diff(b, a, -k)})
    BY <1>2, <1>3, UnionMet
<1>5. Equal(a, b, k) = {Diff(a, b, k)} \union {Diff(b, a, -k)}
    BY DEF Equal
<1> QED BY <1>4, <1>5

\* So is the range of what lies in it.
LEMMA WithinMet ==
    ASSUME NEW V \in [Atoms -> Int], V[Origin] = 0, NEW a \in Atoms, NEW r \in Intervals,
           In(V[a], r)
    PROVE  MetBy(V, Within(a, r))
<1>1. V[a] \in Int /\ r.lo \in Int /\ r.hi \in Int /\ -r.lo \in Int /\ Origin \in Atoms
    BY MaxIntIsPositive DEF Intervals, Uint, Atoms
<1>2. MetBy(V, {Diff(a, Origin, r.hi)})
    BY <1>1, DiffMet DEF In
<1>3. MetBy(V, {Diff(Origin, a, -r.lo)})
    BY <1>1, DiffMet DEF In
<1>4. MetBy(V, {Diff(a, Origin, r.hi)} \union {Diff(Origin, a, -r.lo)})
    BY <1>2, <1>3, UnionMet
<1>5. Within(a, r) = {Diff(a, Origin, r.hi)} \union {Diff(Origin, a, -r.lo)}
    BY DEF Within
<1> QED BY <1>4, <1>5

-----------------------------------------------------------------------------
(* What operations say.                                                    *)

\* The atom the operation that makes w says something of.
Own(w) == IF Makes[w].op \in {"len", "+", "-"} THEN Number(w) ELSE Length(w)

\* The ranges of what slice w takes.
SliceRanges(w) == IF w \in Sites THEN UNION {RangeFacts(y) : y \in Indices(w)} ELSE {}

\* All that is said of w is that its atom is so much more than another.
Ties(w, t) ==
    /\ t.atom \in MadeFrom(w)
    /\ StructuralFacts(w) \subseteq Equal(Own(w), t.atom, t.offset) \union SliceRanges(w)

\* Operations that say what their operands are at most.
Caps(w) == Makes[w].op = "-" /\ IsInt(Makes[w].ins[2])

\* The operands each operation has.
LEMMA LeafOperands ==
    ASSUME NEW w \in Leaves
    PROVE  /\ Makes[w].op \in {"read", "int", "bytes", "len"} \union Arith \union ByteOps
           /\ Makes[w].ins \in Seq(Leaves)
           /\ Makes[w].op \in {"extract", "substring", "len"} => Len(Makes[w].ins) = 1
           /\ Makes[w].op \in {"+", "-", "getbyte", "extract_uint16"} => Len(Makes[w].ins) = 2
           /\ Makes[w].op \in {"extract3", "substring3", "setbyte"} => Len(Makes[w].ins) = 3
           /\ \A i \in 1..Len(Makes[w].ins) :
                  Makes[w].ins[i] \in InputsOf(w) /\ Makes[w].ins[i] \in Leaves
           /\ InputsOf(w) \subseteq Leaves
           /\ Makes[w].op \in {"extract", "substring"} =>
                  Makes[w].imm[1] \in Nat /\ Makes[w].imm[2] \in Nat
           /\ IsInt(w) \/ IsLiteral(w) => Constant(w) \in Nat
<1>1. /\ Makes[w].ins \in Seq(Leaves) /\ Makes[w].imm \in Seq(Nat)
      /\ Makes[w].op \in {"read", "int", "bytes", "len"} \union Arith \union ByteOps
    BY MakesIsOperation
<1>2. /\ Makes[w].op \in {"extract", "substring"} => Len(Makes[w].ins) = 1 /\ Len(Makes[w].imm) = 2
      /\ Makes[w].op = "len" => Len(Makes[w].ins) = 1
      /\ Makes[w].op \in {"+", "-", "getbyte", "extract_uint16"} => Len(Makes[w].ins) = 2
      /\ Makes[w].op \in {"extract3", "substring3", "setbyte"} => Len(Makes[w].ins) = 3
      /\ Makes[w].op \in {"int", "bytes"} => Len(Makes[w].imm) = 1
    BY MakesHasOperands DEF Arith
<1>3. DOMAIN Makes[w].ins = 1..Len(Makes[w].ins)
    BY <1>1
<1>4. \A i \in 1..Len(Makes[w].ins) : Makes[w].ins[i] \in InputsOf(w) /\ Makes[w].ins[i] \in Leaves
    BY <1>1, <1>3 DEF InputsOf
<1>5. InputsOf(w) \subseteq Leaves
    BY <1>1 DEF InputsOf
<1>6. Makes[w].op \in {"extract", "substring"} => Makes[w].imm[1] \in Nat /\ Makes[w].imm[2] \in Nat
    BY <1>1, <1>2
<1>7. IsInt(w) \/ IsLiteral(w) => Constant(w) \in Nat
    BY <1>1, <1>2 DEF IsInt, IsLiteral, Constant
<1> QED BY <1>1, <1>2, <1>4, <1>5, <1>6, <1>7

\* At most one equality, beside what else is said.
LEMMA AtMostOneSaid ==
    ASSUME NEW E, NEW F, E \subseteq {F}, NEW R, NEW Q, R \subseteq Q
    PROVE  R \union UNION E \subseteq F \union Q
OBVIOUS

\* An operation says nothing, or caps its operands, or says all of one atom.
LEMMA StructuralShape ==
    ASSUME NEW w \in Leaves, w \in Made
    PROVE  /\ Makes[w].op \notin {"len", "+", "-"} \union Slices => StructuralFacts(w) = {}
           /\ \/ StructuralFacts(w) = {}
              \/ Caps(w)
              \/ \E t \in [atom : Atoms, offset : Int] : Ties(w, t)
<1> DEFINE in(i) == Makes[w].ins[i]
           imm == Makes[w].imm
           S == StructuralFacts(w)
           Tied == \E t \in [atom : Atoms, offset : Int] : Ties(w, t)
<1>1. /\ Makes[w].op \in {"read", "int", "bytes", "len"} \union Arith \union ByteOps
      /\ Makes[w].op \in {"extract", "substring", "len"} => Len(Makes[w].ins) = 1
      /\ Makes[w].op \in {"+", "-", "getbyte", "extract_uint16"} => Len(Makes[w].ins) = 2
      /\ Makes[w].op \in {"extract3", "substring3", "setbyte"} => Len(Makes[w].ins) = 3
      /\ \A i \in 1..Len(Makes[w].ins) : in(i) \in InputsOf(w) /\ in(i) \in Leaves
      /\ InputsOf(w) \subseteq Leaves
      /\ Makes[w].op \in {"extract", "substring"} => imm[1] \in Nat /\ imm[2] \in Nat
    BY LeafOperands
<1>2. /\ Len(Makes[w].ins) \in {1, 2, 3} => in(1) \in InputsOf(w) /\ in(1) \in Leaves
      /\ Len(Makes[w].ins) \in {2, 3} => in(2) \in InputsOf(w) /\ in(2) \in Leaves
    <2>1. \A n \in {1, 2, 3} : 1 \in 1..n
        OBVIOUS
    <2>2. \A n \in {2, 3} : 2 \in 1..n
        OBVIOUS
    <2> HIDE DEF in
    <2> QED BY <1>1, <2>1, <2>2
<1>3. \A x \in Leaves : IsInt(x) => Constant(x) \in Nat
    BY LeafOperands
<1>4. /\ MadeFrom(w) \subseteq Atoms
      /\ \A x \in InputsOf(w) : Number(x) \in MadeFrom(w) /\ Length(x) \in MadeFrom(w)
    BY <1>1 DEF MadeFrom, AtomsOf, Atoms, Leaves
<1>5. Origin \in MadeFrom(w)
    BY DEF MadeFrom
<1>6. ASSUME NEW a \in MadeFrom(w), NEW k \in Int, S \subseteq Equal(Own(w), a, k) \union SliceRanges(w)
      PROVE  Tied
    <2> DEFINE t == [atom |-> a, offset |-> k]
    <2>1. t \in [atom : Atoms, offset : Int] /\ t.atom = a /\ t.offset = k
        BY <1>4
    <2> HIDE DEF t
    <2>2. Ties(w, t)
        BY <1>6, <2>1 DEF Ties
    <2> QED BY <2>1, <2>2
<1>7. ASSUME NEW x \in InputsOf(w), NEW j \in Int, Own(w) = Length(w),
             S = RangeFacts(x) \union UNION {Equal(Length(w), t.atom, t.offset - j) : t \in Terms(x)},
             w \in Sites, x \in Indices(w)
      PROVE  Tied
    <2> DEFINE said(t) == Equal(Length(w), t.atom, t.offset - j)
               E == {said(t) : t \in Terms(x)}
    <2>1. RangeFacts(x) \subseteq SliceRanges(w)
        BY <1>7 DEF SliceRanges
    <2>2. S = RangeFacts(x) \union UNION E
        BY <1>7
    <2>3. CASE Terms(x) = {}
        <3>1. E \subseteq {Equal(Own(w), Origin, 0)}
            BY <2>3
        <3> HIDE DEF E
        <3>2. RangeFacts(x) \union UNION E \subseteq Equal(Own(w), Origin, 0) \union SliceRanges(w)
            BY <2>1, <3>1, AtMostOneSaid
        <3>3. S \subseteq Equal(Own(w), Origin, 0) \union SliceRanges(w)
            BY <2>2, <3>2
        <3> QED BY <1>5, <1>6, <3>3
    <2>4. CASE Terms(x) # {}
        <3>1. PICK t \in Terms(x) : Terms(x) = {t}
            BY <2>4 DEF Terms
        <3>2. x \in Leaves /\ x \in Value
            BY <1>1 DEF Leaves
        <3>3. t.offset \in Nat /\ t.atom \in MadeFrom(w)
            BY <1>4, <1>5, <3>2, TermFacts DEF Terms
        <3>4. t.offset - j \in Int
            BY <1>7, <3>3
        <3>5. said(t) = Equal(Own(w), t.atom, t.offset - j)
            BY <1>7
        <3> HIDE DEF said
        <3>6. E \subseteq {Equal(Own(w), t.atom, t.offset - j)}
            BY <3>1, <3>5
        <3> HIDE DEF E
        <3>7. RangeFacts(x) \union UNION E \subseteq Equal(Own(w), t.atom, t.offset - j) \union SliceRanges(w)
            BY <2>1, <3>6, AtMostOneSaid
        <3>8. S \subseteq Equal(Own(w), t.atom, t.offset - j) \union SliceRanges(w)
            BY <2>2, <3>7
        <3> QED BY <1>6, <3>3, <3>4, <3>8
    <2> QED BY <2>3, <2>4
<1>8. CASE Makes[w].op = "len"
    <2>1. S = Equal(Number(w), Length(in(1)), 0) /\ Own(w) = Number(w)
        BY <1>8 DEF StructuralFacts, Own
    <2> HIDE DEF S, Tied
    <2>2. Tied
        BY <1>1, <1>2, <1>4, <1>6, <1>8, <2>1
    <2> QED BY <1>8, <2>2 DEF Tied
<1>9. CASE Makes[w].op = "+"
    <2> DEFINE J == {j \in 1..2 : IsInt(in(j)) /\ IsVar(in(3 - j))}
               fact(i) == Equal(Number(w), Number(in(3 - i)), Constant(in(i)))
    <2>1. S = UNION {fact(i) : i \in J} /\ Own(w) = Number(w)
        BY <1>9 DEF StructuralFacts, Own
    <2>2. CASE J = {}
        BY <1>9, <2>1, <2>2
    <2>3. CASE J # {}
        <3>1. PICK i \in J : TRUE
            BY <2>3
        <3>2. /\ i \in {1, 2} /\ IsInt(in(i)) /\ IsVar(in(3 - i))
              /\ \A j \in J : j \in {1, 2} /\ IsInt(in(j)) /\ IsVar(in(3 - j))
            OBVIOUS
        <3>3. \A x : IsVar(x) => ~ IsInt(x)
            BY DEF IsVar
        <3>4. \A j \in J : j = i
            <4> SUFFICES ASSUME NEW j \in J, j # i PROVE FALSE
                OBVIOUS
            <4> HIDE DEF J, in
            <4>1. j = 3 - i
                BY <3>2
            <4> QED BY <3>2, <3>3, <4>1
        <3>5. S = fact(i)
            <4>1. J = {i}
                BY <3>4
            <4> HIDE DEF J, fact
            <4> QED BY <2>1, <4>1
        <3>6. in(i) \in Leaves /\ in(3 - i) \in InputsOf(w)
            <4> HIDE DEF in, J
            <4>1. 3 - i \in {1, 2}
                BY <3>2
            <4> QED BY <1>2, <1>1, <1>9, <3>2, <4>1
        <3>7. Constant(in(i)) \in Int /\ Number(in(3 - i)) \in MadeFrom(w)
            BY <1>3, <1>4, <3>2, <3>6
        <3> HIDE DEF S, Tied, in
        <3>8. Tied
            BY <1>6, <2>1, <3>5, <3>7
        <3> QED BY <1>9, <3>8 DEF Tied
    <2> QED BY <2>2, <2>3
<1>10. CASE Makes[w].op = "-" /\ ~ Caps(w)
    <2>1. Own(w) = Number(w) /\ ~ IsInt(in(2))
        BY <1>10 DEF Own, Caps
    <2>2. CASE IsInt(in(1)) /\ IsVar(in(2))
        <3>1. S = Equal(Number(w), Number(in(2)), -Constant(in(1)))
            BY <1>10, <2>1, <2>2 DEF StructuralFacts
        <3>2. -Constant(in(1)) \in Int /\ Number(in(2)) \in MadeFrom(w)
            BY <1>1, <1>2, <1>3, <1>4, <1>10, <2>2
        <3> HIDE DEF S, Tied, in
        <3>3. Tied
            BY <1>6, <2>1, <3>1, <3>2
        <3> QED BY <1>10, <3>3 DEF Tied
    <2>3. CASE ~ (IsInt(in(1)) /\ IsVar(in(2)))
        <3>1. S = {}
            BY <1>10, <2>1, <2>3 DEF StructuralFacts
        <3> QED BY <1>10, <3>1
    <2> QED BY <2>2, <2>3
<1>11. ASSUME Makes[w].op \in Slices
       PROVE  Own(w) = Length(w) /\ w \in Sites
    BY <1>11 DEF Own, Slices, Sites, ByteOps
<1>12. CASE Makes[w].op = "extract3"
    <2>1. Own(w) = Length(w) /\ w \in Sites
        BY <1>11, <1>12 DEF Slices
    <2>2. 1 \in 1..(3 - 1) /\ in(1) \in Indices(w)
        BY <1>1, <1>12 DEF Indices
    <2>3. S = RangeFacts(in(1)) \union UNION {Equal(Length(w), t.atom, t.offset) : t \in Terms(in(1))}
        BY <1>12 DEF StructuralFacts
    <2>4. in(1) \in InputsOf(w) /\ in(1) \in Value
        BY <1>1, <1>2, <1>12 DEF Leaves
    <2>5. \A t \in Terms(in(1)) : t.offset = t.offset - 0
        BY <2>4, TermFacts
    <2>6. S = RangeFacts(in(1)) \union UNION {Equal(Length(w), t.atom, t.offset - 0) : t \in Terms(in(1))}
        <3> HIDE DEF S, in
        <3>1. {Equal(Length(w), t.atom, t.offset) : t \in Terms(in(1))}
                  = {Equal(Length(w), t.atom, t.offset - 0) : t \in Terms(in(1))}
            BY <2>5
        <3> QED BY <2>3, <3>1
    <2> HIDE DEF S, Tied, in
    <2>7. Tied
        BY <1>7, <2>1, <2>2, <2>4, <2>6
    <2> QED BY <1>12, <2>7 DEF Tied, Slices
<1>13. CASE Makes[w].op = "substring3"
    <2>1. Own(w) = Length(w) /\ w \in Sites
        BY <1>11, <1>13 DEF Slices
    <2>2. 1 \in 1..(3 - 1) /\ in(1) \in Indices(w)
        BY <1>1, <1>13 DEF Indices
    <2>3. CASE IsInt(in(2))
        <3>1. S = RangeFacts(in(1))
                    \union UNION {Equal(Length(w), t.atom, t.offset - Constant(in(2))) : t \in Terms(in(1))}
            BY <1>13, <2>3 DEF StructuralFacts
        <3>2. in(1) \in InputsOf(w) /\ Constant(in(2)) \in Int
            BY <1>1, <1>2, <1>3, <1>13, <2>3
        <3> HIDE DEF S, Tied, in
        <3>3. Tied
            BY <1>7, <2>1, <2>2, <3>1, <3>2
        <3> QED BY <1>13, <3>3 DEF Tied, Slices
    <2>4. CASE ~ IsInt(in(2))
        <3>1. S = {}
            BY <1>13, <2>4 DEF StructuralFacts
        <3> QED BY <1>13, <3>1
    <2> QED BY <2>3, <2>4
<1>14. CASE Makes[w].op = "extract"
    <2>1. Own(w) = Length(w)
        BY <1>11, <1>14 DEF Slices
    <2>2. \/ S = Equal(Length(w), Length(in(1)), -imm[1])
          \/ S = Equal(Length(w), Origin, imm[2])
        BY <1>14 DEF StructuralFacts
    <2>3. -imm[1] \in Int /\ imm[2] \in Int /\ Length(in(1)) \in MadeFrom(w)
        BY <1>1, <1>2, <1>4, <1>14
    <2> HIDE DEF S, Tied, in, imm
    <2>4. Tied
        BY <1>5, <1>6, <2>1, <2>2, <2>3
    <2> QED BY <1>14, <2>4 DEF Tied, Slices
<1>15. CASE Makes[w].op = "substring"
    <2>1. Own(w) = Length(w)
        BY <1>11, <1>15 DEF Slices
    <2>2. S = Equal(Length(w), Origin, imm[2] - imm[1])
        BY <1>15 DEF StructuralFacts
    <2>3. imm[2] - imm[1] \in Int
        BY <1>1, <1>15
    <2> HIDE DEF S, Tied, in, imm
    <2>4. Tied
        BY <1>5, <1>6, <2>1, <2>2, <2>3
    <2> QED BY <1>15, <2>4 DEF Tied, Slices
<1>16. CASE Makes[w].op \notin {"len", "+", "-"} \union Slices
    <2>1. S = {}
        BY <1>16 DEF StructuralFacts, Slices
    <2> QED BY <2>1
<1>17. CASE Makes[w].op = "-" /\ Caps(w)
    BY <1>17
<1> QED BY <1>8, <1>9, <1>10, <1>12, <1>13, <1>14, <1>15, <1>16, <1>17 DEF Slices

-----------------------------------------------------------------------------
(* Values that suit the facts at the block the run is in.                  *)

\* The atom of w is so much more than another, and its operation says no more.
Tying(V, w) ==
    \E t \in [atom : Atoms, offset : Int] : Ties(w, t) /\ V[Own(w)] = V[t.atom] + t.offset

\* Whether what makes w says anything of the number w is.
Counts(w) == w \in Made /\ Makes[w].op \in {"len", "+", "-"}

\* The values settled leaves have, and others for the rest of the program: what their operations
\* say, or the least that is said of them.
Suits(V) ==
    /\ V \in [Atoms -> Int] /\ V[Origin] = 0
    /\ \A w \in Settled : V[Number(w)] = env[w] /\ V[Length(w)] = env[w]
    /\ \A u \in Value \ Leaves : V[Number(u)] = Eval(env)[u]
    /\ \A w \in Made \ Settled : StructuralFacts(w) = {} \/ Tying(V, w)
    /\ \A w \in Leaves \ Settled :
           /\ ~ Counts(w) /\ w \in DOMAIN range => V[Number(w)] = range[w].lo
           /\ IsLiteral(w) => V[Length(w)] = Constant(w)
           /\ w \in DOMAIN Tracked => V[Length(w)] = Tracked[w]

\* There are such values.
LEMMA SomeSuit ==
    ASSUME InOrderRun, FactsPrecede(at)
    PROVE  \E V : Suits(V)
<1> DEFINE Offset == [atom : Atoms, offset : Int]
           number(w) == IF w \notin Leaves THEN Eval(env)[w] ELSE IF w \in Settled THEN env[w]
                        ELSE IF w \in DOMAIN range THEN range[w].lo ELSE 0
           length(w) == IF w \notin Leaves THEN 0 ELSE IF w \in Settled THEN env[w]
                        ELSE IF IsLiteral(w) THEN Constant(w)
                        ELSE IF w \in DOMAIN Tracked THEN Tracked[w] ELSE 0
           base == [x \in Atoms |-> IF x = Origin THEN 0
                                    ELSE IF x[1] = "value" THEN number(x[2]) ELSE length(x[2])]
           Free == {w \in Made \ Settled : StructuralFacts(w) # {}}
           T == {Own(w) : w \in Free}
           tied(x) == CHOOSE t \in Offset : \E w \in Free : x = Own(w) /\ Ties(w, t)
           tie == [x \in T |-> tied(x)]
<1>1. /\ env \in [Leaves -> Uint] /\ AreRanges(range)
      /\ Made \subseteq Leaves \ Fixed /\ IsProgram(prog) /\ Graph
    BY OrderlyFacts, LeavesOfPrograms
<1>2. Leaves \subseteq Value /\ Settled \subseteq Leaves /\ Uint \subseteq Int /\ 0 \in Int
    BY MaxIntIsPositive DEF Leaves, Settled, Uint
<1>3. \A w \in Value : number(w) \in Int
    <2>1. \A w \in Value : Eval(env)[w] \in Int
        BY <1>1, <1>2, EvalIsUint
    <2>2. \A w \in DOMAIN range : range[w].lo \in Int
        BY <1>1, <1>2 DEF AreRanges, Intervals
    <2>3. \A w \in Settled : env[w] \in Int
        BY <1>1, <1>2
    <2> QED BY <1>2, <2>1, <2>2, <2>3
<1>4. \A w \in Value : length(w) \in Int
    <2>1. \A w \in Settled : env[w] \in Int
        BY <1>1, <1>2
    <2>2. \A w \in Leaves : IsLiteral(w) => Constant(w) \in Int
        BY LeafOperands
    <2>3. \A w \in DOMAIN Tracked : Tracked[w] \in Int
        BY TrackedIsLowerBound
    <2> QED BY <1>2, <2>1, <2>2, <2>3
<1>5. /\ \A v : Number(v)[1] = "value" /\ Number(v)[2] = v /\ Number(v) # Origin
      /\ \A v : Length(v)[1] # "value" /\ Length(v)[2] = v /\ Length(v) # Origin
    BY DEF Number, Length, Origin
<1>6. /\ Origin \in Atoms
      /\ \A v \in Value : Number(v) \in Atoms /\ Length(v) \in Atoms
      /\ \A x \in Atoms : x = Origin \/ \E v \in Value : x = Number(v) \/ x = Length(v)
    BY DEF Atoms
<1> HIDE DEF number, length
<1>7. /\ base[Origin] = 0
      /\ \A v \in Value : base[Number(v)] = number(v) /\ base[Length(v)] = length(v)
    BY <1>5, <1>6
<1>8. base \in [Atoms -> Int]
    <2>1. ASSUME NEW x \in Atoms PROVE base[x] \in Int
        <3> HIDE DEF base
        <3> QED BY <1>2, <1>3, <1>4, <1>6, <1>7
    <2>2. base = [x \in Atoms |-> base[x]]
        OBVIOUS
    <2> HIDE DEF base
    <2> QED BY <2>1, <2>2
<1> HIDE DEF base
\* What is not settled caps nothing, so it is tied.
<1>9. ASSUME NEW w \in Free PROVE w \in Leaves /\ \E t \in Offset : Ties(w, t)
    <2>1. w \in Made /\ w \in Leaves /\ StructuralFacts(w) # {} /\ w \notin Settled
        BY <1>1
    <2>2. ~ Caps(w)
        BY <2>1, BoundingSettled DEF Caps, Bounding
    <2> QED BY <2>1, <2>2, StructuralShape
<1>10. ASSUME NEW x \in T
       PROVE  tie[x] \in Offset /\ \E w \in Free : x = Own(w) /\ Ties(w, tie[x])
    <2>1. \E t \in Offset : \E w \in Free : x = Own(w) /\ Ties(w, t)
        <3> HIDE DEF Offset, Free
        <3> QED BY <1>9
    <2>2. tie[x] = tied(x)
        OBVIOUS
    <2> HIDE DEF tie, T, Offset, Free
    <2> QED BY <2>1, <2>2
<1>11. tie \in [T -> Offset]
    <2>1. \A x \in T : tie[x] = tied(x)
        OBVIOUS
    <2>2. tie = [x \in T |-> tie[x]]
        <3> HIDE DEF tied, T
        <3> QED BY <2>1
    <2> HIDE DEF tie, T, Offset
    <2> QED BY <1>10, <2>2
<1>12. ASSUME NEW w \in Free PROVE Own(w) \in AtomsOf({w})
    BY DEF Own, AtomsOf
<1>13. T \subseteq Atoms
    <2> HIDE DEF Free
    <2>1. ASSUME NEW w \in Free PROVE Own(w) \in Atoms
        BY <1>2, <1>6, <1>9 DEF Own
    <2> QED BY <2>1
<1>14. \A x \in T : \E w \in Leaves : x \in AtomsOf({w}) /\ tie[x].atom \in MadeFrom(w)
    <2> HIDE DEF T, tie, Free, Offset
    <2> QED BY <1>9, <1>10, <1>12 DEF Ties
<1> HIDE DEF tie
<1>15. PICK V \in [Atoms -> Int] : TiedTo(V, T, tie, base)
    <2> HIDE DEF T
    <2> QED BY <1>8, <1>11, <1>13, <1>14, TiedValues
<1>16. \A x \in T : \E w \in Free : x = Own(w) /\ w \in Leaves
    BY <1>9
<1>17. Origin \notin T
    BY <1>5, <1>16 DEF Own
<1>18. ASSUME NEW v \in Value PROVE /\ Number(v) \in T => v \in Free /\ Own(v) = Number(v)
                                    /\ Length(v) \in T => v \in Free /\ Own(v) = Length(v)
    <2> HIDE DEF T, Free
    <2> QED BY <1>16, AtomsApart DEF Own
<1>19. /\ \A v \in Value : v \notin Free => V[Number(v)] = number(v) /\ V[Length(v)] = length(v)
       /\ \A v \in Value : Own(v) # Number(v) => V[Number(v)] = number(v)
       /\ V[Origin] = 0
    <2> HIDE DEF T, Free
    <2> QED BY <1>6, <1>7, <1>15, <1>17, <1>18 DEF TiedTo
<1>20. ASSUME NEW w \in Settled PROVE V[Number(w)] = env[w] /\ V[Length(w)] = env[w]
    <2>1. w \notin Free /\ w \in Value
        BY <1>2
    <2>2. number(w) = env[w] /\ length(w) = env[w]
        BY <1>2 DEF number, length
    <2> QED BY <1>19, <2>1, <2>2
<1>21. ASSUME NEW u \in Value \ Leaves PROVE V[Number(u)] = Eval(env)[u]
    <2>1. u \notin Free
        BY <1>1
    <2>2. number(u) = Eval(env)[u]
        BY DEF number
    <2> QED BY <1>19, <2>1, <2>2
<1>22. ASSUME NEW w \in Made \ Settled, StructuralFacts(w) # {} PROVE Tying(V, w)
    <2>1. w \in Free /\ w \in Leaves /\ w \in Value
        BY <1>1, <1>2, <1>22
    <2>2. Own(w) \in T
        BY <2>1
    <2>3. PICK y \in Free : Own(w) = Own(y) /\ Ties(y, tie[Own(w)])
        <3> HIDE DEF T, Free
        <3> QED BY <1>10, <2>2
    <2>4. y = w
        <3> HIDE DEF T, Free
        <3> QED BY <2>3, AtomsApart DEF Own
    <2> DEFINE t == tie[Own(w)]
    <2>5. t \in Offset
        <3> HIDE DEF T, Offset, Free
        <3> QED BY <1>10, <2>2
    <2>6. V[Own(w)] = V[t.atom] + t.offset
        <3> HIDE DEF T
        <3> QED BY <1>13, <1>15, <2>2 DEF TiedTo
    <2>7. Ties(w, t)
        BY <2>3, <2>4
    <2> HIDE DEF t
    <2> QED BY <2>5, <2>6, <2>7 DEF Tying
<1>23. ASSUME NEW w \in Leaves \ Settled
       PROVE  /\ ~ Counts(w) /\ w \in DOMAIN range => V[Number(w)] = range[w].lo
              /\ IsLiteral(w) => V[Length(w)] = Constant(w)
              /\ w \in DOMAIN Tracked => V[Length(w)] = Tracked[w]
    <2>1. ASSUME ~ Counts(w), w \in DOMAIN range PROVE V[Number(w)] = range[w].lo
        <3>1. w \notin Free \/ Own(w) # Number(w)
            BY <2>1, AtomsApart DEF Counts, Own
        <3>2. number(w) = range[w].lo
            BY <2>1 DEF number
        <3> HIDE DEF Free
        <3> QED BY <1>2, <1>19, <3>1, <3>2
    <2>2. ASSUME IsLiteral(w) \/ w \in DOMAIN Tracked PROVE w \notin Free
        <3>1. Makes[w].op \in {"read", "bytes"}
            BY <2>2, TrackedIsLowerBound DEF IsLiteral
        <3>2. w \in Made => StructuralFacts(w) = {}
            BY <3>1, StructuralShape DEF Slices
        <3> QED BY <3>2
    <2>3. ASSUME IsLiteral(w) PROVE V[Length(w)] = Constant(w)
        <3>1. length(w) = Constant(w)
            BY <2>3 DEF length
        <3> HIDE DEF Free
        <3> QED BY <1>2, <1>19, <2>2, <2>3, <3>1
    <2>4. ASSUME w \in DOMAIN Tracked PROVE V[Length(w)] = Tracked[w]
        <3>1. ~ IsLiteral(w)
            BY <2>4, TrackedIsLowerBound DEF IsLiteral
        <3>2. length(w) = Tracked[w]
            BY <2>4, <3>1 DEF length
        <3> HIDE DEF Free
        <3> QED BY <1>2, <1>19, <2>2, <2>4, <3>2
    <2> QED BY <2>1, <2>3, <2>4
<1>24. Suits(V)
    <2> HIDE DEF number, length, Free, T
    <2> QED BY <1>19, <1>20, <1>21, <1>22, <1>23, <1>15 DEF Suits
<1> QED BY <1>24

-----------------------------------------------------------------------------
(* The facts at the block the run is in are met.                           *)

\* With facts, some of them are met.
LEMMA PartMet ==
    ASSUME NEW V, NEW S, NEW T, S \subseteq T, MetBy(V, T)
    PROVE  MetBy(V, S)
BY DEF MetBy, Meets

\* Constants have their values, and what is tracked is at least as long as is known.
LEMMA ConstantsKept ==
    ASSUME InOrderRun
    PROVE  /\ Plain(env)
           /\ \A w \in Leaves : IsInt(w) \/ IsLiteral(w) => env[w] = Constant(w)
           /\ \A w \in Settled \cap DOMAIN Tracked : Tracked[w] <= env[w]
<1>1. /\ env \in [Leaves -> Uint] /\ Sourced /\ IsProgram(prog) /\ Graph /\ prog \in Programs
      /\ Phis \subseteq Leaves \ Fixed
    BY OrderlyFacts, LeavesOfPrograms
<1>2. env \in [Leaves -> Nat]
    BY <1>1, EvalIsUint
<1>3. ASSUME NEW w \in Leaves, IsInt(w) \/ IsLiteral(w) PROVE env[w] = Constant(w)
    <2>1. w \in Fixed /\ Readable[w] = {Constant(w)} /\ w \notin Phis
        BY <1>1, <1>3, ConstantsAreFixed
    <2>2. Source(w)
        BY <1>3 DEF Source, IsInt, IsLiteral
    <2> QED BY <1>1, <2>1, <2>2 DEF Sourced
<1>4. ASSUME NEW w \in Settled, w \in DOMAIN Tracked PROVE Tracked[w] <= env[w]
    <2>1. w \in Leaves /\ Makes[w].op = "read" /\ \A n \in Readable[w] : Tracked[w] <= n
        BY <1>4, TrackedIsLowerBound
    <2>2. w \notin Phis
        <3> SUFFICES ASSUME w \in Phis PROVE FALSE
            OBVIOUS
        <3>1. PICK b \in Blocks : w \in PhisOf(b)
            BY DEF Phis
        <3>2. b \in DOMAIN prog.blocks
            BY <1>1, FlowTypes DEF Graph, All
        <3>3. \A t \in prog.blocks[b].phi : t[1] \notin DOMAIN Tracked
            BY <1>1, <3>2, TrackedAreNoPhis
        <3> QED BY <1>4, <3>1, <3>3 DEF PhisOf, B
    <2>3. env[w] \in Readable[w]
        <3>1. CASE w \in Fixed
            BY <1>1, <2>1, <2>2, <3>1 DEF Sourced, Source
        <3>2. CASE w \notin Fixed
            <4>1. w \in Changing /\ Behind(w)
                BY <2>1, <3>2 DEF Changing, Settled
            <4>2. env[w] \in Results(w, env)
                BY <2>2, <4>1, BehindIsMade DEF WellMade
            <4> QED BY <2>1, <4>2 DEF Results, Outputs, Slices
        <3> QED BY <3>1, <3>2
    <2> QED BY <2>1, <2>3
<1> QED BY <1>2, <1>3, <1>4 DEF Plain

\* The range of an index of an access is met.
LEMMA RangesMet ==
    ASSUME InOrderRun, FactsPrecede(at), NEW V, Suits(V), NEW s \in Sites, NEW y \in Indices(s)
    PROVE  MetBy(V, RangeFacts(y))
<1>1. AreRanges(range) /\ Made \subseteq Leaves /\ s \in Made
    BY OrderlyFacts, LeavesOfPrograms DEF Sites
<1>2. y \in Leaves /\ y \in Value
    <2>1. PICK i \in 1..(Len(Makes[s].ins) - 1) : y = Makes[s].ins[i]
        BY DEF Indices
    <2>2. Makes[s].ins \in Seq(Leaves) /\ s \in Leaves
        BY <1>1, MakesIsOperation
    <2>3. i \in 1..Len(Makes[s].ins)
        BY <2>1, <2>2
    <2> QED BY <2>1, <2>2, <2>3 DEF Leaves
<1>3. CASE ~ (IsVar(y) /\ y \in DOMAIN range)
    BY <1>3, NoneMet DEF RangeFacts
<1>4. CASE IsVar(y) /\ y \in DOMAIN range
    <2>1. range[y] \in Intervals /\ range[y].lo <= range[y].hi /\ range[y].lo \in Int
        BY <1>1, <1>4, MaxIntIsPositive DEF AreRanges, Intervals, Uint
    <2>2. ASSUME y \in Settled PROVE In(V[Number(y)], range[y])
        BY <1>4, <2>2 DEF Suits, Settled
    <2>3. ASSUME y \notin Settled PROVE In(V[Number(y)], range[y])
        <3>1. ~ Counts(y)
            BY <2>3, BoundingSettled DEF Counts, Bounding
        <3>2. V[Number(y)] = range[y].lo
            BY <1>2, <1>4, <2>3, <3>1 DEF Suits
        <3> QED BY <2>1, <3>2 DEF In
    <2>4. In(V[Number(y)], range[y])
        BY <2>2, <2>3
    <2>5. Number(y) \in Atoms /\ V \in [Atoms -> Int] /\ V[Origin] = 0
        BY <1>2 DEF Atoms, Suits
    <2> QED BY <1>4, <2>1, <2>4, <2>5, WithinMet DEF RangeFacts
<1> QED BY <1>3, <1>4

\* So is what is known of the length of a buffer.
LEMMA BufferMet ==
    ASSUME InOrderRun, NEW V, Suits(V), NEW w \in Leaves
    PROVE  MetBy(V, BufferFacts(w))
<1>1. /\ V \in [Atoms -> Int] /\ V[Origin] = 0 /\ Origin \in Atoms /\ Length(w) \in Atoms
      /\ V[Length(w)] \in Int
    BY DEF Suits, Atoms, Leaves
<1>2. CASE IsLiteral(w)
    <2>1. V[Length(w)] = Constant(w) /\ Constant(w) \in Int
        BY <1>2, ConstantsKept, LeafOperands DEF Suits
    <2>2. MetBy(V, Equal(Length(w), Origin, Constant(w)))
        BY <1>1, <2>1, EqualMet
    <2> QED BY <1>2, <2>2 DEF BufferFacts
<1>3. CASE ~ IsLiteral(w) /\ w \in DOMAIN Tracked
    <2>1. Tracked[w] <= V[Length(w)] /\ Tracked[w] \in Int
        <3>1. Tracked[w] \in Nat
            BY <1>3, TrackedIsLowerBound
        <3>2. w \in Settled => Tracked[w] <= V[Length(w)]
            BY <1>3, ConstantsKept DEF Suits
        <3>3. w \notin Settled => Tracked[w] = V[Length(w)]
            BY <1>3 DEF Suits
        <3> QED BY <3>1, <3>2, <3>3
    <2>2. V[Origin] - V[Length(w)] <= -Tracked[w] /\ -Tracked[w] \in Int
        BY <1>1, <2>1
    <2>3. MetBy(V, {Diff(Origin, Length(w), -Tracked[w])})
        BY <1>1, <2>2, DiffMet
    <2> QED BY <1>3, <2>3 DEF BufferFacts
<1>4. CASE ~ IsLiteral(w) /\ w \notin DOMAIN Tracked
    BY <1>4, NoneMet DEF BufferFacts
<1> QED BY <1>2, <1>3, <1>4

\* The terms of a value, with its value in the run.
LEMMA TermsSuit ==
    ASSUME InOrderRun, NEW V, Suits(V), NEW v \in Value, v \in Leaves => v \in Settled
    PROVE  \A t \in Terms(v) : /\ t.atom \in Atoms /\ t.offset \in Int /\ V[t.atom] \in Int
                               /\ At(V, t) = Eval(env)[v]
<1> SUFFICES ASSUME NEW t \in Terms(v)
             PROVE  /\ t.atom \in Atoms /\ t.offset \in Int /\ V[t.atom] \in Int
                    /\ At(V, t) = Eval(env)[v]
    OBVIOUS
<1>1. t.atom \in Atoms /\ t.offset \in Nat /\ V \in [Atoms -> Int] /\ V[Origin] = 0
    BY TermFacts DEF Suits
<1>2. /\ env \in [Leaves -> Nat] /\ Eval(env)[v] \in Int
      /\ v \in Leaves => Eval(env)[v] = env[v]
    BY OrderlyFacts, EvalIsUint, EvalSteps DEF Leaves, Uint
<1>3. CASE v \in Leaves /\ IsInt(v)
    <2>1. t.atom = Origin /\ t.offset = Constant(v)
        BY <1>3 DEF Terms
    <2>2. env[v] = Constant(v)
        BY <1>3, ConstantsKept
    <2> QED BY <1>1, <1>2, <1>3, <2>1, <2>2 DEF At
<1>4. CASE ~ (v \in Leaves /\ IsInt(v))
    <2>1. t.atom = Number(v) /\ t.offset = 0
        BY <1>4 DEF Terms
    <2>2. V[Number(v)] = Eval(env)[v]
        BY <1>2 DEF Suits
    <2> QED BY <1>1, <1>2, <2>1, <2>2 DEF At
<1> QED BY <1>3, <1>4

\* What the operation of w says is so.
LEMMA StructureMet ==
    ASSUME InOrderRun, FactsPrecede(at), NEW V, Suits(V), NEW w \in Made
    PROVE  MetBy(V, StructuralFacts(w))
<1> DEFINE in(i) == Makes[w].ins[i]
           imm == Makes[w].imm
           S == StructuralFacts(w)
           Ranged == UNION {RangeFacts(y) : y \in Indices(w)}
<1>1. /\ w \in Leaves /\ V \in [Atoms -> Int] /\ V[Origin] = 0 /\ env \in [Leaves -> Nat]
    BY OrderlyFacts, LeavesOfPrograms, EvalIsUint DEF Suits
<1>2. /\ Makes[w].op \in {"read", "int", "bytes", "len"} \union Arith \union ByteOps
      /\ Makes[w].op \in {"extract", "substring", "len"} => Len(Makes[w].ins) = 1
      /\ Makes[w].op \in {"+", "-"} => Len(Makes[w].ins) = 2
      /\ Makes[w].op \in {"extract3", "substring3"} => Len(Makes[w].ins) = 3
      /\ \A i \in 1..Len(Makes[w].ins) : in(i) \in InputsOf(w) /\ in(i) \in Leaves
      /\ Makes[w].op \in {"extract", "substring"} => imm[1] \in Nat /\ imm[2] \in Nat
    BY <1>1, LeafOperands
<1>3. w \in Sites => MetBy(V, Ranged)
    <2> SUFFICES ASSUME w \in Sites PROVE MetBy(V, Ranged)
        OBVIOUS
    <2>1. \A y \in Indices(w) : MetBy(V, RangeFacts(y))
        BY RangesMet
    <2>2. \A X \in {RangeFacts(y) : y \in Indices(w)} : MetBy(V, X)
        BY <2>1
    <2> QED BY <2>2, UnionsMet
<1> HIDE DEF Ranged
<1>4. CASE w \notin Settled
    <2>1. CASE S = {}
        BY <2>1, NoneMet
    <2>2. CASE S # {}
        <3>1. PICK t \in [atom : Atoms, offset : Int] : Ties(w, t) /\ V[Own(w)] = V[t.atom] + t.offset
            BY <1>4, <2>2 DEF Suits, Tying
        <3>2. S \subseteq Equal(Own(w), t.atom, t.offset) \union SliceRanges(w)
            BY <3>1 DEF Ties
        <3>3. Own(w) \in Atoms
            BY <1>1 DEF Own, Atoms, Leaves
        <3>4. MetBy(V, Equal(Own(w), t.atom, t.offset))
            BY <1>1, <3>1, <3>3, EqualMet
        <3>5. MetBy(V, SliceRanges(w))
            BY <1>3, NoneMet DEF SliceRanges, Ranged
        <3>6. MetBy(V, Equal(Own(w), t.atom, t.offset) \union SliceRanges(w))
            BY <3>4, <3>5, UnionMet
        <3> HIDE DEF S
        <3>7. MetBy(V, S)
            BY <3>2, <3>6, PartMet
        <3> QED BY <3>7 DEF S
    <2> QED BY <2>1, <2>2
<1>5. CASE w \in Settled
    <2>1. /\ InputsOf(w) \subseteq Settled
          /\ ~ Fail(Makes[w], env) /\ env[w] \in Outputs(Makes[w], env, Readable[w])
        BY <1>5, SettledInputs DEF Fails, Results
    <2>2. /\ V[Number(w)] = env[w] /\ V[Length(w)] = env[w] /\ env[w] \in Nat
          /\ Number(w) \in Atoms /\ Length(w) \in Atoms /\ Origin \in Atoms
        BY <1>1, <1>5 DEF Suits, Atoms, Leaves
    <2> DEFINE Shown(x) == /\ x \in Leaves /\ env[x] \in Nat
                           /\ V[Number(x)] = env[x] /\ V[Length(x)] = env[x]
                           /\ Number(x) \in Atoms /\ Length(x) \in Atoms
                           /\ IsInt(x) => env[x] = Constant(x)
                           /\ \A t \in Terms(x) : /\ t.atom \in Atoms /\ t.offset \in Int /\ V[t.atom] \in Int
                                                  /\ V[t.atom] + t.offset = env[x]
    <2>3. ASSUME NEW x \in InputsOf(w) PROVE Shown(x)
        <3>1. x \in Settled /\ x \in Leaves /\ x \in Value
            BY <2>1 DEF Settled, Leaves
        <3>2. V[Number(x)] = env[x] /\ V[Length(x)] = env[x] /\ env[x] \in Nat
            BY <1>1, <3>1 DEF Suits
        <3>3. Eval(env)[x] = env[x]
            BY <1>1, <3>1, EvalSteps DEF Leaves
        <3>4. \A t \in Terms(x) : /\ t.atom \in Atoms /\ t.offset \in Int /\ V[t.atom] \in Int
                                  /\ V[t.atom] + t.offset = env[x]
            BY <3>1, <3>3, TermsSuit DEF At
        <3> QED BY <3>1, <3>2, <3>4, ConstantsKept DEF Atoms
    <2>4. /\ Len(Makes[w].ins) \in {1, 2, 3} => Shown(in(1))
          /\ Len(Makes[w].ins) \in {2, 3} => Shown(in(2))
        <3>1. \A n \in {1, 2, 3} : 1 \in 1..n
            OBVIOUS
        <3>2. \A n \in {2, 3} : 2 \in 1..n
            OBVIOUS
        <3> HIDE DEF in, Shown
        <3> QED BY <1>2, <2>3, <3>1, <3>2
    <2> HIDE DEF Shown
    <2>5. CASE Makes[w].op = "len"
        <3>1. S = Equal(Number(w), Length(in(1)), 0)
            BY <2>5 DEF StructuralFacts
        <3>2. env[w] = env[in(1)]
            BY <2>1, <2>5 DEF Outputs, Slices
        <3>3. Shown(in(1))
            BY <1>2, <2>4, <2>5
        <3> HIDE DEF S, in
        <3>4. MetBy(V, Equal(Number(w), Length(in(1)), 0))
            BY <1>1, <2>2, <3>2, <3>3, EqualMet DEF Shown
        <3>5. MetBy(V, S)
            BY <3>1, <3>4
        <3> QED BY <3>5 DEF S
    <2>6. CASE Makes[w].op = "+"
        <3> DEFINE J == {j \in 1..2 : IsInt(in(j)) /\ IsVar(in(3 - j))}
                   fact(i) == Equal(Number(w), Number(in(3 - i)), Constant(in(i)))
        <3>1. S = UNION {fact(i) : i \in J}
            BY <2>6 DEF StructuralFacts
        <3>2. env[w] = env[in(2)] + env[in(1)]
            BY <2>1, <2>6 DEF Outputs, Left, Right, Slices
        <3>3. Shown(in(1)) /\ Shown(in(2))
            BY <1>2, <2>4, <2>6
        <3>4. ASSUME NEW i \in J PROVE MetBy(V, fact(i))
            <4>1. i \in {1, 2} /\ IsInt(in(i))
                OBVIOUS
            <4> HIDE DEF J, in
            <4>2. /\ Shown(in(i)) /\ Shown(in(3 - i)) /\ env[w] = env[in(3 - i)] + env[in(i)]
                <5>1. CASE i = 1
                    <6>1. 3 - i = 2
                        BY <5>1
                    <6> QED BY <3>2, <3>3, <5>1, <6>1
                <5>2. CASE i = 2
                    <6>1. 3 - i = 1
                        BY <5>2
                    <6>2. env[in(1)] \in Nat /\ env[in(2)] \in Nat
                        BY <3>3 DEF Shown
                    <6> QED BY <3>2, <3>3, <5>2, <6>1, <6>2
                <5> QED BY <4>1, <5>1, <5>2
            <4>3. /\ Number(in(3 - i)) \in Atoms /\ Constant(in(i)) \in Int
                  /\ V[Number(w)] = V[Number(in(3 - i))] + Constant(in(i))
                BY <2>2, <4>1, <4>2 DEF Shown
            <4> QED BY <1>1, <2>2, <4>3, EqualMet
        <3> HIDE DEF J, fact, S
        <3>5. \A X \in {fact(i) : i \in J} : MetBy(V, X)
            BY <3>4
        <3>6. MetBy(V, S)
            BY <3>1, <3>5, UnionsMet
        <3> QED BY <3>6 DEF S
    <2>7. CASE Makes[w].op = "-"
        <3>1. env[w] = env[in(2)] - env[in(1)] /\ ~ (env[in(2)] < env[in(1)])
            BY <2>1, <2>7 DEF Outputs, Fail, Left, Right, Slices, ByteOps
        <3>2. Shown(in(1)) /\ Shown(in(2))
            BY <1>2, <2>4, <2>7
        <3>3. CASE IsInt(in(1)) /\ IsVar(in(2))
            <4>1. S = Equal(Number(w), Number(in(2)), -Constant(in(1)))
                BY <2>7, <3>3 DEF StructuralFacts, IsVar
            <4> HIDE DEF S, in
            <4>2. /\ Number(in(2)) \in Atoms /\ -Constant(in(1)) \in Int
                  /\ V[Number(w)] = V[Number(in(2))] + (-Constant(in(1)))
                BY <2>2, <3>1, <3>2, <3>3 DEF Shown
            <4>3. MetBy(V, Equal(Number(w), Number(in(2)), -Constant(in(1))))
                BY <1>1, <2>2, <4>2, EqualMet
            <4>4. MetBy(V, S)
                BY <4>1, <4>3
            <4> QED BY <4>4 DEF S
        <3>4. CASE IsInt(in(2)) /\ IsVar(in(1))
            <4>1. S = {Diff(Number(x), Origin, Constant(in(2))) : x \in {w, in(1)}}
                BY <2>7, <3>4 DEF StructuralFacts, IsVar
            <4> HIDE DEF S, in
            <4>2. /\ Number(in(1)) \in Atoms /\ Constant(in(2)) \in Int
                  /\ V[Number(w)] - V[Origin] <= Constant(in(2))
                  /\ V[Number(in(1))] - V[Origin] <= Constant(in(2))
                BY <1>1, <2>2, <3>1, <3>2, <3>4 DEF Shown
            <4>3. /\ MetBy(V, {Diff(Number(w), Origin, Constant(in(2)))})
                  /\ MetBy(V, {Diff(Number(in(1)), Origin, Constant(in(2)))})
                BY <1>1, <2>2, <4>2, DiffMet
            <4>4. S = {Diff(Number(w), Origin, Constant(in(2)))}
                          \union {Diff(Number(in(1)), Origin, Constant(in(2)))}
                BY <4>1
            <4>5. MetBy(V, S)
                BY <4>3, <4>4, UnionMet
            <4> QED BY <4>5 DEF S
        <3>5. CASE ~ (IsInt(in(1)) /\ IsVar(in(2))) /\ ~ (IsInt(in(2)) /\ IsVar(in(1)))
            <4>1. S = {}
                BY <2>7, <3>5 DEF StructuralFacts
            <4> QED BY <4>1, NoneMet
        <3> QED BY <3>3, <3>4, <3>5
    \* A slice is what its last argument, or the end of it, makes it.
    <2>8. ASSUME NEW x \in InputsOf(w), x \in Indices(w), w \in Sites, NEW j \in Int, env[w] = env[x] - j,
                 NEW E, E = {Equal(Length(w), t.atom, t.offset - j) : t \in Terms(x)}
          PROVE  MetBy(V, RangeFacts(x) \union UNION E)
        <3>1. Shown(x)
            BY <2>3
        <3>2. ASSUME NEW t \in Terms(x) PROVE MetBy(V, Equal(Length(w), t.atom, t.offset - j))
            <4>1. /\ t.atom \in Atoms /\ t.offset \in Int /\ V[t.atom] \in Int
                  /\ V[t.atom] + t.offset = env[x]
                BY <3>1 DEF Shown
            <4>2. V[Length(w)] = V[t.atom] + (t.offset - j) /\ t.offset - j \in Int
                BY <2>2, <2>8, <4>1
            <4> QED BY <1>1, <2>2, <4>1, <4>2, EqualMet
        <3>3. \A X \in E : MetBy(V, X)
            BY <2>8, <3>2
        <3>4. MetBy(V, UNION E)
            BY <3>3, UnionsMet
        <3>5. MetBy(V, RangeFacts(x))
            BY <2>8, RangesMet
        <3> QED BY <3>4, <3>5, UnionMet
    <2>9. CASE Makes[w].op = "extract3"
        <3> DEFINE E == {Equal(Length(w), t.atom, t.offset) : t \in Terms(in(1))}
        <3>1. S = RangeFacts(in(1)) \union UNION E
            BY <2>9 DEF StructuralFacts
        <3>2. Shown(in(1)) /\ Shown(in(2)) /\ in(1) \in InputsOf(w)
            <4>1. 1 \in 1..3
                OBVIOUS
            <4> QED BY <1>2, <2>4, <2>9, <4>1
        <3>3. w \in Sites /\ in(1) \in Indices(w)
            <4>1. 1 \in 1..(3 - 1)
                OBVIOUS
            <4> QED BY <1>2, <2>9, <4>1 DEF Sites, ByteOps, Slices, Indices
        <3>4. env[w] = (env[in(2)] + env[in(1)]) - env[in(2)]
            BY <2>1, <2>9 DEF Outputs, Slices, Window
        <3> HIDE DEF in, S
        <3>5. env[w] = env[in(1)] - 0
            BY <3>2, <3>4 DEF Shown
        <3>6. E = {Equal(Length(w), t.atom, t.offset - 0) : t \in Terms(in(1))}
            <4>1. \A t \in Terms(in(1)) : t.offset - 0 = t.offset
                BY <3>2 DEF Shown
            <4> QED BY <4>1
        <3> HIDE DEF E
        <3>7. MetBy(V, RangeFacts(in(1)) \union UNION E)
            <4>1. \A j \in Int : j = 0 => env[w] = env[in(1)] - j
                               /\ E = {Equal(Length(w), t.atom, t.offset - j) : t \in Terms(in(1))}
                BY <3>5, <3>6
            <4>2. PICK j \in Int : j = 0
                OBVIOUS
            <4>3. /\ env[w] = env[in(1)] - j
                  /\ E = {Equal(Length(w), t.atom, t.offset - j) : t \in Terms(in(1))}
                BY <4>1, <4>2
            <4> QED BY <2>8, <3>2, <3>3, <4>3
        <3>8. MetBy(V, S)
            BY <3>1, <3>7
        <3> QED BY <3>8 DEF S
    <2>10. CASE Makes[w].op = "substring3"
        <3>1. CASE IsInt(in(2))
            <4> DEFINE E == {Equal(Length(w), t.atom, t.offset - Constant(in(2))) : t \in Terms(in(1))}
            <4>1. S = RangeFacts(in(1)) \union UNION E
                BY <2>10, <3>1 DEF StructuralFacts
            <4>2. Shown(in(1)) /\ Shown(in(2)) /\ in(1) \in InputsOf(w)
                <5>1. 1 \in 1..3
                    OBVIOUS
                <5> QED BY <1>2, <2>4, <2>10, <5>1
            <4>3. w \in Sites /\ in(1) \in Indices(w)
                <5>1. 1 \in 1..(3 - 1)
                    OBVIOUS
                <5> QED BY <1>2, <2>10, <5>1 DEF Sites, ByteOps, Slices, Indices
            <4>4. env[w] = env[in(1)] - env[in(2)]
                BY <2>1, <2>10 DEF Outputs, Slices, Window
            <4> HIDE DEF in, S
            <4>5. Constant(in(2)) \in Int /\ env[w] = env[in(1)] - Constant(in(2))
                BY <3>1, <4>2, <4>4 DEF Shown
            <4>6. E = {Equal(Length(w), t.atom, t.offset - Constant(in(2))) : t \in Terms(in(1))}
                OBVIOUS
            <4> HIDE DEF E
            <4>7. MetBy(V, S)
                BY <2>8, <4>1, <4>2, <4>3, <4>5, <4>6
            <4> QED BY <4>7 DEF S
        <3>2. CASE ~ IsInt(in(2))
            <4>1. S = {}
                BY <2>10, <3>2 DEF StructuralFacts
            <4> QED BY <4>1, NoneMet
        <3> QED BY <3>1, <3>2
    <2>11. CASE Makes[w].op = "extract"
        <3>1. Shown(in(1)) /\ BufferOf(Makes[w]) = in(1)
            BY <1>2, <2>4, <2>11 DEF BufferOf
        <3>2. env[w] = (IF imm[2] = 0 THEN env[in(1)] ELSE imm[1] + imm[2]) - imm[1]
            BY <2>1, <2>11, <3>1 DEF Outputs, Slices, Window
        <3>3. imm[1] \in Nat /\ imm[2] \in Nat
            BY <1>2, <2>11
        <3>4. CASE imm[2] = 0
            <4>1. S = Equal(Length(w), Length(in(1)), -imm[1])
                BY <2>11, <3>4 DEF StructuralFacts
            <4> HIDE DEF S, in, imm
            <4>2. /\ Length(in(1)) \in Atoms /\ -imm[1] \in Int
                  /\ V[Length(w)] = V[Length(in(1))] + (-imm[1])
                BY <2>2, <3>1, <3>2, <3>3, <3>4 DEF Shown
            <4>3. MetBy(V, S)
                BY <1>1, <2>2, <4>1, <4>2, EqualMet
            <4> QED BY <4>3 DEF S
        <3>5. CASE imm[2] # 0
            <4>1. S = Equal(Length(w), Origin, imm[2])
                BY <2>11, <3>5 DEF StructuralFacts
            <4> HIDE DEF S, in, imm
            <4>2. imm[2] \in Int /\ V[Length(w)] = V[Origin] + imm[2]
                BY <1>1, <2>2, <3>2, <3>3, <3>5
            <4>3. MetBy(V, S)
                BY <1>1, <2>2, <4>1, <4>2, EqualMet
            <4> QED BY <4>3 DEF S
        <3> QED BY <3>4, <3>5
    <2>12. CASE Makes[w].op = "substring"
        <3>1. env[w] = imm[2] - imm[1] /\ imm[1] \in Nat /\ imm[2] \in Nat
            BY <1>2, <2>1, <2>12 DEF Outputs, Slices, Window
        <3>2. S = Equal(Length(w), Origin, imm[2] - imm[1])
            BY <2>12 DEF StructuralFacts
        <3> HIDE DEF S, imm
        <3>3. imm[2] - imm[1] \in Int /\ V[Length(w)] = V[Origin] + (imm[2] - imm[1])
            BY <1>1, <2>2, <3>1
        <3>4. MetBy(V, S)
            BY <1>1, <2>2, <3>2, <3>3, EqualMet
        <3> QED BY <3>4 DEF S
    <2>13. CASE Makes[w].op \notin {"len", "+", "-"} \union Slices
        <3>1. S = {}
            BY <1>1, <2>13, StructuralShape
        <3> QED BY <3>1, NoneMet
    <2> QED BY <2>5, <2>6, <2>7, <2>9, <2>10, <2>11, <2>12, <2>13 DEF Slices
<1> QED BY <1>4, <1>5

\* The base of an access is one of its indices.
LEMMA BaseIsIndex ==
    ASSUME NEW v \in Leaves, Makes[v].op \in ByteOps
    PROVE  Access(v).base \subseteq Indices(v)
<1> DEFINE in(i) == Makes[v].ins[i]
<1>1. /\ Makes[v].op \in {"getbyte", "extract_uint16"} => Len(Makes[v].ins) = 2
      /\ Makes[v].op \in {"extract3", "substring3", "setbyte"} => Len(Makes[v].ins) = 3
    BY AccessOperands
<1>2. /\ Len(Makes[v].ins) \in {2, 3} => in(1) \in Indices(v)
      /\ Len(Makes[v].ins) = 3 => in(2) \in Indices(v)
    <2>1. 1 \in 1..(2 - 1) /\ 1 \in 1..(3 - 1) /\ 2 \in 1..(3 - 1)
        OBVIOUS
    <2> QED BY <2>1 DEF Indices
<1>3. CASE Makes[v].op \in {"extract", "substring"}
    BY <1>3 DEF Access
<1>4. CASE Makes[v].op = "extract3"
    <2>1. Access(v).base \subseteq {in(1), in(2)}
        BY <1>4 DEF Access
    <2> QED BY <1>1, <1>2, <1>4, <2>1
<1>5. CASE Makes[v].op \in {"substring3", "getbyte", "extract_uint16"}
    <2>1. Access(v).base \subseteq {in(1)}
        BY <1>5 DEF Access
    <2> QED BY <1>1, <1>2, <1>5, <2>1
<1>6. CASE Makes[v].op = "setbyte"
    <2>1. Access(v).base \subseteq {in(2)}
        BY <1>6 DEF Access
    <2> QED BY <1>1, <1>2, <1>6, <2>1
<1> QED BY <1>3, <1>4, <1>5, <1>6 DEF ByteOps, Slices

\* What a comparison that holds says is so.
LEMMA CmpMet ==
    ASSUME NEW V \in [Atoms -> Int], NEW a \in [atom : Atoms, offset : Int],
           NEW b \in [atom : Atoms, offset : Int], NEW op \in CmpOps,
           Compares(op, At(V, a), At(V, b))
    PROVE  MetBy(V, CmpFacts(op, a, b))
<1>1. /\ a.atom \in Atoms /\ b.atom \in Atoms /\ a.offset \in Int /\ b.offset \in Int
      /\ V[a.atom] \in Int /\ V[b.atom] \in Int
    OBVIOUS
<1>2. Compares(op, V[a.atom] + a.offset, V[b.atom] + b.offset)
    BY DEF At
<1>3. CASE op = "<"
    <2>1. V[a.atom] - V[b.atom] <= b.offset - a.offset - 1 /\ b.offset - a.offset - 1 \in Int
        BY <1>1, <1>2, <1>3 DEF Compares
    <2>2. MetBy(V, {Diff(a.atom, b.atom, b.offset - a.offset - 1)})
        BY <1>1, <2>1, DiffMet
    <2> QED BY <1>3, <2>2 DEF CmpFacts
<1>4. CASE op = "<="
    <2>1. V[a.atom] - V[b.atom] <= b.offset - a.offset /\ b.offset - a.offset \in Int
        BY <1>1, <1>2, <1>4 DEF Compares
    <2>2. MetBy(V, {Diff(a.atom, b.atom, b.offset - a.offset)})
        BY <1>1, <2>1, DiffMet
    <2> QED BY <1>4, <2>2 DEF CmpFacts
<1>5. CASE op = ">"
    <2>1. V[b.atom] - V[a.atom] <= a.offset - b.offset - 1 /\ a.offset - b.offset - 1 \in Int
        BY <1>1, <1>2, <1>5 DEF Compares
    <2>2. MetBy(V, {Diff(b.atom, a.atom, a.offset - b.offset - 1)})
        BY <1>1, <2>1, DiffMet
    <2> QED BY <1>5, <2>2 DEF CmpFacts
<1>6. CASE op = ">="
    <2>1. V[b.atom] - V[a.atom] <= a.offset - b.offset /\ a.offset - b.offset \in Int
        BY <1>1, <1>2, <1>6 DEF Compares
    <2>2. MetBy(V, {Diff(b.atom, a.atom, a.offset - b.offset)})
        BY <1>1, <2>1, DiffMet
    <2> QED BY <1>6, <2>2 DEF CmpFacts
<1>7. CASE op = "=="
    <2>1. V[a.atom] = V[b.atom] + (b.offset - a.offset) /\ b.offset - a.offset \in Int
        BY <1>1, <1>2, <1>7 DEF Compares
    <2>2. MetBy(V, Equal(a.atom, b.atom, b.offset - a.offset))
        BY <1>1, <2>1, EqualMet
    <2> QED BY <1>7, <2>2 DEF CmpFacts
<1>8. CASE op = "!="
    BY <1>8, NoneMet DEF CmpFacts
<1> QED BY <1>3, <1>4, <1>5, <1>6, <1>7, <1>8 DEF CmpOps

\* A guard that comes first has been passed.
LEMMA AssertMet ==
    ASSUME InOrderRun, NEW V, Suits(V), NEW g \in Asserting, Dominates(g, at)
    PROVE  MetBy(V, AssertFacts(g))
<1> DEFINE c == B(g).cond
           d == Def[c]
           Fixedly == {[atom |-> Origin, offset |-> d.k]}
           left  == IF Len(d.args) = 1 /\ d.constFirst THEN Fixedly ELSE Terms(d.args[1])
           right == IF Len(d.args) = 2 THEN Terms(d.args[2])
                    ELSE IF d.constFirst THEN Terms(d.args[1]) ELSE Fixedly
           Stands(S, n) == \A t \in S : /\ t.atom \in Atoms /\ t.offset \in Int /\ V[t.atom] \in Int
                                        /\ At(V, t) = n
           Facts == {CmpFacts(d.op, a, b) : a \in left, b \in right}
<1>1. /\ c \in Value /\ Tests(g) = Computing(c) /\ env \in [Leaves -> Nat]
      /\ V \in [Atoms -> Int] /\ V[Origin] = 0
    BY OrderlyFacts, AssertingFacts, EvalIsUint DEF Suits
<1>2. Tests(g) \cap Leaves \subseteq Settled /\ Eval(env)[c] # 0
    BY TestsSettled
<1> HIDE DEF c
<1>3. ASSUME NEW v \in Value, v \in Leaves => v \in Tests(g) PROVE Stands(Terms(v), Eval(env)[v])
    <2>1. v \in Leaves => v \in Settled
        BY <1>2, <1>3
    <2> QED BY <2>1, TermsSuit
<1>4. \A i \in DOMAIN d.args : d.args[i] \in Value => d.args[i] \in Tests(g)
    <2> SUFFICES ASSUME NEW i \in DOMAIN d.args, d.args[i] \in Value PROVE d.args[i] \in Tests(g)
        OBVIOUS
    <2> DEFINE y == d.args[i]
               parts(j) == Computing(d.args[j])
    <2>1. Computing(c) = {c} \union UNION {parts(j) : j \in DOMAIN d.args}
        BY <1>1, ComputingSteps
    <2>2. y \in parts(i)
        BY ComputingSteps
    <2> HIDE DEF y, parts
    <2>3. y \in Computing(c)
        BY <2>1, <2>2
    <2> QED BY <1>1, <2>3 DEF y
<1>5. /\ d.op # "leaf" => d.args[1] \in Value /\ 1 \in DOMAIN d.args
      /\ Len(d.args) = 2 => d.args[2] \in Value /\ 2 \in DOMAIN d.args
      /\ d.op \in CmpOps => Len(d.args) \in {1, 2}
      /\ d.k \in Int /\ d.constFirst \in BOOLEAN
    BY <1>1, OperandsOf, MaxIntIsPositive DEF Uint
<1>6. CASE d.op \in CmpOps
    <2>1. /\ d.args[1] \in Value /\ Stands(Terms(d.args[1]), Eval(env)[d.args[1]])
          /\ Len(d.args) = 2 => Stands(Terms(d.args[2]), Eval(env)[d.args[2]])
        <3>1. d.op # "leaf"
            BY <1>6 DEF CmpOps
        <3> HIDE DEF d, Stands
        <3> QED BY <1>3, <1>4, <1>5, <3>1
    <2>2. Stands(Fixedly, d.k)
        <3>1. Origin \in Atoms
            BY DEF Atoms
        <3> QED BY <1>1, <1>5, <3>1 DEF At
    <2>3. \E m, n : Stands(left, m) /\ Stands(right, n) /\ Compares(d.op, m, n)
        <3>1. /\ Len(d.args) = 2 =>
                     Compares(d.op, Eval(env)[d.args[1]], Eval(env)[d.args[2]])
              /\ Len(d.args) # 2 /\ d.constFirst => Compares(d.op, d.k, Eval(env)[d.args[1]])
              /\ Len(d.args) # 2 /\ ~ d.constFirst => Compares(d.op, Eval(env)[d.args[1]], d.k)
            BY <1>1, <1>2, <1>6, OperateSteps
        <3>2. CASE Len(d.args) = 2
            <4>1. left = Terms(d.args[1]) /\ right = Terms(d.args[2])
                BY <3>2
            <4> HIDE DEF d, Stands, left, right
            <4> QED BY <2>1, <3>1, <3>2, <4>1
        <3>3. CASE Len(d.args) # 2 /\ d.constFirst
            <4>1. left = Fixedly /\ right = Terms(d.args[1])
                BY <1>5, <1>6, <3>3
            <4> HIDE DEF d, Stands, left, right, Fixedly
            <4> QED BY <2>1, <2>2, <3>1, <3>3, <4>1
        <3>4. CASE Len(d.args) # 2 /\ ~ d.constFirst
            <4>1. left = Terms(d.args[1]) /\ right = Fixedly
                BY <1>5, <1>6, <3>4
            <4> HIDE DEF d, Stands, left, right, Fixedly
            <4> QED BY <2>1, <2>2, <3>1, <3>4, <4>1
        <3> HIDE DEF left, right
        <3> QED BY <1>5, <3>2, <3>3, <3>4
    <2>4. PICK m, n : Stands(left, m) /\ Stands(right, n) /\ Compares(d.op, m, n)
        BY <2>3
    <2>5. AssertFacts(g) = UNION Facts
        BY <1>6 DEF AssertFacts, c
    <2>6. \A t \in left \union right : t = [atom |-> t.atom, offset |-> t.offset]
        BY DEF Terms
    <2> HIDE DEF left, right, d
    <2>7. ASSUME NEW a \in left, NEW b \in right PROVE MetBy(V, CmpFacts(d.op, a, b))
        <3>1. a \in [atom : Atoms, offset : Int] /\ b \in [atom : Atoms, offset : Int]
            BY <2>4, <2>6
        <3>2. Compares(d.op, At(V, a), At(V, b))
            BY <2>4
        <3> QED BY <1>1, <1>6, <3>1, <3>2, CmpMet
    <2>8. \A X \in Facts : MetBy(V, X)
        BY <2>7
    <2> HIDE DEF Facts
    <2> QED BY <2>5, <2>8, UnionsMet
<1>7. CASE d.op \notin CmpOps
    <2>1. AssertFacts(g) = {Diff(Origin, Number(w), -1) : w \in {c} \ Phis}
        BY <1>7 DEF AssertFacts, c
    <2>2. V[Number(c)] = Eval(env)[c]
        <3>1. CASE c \in Leaves
            <4>1. c \in Tests(g)
                BY <1>1, ComputingSteps
            <4>2. c \in Settled /\ Eval(env)[c] = env[c]
                BY <1>1, <1>2, <3>1, <4>1, EvalSteps DEF Leaves
            <4> QED BY <4>2 DEF Suits
        <3>2. CASE c \notin Leaves
            BY <1>1, <3>2 DEF Suits
        <3> QED BY <3>1, <3>2
    <2>3. Eval(env)[c] \in Nat
        BY <1>1, EvalSteps
    <2>4. V[Origin] - V[Number(c)] <= -1 /\ -1 \in Int /\ Origin \in Atoms /\ Number(c) \in Atoms
        BY <1>1, <1>2, <2>2, <2>3 DEF Atoms
    <2>5. MetBy(V, {Diff(Origin, Number(c), -1)})
        BY <1>1, <2>4, DiffMet
    <2>6. AssertFacts(g) \subseteq {Diff(Origin, Number(c), -1)}
        BY <2>1
    <2> QED BY <2>5, <2>6, PartMet
<1> QED BY <1>6, <1>7

\* All that is known at the block the run is in is so.
LEMMA FactsMet ==
    ASSUME InOrderRun, FactsPrecede(at), NEW V, Suits(V)
    PROVE  MetBy(V, FactsAt(at))
<1> DEFINE structure == {StructuralFacts(v) : v \in Made}
           access(v) == BufferFacts(Buffer(v)) \union UNION {RangeFacts(w) : w \in Access(v).base}
           accesses == {access(v) : v \in Sites}
           asserts == {AssertFacts(g) : g \in {k \in Blocks : B(k).op = "assert" /\ Dominates(k, at)}}
<1>1. MetBy(V, UNION structure)
    <2>1. \A X \in structure : MetBy(V, X)
        BY StructureMet
    <2> QED BY <2>1, UnionsMet
<1>2. ASSUME NEW v \in Sites PROVE MetBy(V, access(v))
    <2>1. v \in Leaves /\ Makes[v].op \in ByteOps
        BY OrderlyFacts, LeavesOfPrograms DEF Sites
    <2>2. MetBy(V, BufferFacts(Buffer(v)))
        BY <2>1, AccessOperands, BufferMet
    <2>3. Access(v).base \subseteq Indices(v)
        BY <2>1, BaseIsIndex
    <2>4. \A X \in {RangeFacts(w) : w \in Access(v).base} : MetBy(V, X)
        BY <2>3, RangesMet
    <2>5. MetBy(V, UNION {RangeFacts(w) : w \in Access(v).base})
        BY <2>4, UnionsMet
    <2> QED BY <2>2, <2>5, UnionMet
<1>3. MetBy(V, UNION accesses)
    <2>1. \A X \in accesses : MetBy(V, X)
        <3> HIDE DEF access
        <3> QED BY <1>2
    <2> HIDE DEF accesses
    <2> QED BY <2>1, UnionsMet
<1>4. MetBy(V, UNION asserts)
    <2>1. \A X \in asserts : MetBy(V, X)
        BY AssertMet DEF Asserting
    <2> HIDE DEF asserts
    <2> QED BY <2>1, UnionsMet
<1>5. FactsAt(at) = ((UNION structure) \union UNION accesses) \union UNION asserts
    BY DEF FactsAt, GlobalFacts
<1> HIDE DEF structure, accesses, asserts
<1>6. MetBy(V, (UNION structure) \union UNION accesses)
    BY <1>1, <1>3, UnionMet
<1> QED BY <1>4, <1>5, <1>6, UnionMet

-----------------------------------------------------------------------------
(* What check_bounds reports of the accesses of a run.                     *)

\* The slices the run has made have the lengths their operations give them.
LEMMA CutsSuit ==
    ASSUME InOrderRun, NEW V, Suits(V), NEW w \in Settled, IsVar(w)
    PROVE  CutSays(V, w) /\ (ReachesEnd(w) => Makes[w].ins[1] \in Settled)
<1> DEFINE in(i) == Makes[w].ins[i]
           imm == Makes[w].imm
<1>1. w \in Leaves /\ env \in [Leaves -> Nat] /\ w \notin Phis
    BY OrderlyFacts, EvalIsUint DEF Settled, IsVar
<1>2. CASE w \in Fixed
    <2>1. Makes[w].op \notin Slices
        BY <1>2, FixedAreRead DEF Slices
    <2> QED BY <2>1 DEF CutSays, ReachesEnd, Slices
<1>3. CASE w \notin Fixed
    <2>1. w \in Changing /\ Behind(w)
        BY <1>1, <1>3 DEF Changing, Settled
    <2>2. w \in Made
        BY <1>1, <2>1, BehindIsMade DEF WellMade
    <2>3. InputsOf(w) \subseteq Settled /\ env[w] \in Outputs(Makes[w], env, Readable[w])
        BY <2>2, SettledInputs DEF Results
    <2>4. /\ Makes[w].op \in {"extract", "substring"} => Len(Makes[w].ins) = 1
          /\ Makes[w].op \in {"extract3", "substring3"} => Len(Makes[w].ins) = 3
          /\ \A i \in 1..Len(Makes[w].ins) : in(i) \in InputsOf(w)
          /\ Makes[w].op \in {"extract", "substring"} => imm[1] \in Nat /\ imm[2] \in Nat
        BY <1>1, LeafOperands
    <2>5. V[Length(w)] = env[w]
        BY DEF Suits
    <2> DEFINE Shown(x) == /\ env[x] \in Nat /\ V[Length(x)] = env[x]
                           /\ \A t \in Terms(x) : At(V, t) = env[x]
    <2>6. ASSUME NEW x \in InputsOf(w) PROVE Shown(x)
        <3>1. x \in Settled /\ x \in Leaves /\ x \in Value
            BY <2>3 DEF Settled, Leaves
        <3>2. Eval(env)[x] = env[x]
            BY <1>1, <3>1, EvalSteps DEF Leaves
        <3> QED BY <1>1, <3>1, <3>2, TermsSuit DEF Suits
    <2> HIDE DEF Shown
    <2>7. CASE Makes[w].op = "extract3"
        <3>1. 1 \in 1..3 /\ 2 \in 1..3
            OBVIOUS
        <3>2. Shown(in(1)) /\ Shown(in(2))
            BY <2>4, <2>6, <2>7, <3>1
        <3>3. env[w] = (env[in(2)] + env[in(1)]) - env[in(2)]
            BY <2>3, <2>7 DEF Outputs, Slices, Window
        <3>4. env[w] = env[in(1)]
            <4> HIDE DEF in
            <4> QED BY <3>2, <3>3 DEF Shown
        <3>5. \A t \in Terms(in(1)) : V[Length(w)] = At(V, t)
            BY <2>5, <3>2, <3>4 DEF Shown
        <3> QED BY <2>7, <3>5 DEF CutSays, ReachesEnd
    <2>8. CASE Makes[w].op = "substring3"
        <3>1. 1 \in 1..3 /\ 2 \in 1..3
            OBVIOUS
        <3>2. Shown(in(1)) /\ Shown(in(2))
            BY <2>4, <2>6, <2>8, <3>1
        <3>3. env[w] = env[in(1)] - env[in(2)]
            BY <2>3, <2>8 DEF Outputs, Slices, Window
        <3>4. \A t \in Terms(in(1)), s \in Terms(in(2)) : V[Length(w)] = At(V, t) - At(V, s)
            BY <2>5, <3>2, <3>3 DEF Shown
        <3> QED BY <2>8, <3>4 DEF CutSays, ReachesEnd
    <2>9. CASE Makes[w].op = "extract"
        <3>1. 1 \in 1..1 /\ BufferOf(Makes[w]) = in(1)
            BY <2>4, <2>9 DEF BufferOf
        <3>2. Shown(in(1)) /\ in(1) \in Settled
            BY <2>3, <2>4, <2>6, <2>9, <3>1
        <3>3. env[w] = (IF imm[2] = 0 THEN env[in(1)] ELSE imm[1] + imm[2]) - imm[1]
            BY <2>3, <2>9, <3>1 DEF Outputs, Slices, Window
        <3>4. V[Length(w)] = IF imm[2] = 0 THEN V[Length(in(1))] - imm[1] ELSE imm[2]
            <4>1. imm[1] \in Nat /\ imm[2] \in Nat
                BY <2>4, <2>9
            <4> HIDE DEF in, imm
            <4> QED BY <2>5, <3>2, <3>3, <4>1 DEF Shown
        <3> QED BY <2>9, <3>2, <3>4 DEF CutSays
    <2>10. CASE Makes[w].op = "substring"
        <3>1. env[w] = imm[2] - imm[1]
            BY <2>3, <2>10 DEF Outputs, Slices, Window
        <3> QED BY <2>5, <2>10, <3>1 DEF CutSays, ReachesEnd
    <2>11. CASE Makes[w].op \notin Slices
        BY <2>11 DEF CutSays, ReachesEnd, Slices
    <2> QED BY <2>7, <2>8, <2>9, <2>10, <2>11 DEF Slices
<1> QED BY <1>2, <1>3

\* What is reported of an access from the facts at the block the run is in is so.
LEMMA RunVerdict ==
    ASSUME InOrderRun, FactsPrecede(at), NEW v \in B(at).defs, v \in Sites
    PROVE  /\ Verdict(FactsAt(at), v).inBounds => ~ Overreads(v)
           /\ Verdict(FactsAt(at), v).provenOob => Fails(v, env)
<1>1. PICK V : Suits(V)
    BY SomeSuit
<1> DEFINE facts == FactsAt(at)
<1>2. V \in [Atoms -> Int] /\ V[Origin] = 0
    BY <1>1 DEF Suits
<1>3. facts \in SUBSET FactsAbout(Atoms) /\ Meets(V, facts)
    <2>1. MetBy(V, facts)
        BY <1>1, FactsMet
    <2> HIDE DEF facts
    <2> QED BY <2>1 DEF MetBy
<1>4. v \in Leaves /\ Makes[v].op \in ByteOps
    BY OrderlyFacts, LeavesOfPrograms DEF Sites
<1>5. Settled \in SUBSET Leaves
    BY DEF Settled
<1>6. \A w \in Settled : IsVar(w) => CutSays(V, w) /\ (ReachesEnd(w) => Makes[w].ins[1] \in Settled)
    BY <1>1, CutsSuit
<1>7. Plain(env)
    BY ConstantsKept
<1>8. Buffer(v) \in InputsOf(v) /\ Indices(v) \subseteq InputsOf(v)
    <2>1. Makes[v].ins \in Seq(Leaves) /\ Len(Makes[v].ins) \in 1..3
        BY <1>4, AccessOperands
    <2>2. DOMAIN Makes[v].ins = 1..Len(Makes[v].ins)
        BY <2>1
    <2>3. Len(Makes[v].ins) \in DOMAIN Makes[v].ins
        <3>1. \A n \in 1..3 : n \in 1..n
            OBVIOUS
        <3> QED BY <2>1, <2>2, <3>1
    <2>4. \A i \in 1..(Len(Makes[v].ins) - 1) : i \in DOMAIN Makes[v].ins
        BY <2>1, <2>2
    <2> QED BY <2>3, <2>4 DEF Buffer, BufferOf, InputsOf, Indices
<1>9. InputsOf(v) \subseteq Settled
    BY OperandsSettled
<1>10. Buffer(v) \in Settled
    BY <1>8, <1>9
<1>11. Shows(V, env, Indices(v)) /\ V[Length(Buffer(v))] = env[Buffer(v)]
    BY <1>1, <1>8, <1>9 DEF Suits, Shows
<1> HIDE DEF facts
<1>12. /\ Verdict(facts, v).inBounds => ~ (Window(Makes[v], env).to > env[Buffer(v)])
       /\ Verdict(facts, v).provenOob => Fails(v, env)
    BY <1>2, <1>3, <1>4, <1>5, <1>6, <1>7, <1>10, <1>11, VerdictIsSound
<1> QED BY <1>12 DEF facts, Overreads

-----------------------------------------------------------------------------
(* The reports of a run's accesses rest on the ranges the analysis left.   *)

Reported == [v \in Sites |-> Verdict(FactsAt(DefinedIn(v)), v)]

\* Accesses are checked once no guard narrows any more, and before a run begins.
ReportInv ==
    /\ verdict = <<>> \/ (todo = <<>> /\ ~ changed /\ verdict = Reported)
    /\ mode # "analyse" => DOMAIN verdict = Sites

\* What would be reported depends on the program and its ranges alone.
LEMMA SameReport ==
    ASSUME UNCHANGED program, UNCHANGED range
    PROVE  Reported' = Reported
<1>1. /\ Blocks' = Blocks /\ Phis' = Phis /\ range' = range
      /\ \A b : B(b)' = B(b)
      /\ \A g, b : Dominates(g, b)' = Dominates(g, b)
      /\ Sites' = Sites /\ Made' = Made
    BY SameAnalysis, SameSites
<1>2. \A v : IsVar(v)' = IsVar(v) /\ Terms(v)' = Terms(v)
    BY <1>1 DEF IsVar, Terms
<1>3. \A v : RangeFacts(v)' = RangeFacts(v)
    BY <1>1, <1>2 DEF RangeFacts
<1>4. \A v : StructuralFacts(v)' = StructuralFacts(v)
    BY <1>2, <1>3 DEF StructuralFacts
<1>5. GlobalFacts' = GlobalFacts
    BY <1>1, <1>3, <1>4 DEF GlobalFacts
<1>6. \A g : AssertFacts(g)' = AssertFacts(g)
    <2> SUFFICES ASSUME NEW CONSTANT g PROVE AssertFacts(g)' = AssertFacts(g)
        OBVIOUS
    <2> DEFINE d == Def[B(g).cond]
    <2>1. B(g)' = B(g) /\ Phis' = Phis
        BY <1>1
    <2>2. d' = d
        BY <2>1
    <2>3. Terms(d.args[1])' = Terms(d.args[1]) /\ Terms(d.args[2])' = Terms(d.args[2])
        BY <1>2, <2>1
    <2> QED BY <2>1, <2>2, <2>3 DEF AssertFacts
<1>7. \A b : FactsAt(b)' = FactsAt(b)
    BY <1>1, <1>5, <1>6 DEF FactsAt
<1>8. \A v : DefinedIn(v)' = DefinedIn(v)
    BY <1>1 DEF DefinedIn
<1>9. \A acc : Needed(acc)' = Needed(acc)
    BY <1>2 DEF Needed
<1>10. \A v : ReachesEnd(v)' = ReachesEnd(v)
    BY <1>2 DEF ReachesEnd
<1>11. ASSUME NEW CONSTANT facts, NEW CONSTANT v, NEW CONSTANT atom, NEW CONSTANT n
       PROVE  ProvesCut(facts, v, atom, n)' <=> ProvesCut(facts, v, atom, n)
    <2>1. /\ Terms(Makes[v].ins[1])' = Terms(Makes[v].ins[1])
          /\ Terms(Makes[v].ins[2])' = Terms(Makes[v].ins[2])
        BY <1>2
    <2> QED BY <2>1 DEF ProvesCut
<1>12. ASSUME NEW CONSTANT facts, NEW CONSTANT buffer, NEW CONSTANT atom, NEW CONSTANT most
       PROVE  ProvesLength(facts, buffer, atom, most)' <=> ProvesLength(facts, buffer, atom, most)
    BY <1>2, <1>10, <1>11 DEF ProvesLength
<1>13. ASSUME NEW CONSTANT facts, NEW CONSTANT v
       PROVE  Verdict(facts, v)' = Verdict(facts, v)
    BY <1>9, <1>12 DEF Verdict
<1>14. \A v : Verdict(FactsAt(DefinedIn(v)), v)' = Verdict(FactsAt(DefinedIn(v)), v)
    BY <1>7, <1>8, <1>13
<1> QED BY <1>1, <1>14 DEF Reported

\* Every step keeps it.
LEMMA ReportStep == MachineInv /\ ReportInv /\ [BoundsNext]_boundsVars => ReportInv'
<1> SUFFICES ASSUME MachineInv, ReportInv, [BoundsNext]_boundsVars PROVE ReportInv'
    OBVIOUS
<1>1. UNCHANGED program /\ Sites' = Sites
    BY BoundsStep, TextStays, SameSites
<1>2. CASE Refine /\ UNCHANGED verdict
    <2>1. verdict = <<>>
        BY <1>2 DEF ReportInv, Refine
    <2> QED BY <1>1, <1>2, <2>1 DEF ReportInv, Refine, machineVars, runVars
<1>3. CASE AnotherRound /\ UNCHANGED verdict
    <2>1. verdict = <<>>
        BY <1>3 DEF ReportInv, AnotherRound
    <2> QED BY <1>1, <1>3, <2>1 DEF ReportInv, AnotherRound, machineVars, runVars
<1>4. CASE CheckBounds
    <2>1. /\ verdict' = Reported /\ todo' = <<>> /\ ~ changed' /\ range' = range /\ mode' = "analyse"
        BY <1>4 DEF CheckBounds, Reported, vars, analysisVars, machineVars, runVars
    <2> QED BY <1>1, <2>1, SameReport DEF ReportInv
<1>5. CASE Continue
    <2>1. /\ DOMAIN verdict = Sites /\ verdict' = verdict
          /\ todo' = todo /\ changed' = changed /\ range' = range
        BY <1>5 DEF Continue, Start, Execute, analysisVars
    <2> QED BY <1>1, <2>1, SameReport DEF ReportInv
<1>6. CASE UNCHANGED boundsVars
    <2>1. UNCHANGED <<verdict, todo, changed, range, mode>>
        BY <1>6 DEF boundsVars, vars, machineVars, runVars, analysisVars
    <2> QED BY <1>1, <2>1, SameReport DEF ReportInv
<1> QED BY <1>2, <1>3, <1>4, <1>5, <1>6 DEF BoundsNext, Analyse

\* What is reported stays what the ranges at the end of their analysis say.
THEOREM ReportInductive == BoundsSpec => []ReportInv
<1>1. BoundsInit => ReportInv
    BY DEF BoundsInit, Init, InitMachine, ReportInv
<1> QED BY <1>1, ReportStep, BoundsRefineRanges, MachineInductive, PTL DEF BoundsSpec

\* The run is in the block its access was checked for.
LEMMA ReportedHere ==
    ASSUME InOrderRun, ReportInv, NEW v \in B(at).defs, v \in Sites
    PROVE  verdict[v] = Verdict(FactsAt(at), v)
<1>1. /\ IsProgram(prog) /\ Graph /\ SingleAssignment /\ at \in Blocks /\ mode = "run"
      /\ v \in Leaves \ Fixed
    BY OrderlyFacts, LeavesOfPrograms DEF Sites
<1>2. DefinedIn(v) = at
    <2>1. DefinedIn(v) \in Blocks /\ v \in B(DefinedIn(v)).defs
        BY <1>1 DEF DefinedIn
    <2> QED BY <1>1, <2>1, OneDefinition DEF Definitions, Defines
<1>3. DOMAIN verdict = Sites
    BY <1>1 DEF ReportInv
<1>4. verdict # <<>>
    <2>1. DOMAIN <<>> = {}
        OBVIOUS
    <2> QED BY <1>3, <2>1
<1>5. verdict = Reported
    BY <1>4 DEF ReportInv
<1> QED BY <1>2, <1>5 DEF Reported

\* Where no routine calls itself: no access reported as in bounds is made beyond the end of its
\* buffer, and every access reported as out of bounds panics, where the operations the
\* program-wide facts rest on come first.
LEMMA ReportsHold ==
    MachineInv /\ AnalysisInv /\ RunsInRange /\ MadeInv /\ ReportInv => InBoundsHolds /\ ProvenOobHolds
<1> SUFFICES ASSUME MachineInv, AnalysisInv, RunsInRange, MadeInv, ReportInv, mode = "run",
                    NEW v \in B(at).defs, v \in Sites, FactsPrecede(at)
             PROVE  /\ verdict[v].inBounds => ~ Overreads(v)
                    /\ verdict[v].provenOob => Fails(v, env)
    BY DEF InBoundsHolds, ProvenOobHolds
<1>1. InOrderRun
    BY RunsAreRunning DEF InOrderRun
<1> QED BY <1>1, ReportedHere, RunVerdict

\* An access reported as in bounds is not made beyond the end of its buffer.
THEOREM InBoundsSound == BoundsSpec /\ CallsDoNotRecur => []InBoundsHolds
BY ReportsHold, ReportInductive, BoundsRefineRanges, MachineInductive, AnalysisInductive, RunInductive,
   MadeInductive, PTL

\* An access reported as out of bounds panics.
THEOREM ProvenOobSound == BoundsSpec /\ CallsDoNotRecur => []ProvenOobHolds
BY ReportsHold, ReportInductive, BoundsRefineRanges, MachineInductive, AnalysisInductive, RunInductive,
   MadeInductive, PTL

=============================================================================
