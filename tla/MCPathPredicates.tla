-------------------------- MODULE MCPathPredicates --------------------------
(* Block programs for TLC: every short one of three families, and           *)
(* hand-made ones with carried facts, seeds and values kept across calls.   *)
EXTENDS PathPredicates, BlockPrograms, SequencesExt

\* x reads a transaction field, y and z something a run may read differently each
\* time; m is a phi.
Defs ==
    "x" :> Leaf @@ "y" :> Leaf @@ "z" :> Leaf @@ "m" :> Leaf @@ "one" :> Leaf
    @@ "1<x"   :> CompareConst(1, "<", "x")
    @@ "y<=1"  :> Compare("y", "<=", 1)
    @@ "y<x"   :> Connect("<", <<"y", "x">>)
    @@ "!x"    :> Connect("!", <<"x">>)
    @@ "x||!x" :> Connect("||", <<"1<x", "!x">>)
    @@ "x&&y"  :> Connect("&&", <<"x", "y<=1">>)

Values   == DOMAIN Defs
Anything == [l \in {"x", "y", "z", "m"} |-> 0..2] @@ "one" :> {1}
Inputs   == [l \in {"x", "y", "z", "m"} |-> [op |-> "read", ins |-> <<>>, imm |-> <<>>]]
                @@ "one" :> [op |-> "int", ins |-> <<>>, imm |-> <<1>>]

\* Branches on connectives; y is read afresh at every turn.
Branching ==
    {Code(s \o <<Simple("return")>>) :
        s \in [1..3 -> {Simple("next"), Simple("return"), Require("!x"), Require("1<x")}
                          \union {On("bnz", "x||!x", t) : t \in 1..4}
                          \union {On("bz", "x", t) : t \in 1..4}
                          \union {Defining({"y"}, On("bz", "x&&y", t)) : t \in {1, 4}}
                          \union {Defining({"y"}, Require("y<x"))}]}

Calls(n) ==
    {Code(s \o <<end>>) :
        s \in [1 .. n - 1 -> {Simple("next"), Simple("retsub"), Simple("return"), Require("1<x")}
                                \union {Jump("callsub", t) : t \in {n - 1, n}}
                                \union {On("bnz", "x", t) : t \in {1, n - 1}}],
        end \in {Simple("return"), Simple("retsub")}}

\* One switch or match, any arms, before a join.  A match pops one candidate per arm.
MultiWays ==
    {Code(<<first, mid, Simple("next"), Require("1<x"), Simple("return")>>) :
        mid \in {Require("x"), Jump("b", 4), Jump("b", 1)},
        first \in {Switch("x", arms) : arms \in BoundedSeq(2..4, 3)}
                     \union {Match("x", <<t>>, <<c>>) : t \in 2..4, c \in 0..2}
                     \union {Match("x", <<t, u>>, <<c, d>>) :
                                t \in 2..4, u \in 2..4, c \in 0..2, d \in 0..2}}

\* A loop that calls what was called once before the guard.
GuardedLoop ==
    Code(<<Jump("callsub", 7), Require("x"), Defining({"y"}, On("bz", "y", 6)),
           Jump("callsub", 7), Jump("b", 3), Simple("return"), Simple("retsub")>>)

\* The entry block is a loop head, and the caller of the analysis knows x < 2.
SeededLoop ==
    [blocks |-> <<Defining({"y"}, On("bnz", "y<=1", 3)), Jump("b", 1), Simple("return")>>,
     entry  |-> {Pred("x", "lt", {2})},
     seeds  |-> 3 :> {Pred("y", "le", {1})}]

\* y is kept on the stack across a call.
Kept ==
    Code(<<Defining({"y"}, Simple("next")), On("bz", "y", 5), Jump("callsub", 6),
           Require("y<=1"), Simple("return"),
           Defining({"z"}, On("bz", "z", 8)), Require("1<x"), Simple("retsub")>>)

\* y and z are kept across a recursive call.
Recursion ==
    Code(<<Jump("callsub", 3), Simple("return"),
           Defining({"y", "z"}, On("bz", "z", 6)), Jump("callsub", 3), Jump("b", 6),
           Require("y"), Simple("retsub")>>)

\* m is the field or one; what is known of it is carried over a call in a loop, of a
\* routine that was also called before m was made.
RootedPhi ==
    Code(<<Jump("callsub", 9), On("bnz", "x", 4), Simple("next"),
           Merging({<<"m", 2, "x">>, <<"m", 3, "one">>}, Require("m")),
           Jump("callsub", 9), On("bz", "m", 8), Jump("b", 5), Simple("return"),
           Simple("retsub")>>)

\* m is made by the routine, anew each time it is called.
ReturnedPhi ==
    Code(<<Jump("callsub", 4), Jump("callsub", 4), Simple("return"),
           Defining({"y"}, On("bnz", "y", 6)), Simple("next"),
           Merging({<<"m", 4, "x">>, <<"m", 5, "one">>}, Require("m")), Simple("retsub")>>)

AllPrograms ==
    Branching \union Calls(4) \union MultiWays
        \union {GuardedLoop, SeededLoop, Kept, RootedPhi, ReturnedPhi}

RecursivePrograms == {Kept, Recursion}

=============================================================================
