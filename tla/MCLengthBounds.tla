--------------------------- MODULE MCLengthBounds ---------------------------
(* Guarded programs for TLC: short ones around one value and around one byte *)
(* string, and hand-written ones with phis, chains of comparisons, slices of *)
(* slices, loops and calls.                                                  *)
EXTENDS LengthBounds, BlockPrograms, TLC

Op(op, ins, imm) == [op |-> op, ins |-> ins, imm |-> imm]

\* What makes the values of the accesses: x and y are integers, buf an argument of the
\* call, of any length; hash has a known least length.
Making ==
    "zero" :> Op("int", <<>>, <<0>>) @@ "one" :> Op("int", <<>>, <<1>>)
    @@ "two" :> Op("int", <<>>, <<2>>) @@ "lit" :> Op("bytes", <<>>, <<3>>)
    @@ "n"   :> Op("len", <<"buf">>, <<>>)
    @@ "x+1" :> Op("+", <<"one", "x">>, <<>>)
    @@ "n-2" :> Op("-", <<"two", "n">>, <<>>)
    @@ "2-x" :> Op("-", <<"x", "two">>, <<>>)
    @@ "2-n" :> Op("-", <<"n", "two">>, <<>>)
    @@ "n*x" :> Op("*", <<"x", "n">>, <<>>)
    @@ "n/2" :> Op("/", <<"two", "n">>, <<>>)
    @@ "n%2" :> Op("%", <<"two", "n">>, <<>>)
    @@ "buf[:2]"  :> Op("extract", <<"buf">>, <<0, 2>>)
    @@ "buf[:3]"  :> Op("extract", <<"buf">>, <<0, 3>>)
    @@ "buf[1:]"  :> Op("extract", <<"buf">>, <<1, 0>>)
    @@ "buf[3:]"  :> Op("extract", <<"buf[1:]">>, <<2, 0>>)
    @@ "buf[3:4]" :> Op("extract", <<"buf[3:]">>, <<0, 1>>)
    @@ "buf[1:3]" :> Op("substring", <<"buf">>, <<1, 3>>)
    @@ "buf[2:1]" :> Op("substring", <<"buf">>, <<2, 1>>)
    @@ "buf[:n]"  :> Op("extract3", <<"n", "zero", "buf">>, <<>>)
    @@ "buf[2:n]" :> Op("extract3", <<"n-2", "two", "buf">>, <<>>)
    @@ "buf[:2-x]" :> Op("extract3", <<"2-x", "zero", "buf">>, <<>>)
    @@ "buf[x:][:y]"  :> Op("extract3", <<"y", "x", "buf">>, <<>>)
    @@ "buf[x:y]" :> Op("substring3", <<"y", "x", "buf">>, <<>>)
    @@ "buf[1:y]" :> Op("substring3", <<"y", "one", "buf">>, <<>>)
    @@ "buf[x:y][0]" :> Op("extract", <<"buf[x:y]">>, <<0, 1>>)
    @@ "buf[x:][:y][x]" :> Op("getbyte", <<"x", "buf[x:][:y]">>, <<>>)
    @@ "buf[1:y][x]" :> Op("getbyte", <<"x", "buf[1:y]">>, <<>>)
    @@ "buf[x]"   :> Op("getbyte", <<"x", "buf">>, <<>>)
    @@ "buf[x+1]" :> Op("getbyte", <<"x+1", "buf">>, <<>>)
    @@ "buf[n-2]" :> Op("getbyte", <<"n-2", "buf">>, <<>>)
    @@ "buf[n/2]" :> Op("getbyte", <<"n/2", "buf">>, <<>>)
    @@ "buf[n%2]" :> Op("extract_uint16", <<"n%2", "buf">>, <<>>)
    @@ "buf[m]"   :> Op("getbyte", <<"m", "buf">>, <<>>)
    @@ "buf[m+1]" :> Op("getbyte", <<"m+1", "buf">>, <<>>)
    @@ "m+1"      :> Op("+", <<"one", "m">>, <<>>)
    @@ "set"      :> Op("setbyte", <<"b", "x", "buf">>, <<>>)
    @@ "word"     :> Op("extract_uint16", <<"x", "buf">>, <<>>)
    @@ "lit[x]"   :> Op("getbyte", <<"x", "lit">>, <<>>)
    @@ "lit[x:]"  :> Op("extract3", <<"one", "x", "lit">>, <<>>)
    @@ "lit[:4]"  :> Op("extract", <<"lit">>, <<0, 4>>)
    @@ "lit[1:3]" :> Op("substring", <<"lit">>, <<1, 3>>)
    @@ "hash[:2]" :> Op("extract", <<"hash">>, <<0, 2>>)
    @@ "hash[:3]" :> Op("extract", <<"hash">>, <<0, 3>>)

Named ==
    {"zero", "one", "two", "lit", "n", "x+1", "n-2", "2-x", "2-n", "n*x", "n/2", "n%2",
     "buf[:2]", "buf[:3]", "buf[1:]", "buf[3:]", "buf[3:4]", "buf[1:3]", "buf[2:1]",
     "buf[:n]", "buf[2:n]", "buf[:2-x]", "buf[x:][:y]", "buf[x:y]", "buf[1:y]",
     "buf[x:y][0]", "buf[x:][:y][x]", "buf[1:y][x]", "buf[x]", "buf[x+1]", "buf[n-2]",
     "buf[n/2]", "buf[n%2]", "buf[m]", "buf[m+1]", "m+1", "set", "word", "lit[x]",
     "lit[x:]", "lit[:4]", "lit[1:3]", "hash[:2]", "hash[:3]"}

Inputs == {"x", "y", "b", "buf", "hash", "m"}

Defs ==
    [v \in Inputs \union Named |-> Leaf]
    @@ "x<2"  :> Compare("x", "<", 2)
    @@ "1<=x" :> CompareConst(1, "<=", "x")
    @@ "x<b"  :> Connect("<", <<"x", "b">>)
    @@ "x<x"  :> Connect("<", <<"x", "x">>)
    @@ "x<y"  :> Connect("<", <<"x", "y">>)
    @@ "y<x"  :> Connect("<", <<"y", "x">>)
    @@ "y<2"  :> Compare("y", "<", 2)
    @@ "x<n"  :> Connect("<", <<"x", "n">>)
    @@ "1<=m" :> CompareConst(1, "<=", "m")
    @@ "n>m"  :> Connect(">", <<"n", "m">>)
    @@ "m+1<n" :> Connect("<", <<"m+1", "n">>)
    @@ "x+1<=n" :> Connect("<=", <<"x+1", "n">>)
    @@ "x+1<=y" :> Connect("<=", <<"x+1", "y">>)
    @@ "y<=n" :> Connect("<=", <<"y", "n">>)
    @@ "2<=n" :> CompareConst(2, "<=", "n")
    @@ "n==4" :> Compare("n", "==", 4)
    @@ "n<2"  :> Compare("n", "<", 2)

Values == DOMAIN Defs

Makings == [v \in Inputs |-> Op("read", <<>>, <<>>)] @@ Making

Lengths == {0, 1, 2, 4}

Reading ==
    [v \in Inputs \union Named |->
        CASE v \in {"x", "y", "m"} -> {0, 1, 2, 31}
          [] v = "b"    -> 0..1
          [] v = "hash" -> {2, 4}
          [] Makings[v].op \in {"int", "bytes"} -> {Makings[v].imm[1]}
          [] Makings[v].op \in Arith -> Uint
          [] Makings[v].op \in {"getbyte", "extract_uint16"} -> {0}
          [] OTHER -> Lengths]

Known == "hash" :> 2

Do(v) == Using({Making[v].ins[i] : i \in DOMAIN Making[v].ins}, Defining({v}, Simple("next")))

\* Guards, uses, branches and calls in any order after x is read.
Short ==
    {Code(<<Defining({"x", "b"}, Simple("next"))>> \o s \o <<last>>) :
        s \in [1..3 -> {Require("x<2"), Require("x<b"), Require("x"),
                        Using({"x"}, Simple("next")), Using({"x"}, Simple("return")),
                        Simple("retsub"), Jump("b", 2)}
                           \union {On("bnz", "b", t) : t \in {1, 2, 5}}
                           \union {Jump("callsub", t) : t \in {4, 5}}],
        last \in {Using({"x"}, Simple("return")), Using({"x"}, Simple("retsub"))}}

\* A value narrowed in one arm only, then merged with another.
Merge(arm) ==
    Code(<<Defining({"x", "y", "b"}, On("bnz", "b", 3)), arm,
           Using({"m"}, Merging({<<"m", 1, "x">>, <<"m", 2, "y">>}, Simple("return")))>>)

\* A loop-carried value: m is x, then what the last turn read as y.
Loop ==
    Code(<<Defining({"x"}, Simple("next")),
           Defining({"y", "b"},
               Merging({<<"m", 1, "x">>, <<"m", 3, "y">>}, Using({"m"}, On("bz", "b", 4)))),
           Using({"y"}, On("bnz", "b", 2)),
           Using({"m"}, Require("x<b")), Using({"x", "y"}, Simple("return"))>>)

\* A parameter: m is b in one call and one in the other.
Passed(guard) ==
    Code(<<Defining({"b"}, Jump("callsub", 4)), Jump("callsub", 4), Simple("return"),
           Merging({<<"m", 1, "b">>, <<"m", 2, "one">>}, guard),
           Using({"m"}, Simple("retsub"))>>)

\* A result: m is b or one, as the routine returns.
Returned ==
    Code(<<Jump("callsub", 4), Merging({<<"m", 5, "b">>, <<"m", 6, "one">>}, Require("1<=m")),
           Using({"m"}, Simple("return")),
           Defining({"b"}, On("bz", "b", 6)), Simple("retsub"), Simple("retsub")>>)

\* A guard that compares a value with itself narrows it again in every round.
SelfCompared ==
    Code(<<Defining({"x"}, Simple("next")), Require("x<x"), Using({"x"}, Simple("return"))>>)

\* Comparisons of two values, one behind the other.
Chain(first, second, third) ==
    Code(<<Defining({"x", "y", "b"}, Simple("next")), Require(first), Require(second),
           Require(third), Using({"x", "y", "b"}, Simple("return"))>>)

Chained == {"x<y", "y<x", "x<b", "y<2", "x", "1<=x"}

RangePrograms ==
    Short \union {Merge(Require(c)) : c \in Chained}
        \union {Loop, Returned, SelfCompared} \union {Passed(c) : c \in {Require("1<=m"), Simple("next")}}
        \union {Chain(c, d, e) : c \in Chained, d \in Chained, e \in Chained}

\* Guards, branches and accesses in any order after x and the length of buf are read.
Accessing ==
    {Code(<<Defining({"x"}, Simple("next")), Do("n")>> \o s \o <<Simple("return")>>) :
        s \in [1..3 -> {Require(c) : c \in {"x<n", "x+1<=n", "2<=n", "n<2"}}
                           \union {Do(v) : v \in {"x+1", "n-2", "2-x", "2-n", "buf[:2]", "buf[:3]",
                                                  "buf[:n]", "buf[x]", "buf[x+1]", "buf[n-2]",
                                                  "buf[:2-x]"}}
                           \union {Defining({"b"}, On("bnz", "b", t)) : t \in {1, 5, 6}}]}

\* What makes the values of a row, one behind the other.
Row(s) == [i \in DOMAIN s |-> IF s[i] \in DOMAIN Making THEN Do(s[i]) ELSE Require(s[i])]

Straight(s) == Code(<<Defining({"x", "y", "b", "hash"}, Simple("next"))>> \o Row(s))

\* Slices of slices, both offset and width from the input, exact and least lengths.
Sliced ==
    {Straight(s \o <<"lit[:4]">>) : s \in {
        <<"n", "n==4", "buf[1:]", "buf[3:]", "buf[3:4]">>,
        <<"n", "2<=n", "buf[1:]", "buf[3:]", "buf[3:4]">>,
        <<"x+1", "x+1<=y", "buf[x:y]", "buf[x:y][0]">>,
        <<"x<y", "buf[x:][:y]", "buf[x:][:y][x]">>,
        <<"x<y", "buf[1:y]", "buf[1:y][x]">>,
        <<"n", "y<=n", "x<y", "buf[x]", "set", "word">>,
        <<"n", "n-2", "buf[2:n]", "n/2", "buf[n/2]", "n*x">>,
        <<"n", "n%2", "2<=n", "buf[n%2]", "n/2", "buf[n/2]">>,
        <<"n", "n<2", "2<=n", "buf[:2]", "buf[:3]">>,
        <<"x<2", "lit[x]", "lit[x:]", "buf[1:3]">>,
        <<"lit[1:3]", "hash[:2]", "hash[:3]", "buf[2:1]">>}}

\* m counts the turns: the access by m, or by what the next turn has as m.
Counting(guard, v) ==
    Code(<<Do("n"), Merging({<<"m", 1, "zero">>, <<"m", 6, "m+1">>},
                            Defining({"b"}, On("bz", "b", 7))),
           Do("m+1"), Require(guard), Do(v), Jump("b", 2), Simple("return")>>)

\* Calls of a routine that takes the length of buf and may guard it; buf is read before
\* or behind the first call.
Calling ==
    {Code(<<s[1], Jump("callsub", 6), s[2], Jump("callsub", 6), Simple("return"),
            Do("n"), guard, Do("n-2"), Do("buf[n-2]"), Simple("retsub")>>) :
        s \in {<<Do("buf[:2]"), Simple("next")>>, <<Simple("next"), Do("buf[:2]")>>},
        guard \in {Require("2<=n"), Require("n<2"), Simple("next")}}

Ranged == {[p EXCEPT !.entry = {Pred("buf", "eq", {0})}] : p \in RangePrograms}

Bounds ==
    Accessing \union Sliced \union Calling
        \union {Counting(c, v) : c \in {"n>m", "m+1<n"}, v \in {"buf[m]", "buf[m+1]"}}

AllPrograms == Ranged \union Bounds

=============================================================================
