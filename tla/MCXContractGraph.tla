-------------------------- MODULE MCXContractGraph --------------------------
(* Call networks for TLC: all small ones over two apps, and hand-made ones  *)
(* with a third app, two argument indices and cycles.                       *)
EXTENDS XContractGraph, SequencesExt

CONSTANTS a, b, c, v, w

AllApps == {a, b, c}
TwoConsts == {v, w}

Const(x)   == [kind |-> "const", value |-> x]
Forward(i) == [kind |-> "forward", index |-> i]
Dynamic    == [kind |-> "dynamic"]

Calls(app, first, second) == [callee |-> app, args |-> (1 :> first @@ 2 :> second)]

RootSites == {Calls(app, x, Dynamic) : app \in {a, b}, x \in {Const(v), Dynamic}}
AppSites  == {Calls(app, x, Dynamic) : app \in {a, b}, x \in {Const(v), Forward(1), Dynamic}}

SmallNetworks ==
    {(Root :> r @@ a :> s @@ b :> t @@ c :> <<>>) :
        r \in BoundedSeq(RootSites, 2), s \in BoundedSeq(AppSites, 1), t \in BoundedSeq(AppSites, 2)}

\* A diamond whose long side passes nothing, then a forwarder.
Diamond ==
    Root :> <<Calls(a, Const(v), Const(w)), Calls(b, Const(v), Dynamic)>>
    @@ a :> <<Calls(c, Forward(1), Forward(2))>>
    @@ b :> <<Calls(a, Forward(1), Forward(1))>>
    @@ c :> <<>>

\* A cycle that rotates two arguments: every turn weakens one more pin.
Rotation ==
    Root :> <<Calls(a, Const(v), Const(w))>>
    @@ a :> <<Calls(b, Forward(2), Forward(1)), Calls(c, Forward(1), Const(v))>>
    @@ b :> <<Calls(a, Forward(1), Const(w)), Calls(c, Forward(2), Forward(2))>>
    @@ c :> <<Calls(a, Forward(2), Dynamic)>>

\* The chain that weakens a is exactly as long as the depth bound.
LongWayRound ==
    Root :> <<Calls(a, Const(v), Dynamic), Calls(b, Dynamic, Dynamic)>>
    @@ a :> <<Calls(c, Forward(1), Dynamic)>>
    @@ b :> <<Calls(b, Dynamic, Dynamic), Calls(a, Forward(1), Dynamic)>>
    @@ c :> <<>>

HandNetworks == {Diamond, Rotation, LongWayRound}
AllNetworks  == SmallNetworks \union HandNetworks

=============================================================================
