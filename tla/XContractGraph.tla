--------------------------- MODULE XContractGraph ---------------------------
(***************************************************************************)
(* The cross-contract walk (tealtools/intercontract/analysis.py,           *)
(* XContractGraph.build).  From a root program it follows the inner        *)
(* application calls through a registry, breadth first and at most         *)
(* MaxDepth hops, and analyses every callee under the argument pins that   *)
(* all its callers agree on.                                               *)
(*                                                                         *)
(* A program is the sequence of its resolvable appcall sites in source     *)
(* order.  A site names its callee and, per argument index, what it        *)
(* passes: a constant, one of the program's own arguments forwarded        *)
(* verbatim, or something else.  A dict of pins is its set of              *)
(* <<index, constant>> items.                                              *)
(***************************************************************************)
EXTENDS Naturals, Sequences, FiniteSets

CONSTANTS
    Apps,       \* registered AppIDs
    Root,       \* stands for the root caller, which has no AppID
    Index,      \* argument indices
    Consts,     \* constant argument values
    Networks,   \* the call networks under analysis
    MaxDepth    \* max_depth

ASSUME RootHasNoAppId == Root \notin Apps
ASSUME MaxDepthIsNat == MaxDepth \in Nat

Pin  == Index \X Consts
Arg  == [kind : {"const"}, value : Consts]
            \union [kind : {"forward"}, index : Index]
            \union [kind : {"dynamic"}]
Site == [callee : Apps, args : [Index -> Arg]]

Network == [Apps \union {Root} -> Seq(Site)]

ASSUME NetworksAreNetworks == Networks \subseteq Network

VARIABLES
    net,        \* the programs, fixed
    frontier,   \* queue of [prog, depth, pins]
    walk,       \* the item last popped, and the next of its sites to visit
    callees,    \* the AppIDs loaded so far
    merged,     \* merged_pins
    analyses,   \* the pins each callee was last analysed under
    edges       \* [caller, site (its position), callee, depth]

vars == <<net, frontier, walk, callees, merged, analyses, edges>>

Idle == [prog |-> Root, depth |-> 0, pins |-> {}, next |-> 0]

Sites(p) == net[p]

\* A pinned argument forwarded verbatim keeps its pin.
ConstArgs(site, pins) ==
    {p \in Pin :
        LET arg == site.args[p[1]] IN
        \/ arg.kind = "const" /\ arg.value = p[2]
        \/ arg.kind = "forward" /\ <<arg.index, p[2]>> \in pins}

-----------------------------------------------------------------------------
Init ==
    /\ net \in Networks
    /\ frontier = <<[prog |-> Root, depth |-> 0, pins |-> {}]>>
    /\ walk = Idle
    /\ callees = {}
    /\ merged = [a \in Apps |-> {}]
    /\ analyses = [a \in Apps |-> {}]
    /\ edges = {}

Walking == walk.next \in 1..Len(Sites(walk.prog))

\* The next item of the queue: dropped at the depth bound, walked otherwise.
DropTooDeep ==
    /\ ~ Walking
    /\ frontier # <<>>
    /\ Head(frontier).depth >= MaxDepth
    /\ frontier' = Tail(frontier)
    /\ UNCHANGED <<net, walk, callees, merged, analyses, edges>>

StartWalkAtBound ==
    /\ ~ Walking
    /\ frontier # <<>>
    /\ Head(frontier).depth <= MaxDepth
    /\ frontier' = Tail(frontier)
    /\ walk' = [prog  |-> Head(frontier).prog,
                depth |-> Head(frontier).depth,
                pins  |-> Head(frontier).pins,
                next  |-> 1]
    /\ UNCHANGED <<net, callees, merged, analyses, edges>>

StartWalk ==
    /\ ~ Walking
    /\ frontier # <<>>
    /\ Head(frontier).depth < MaxDepth
    /\ frontier' = Tail(frontier)
    /\ walk' = [prog  |-> Head(frontier).prog,
                depth |-> Head(frontier).depth,
                pins  |-> Head(frontier).pins,
                next  |-> 1]
    /\ UNCHANGED <<net, callees, merged, analyses, edges>>

Current   == Sites(walk.prog)[walk.next]
Passed    == ConstArgs(Current, walk.pins)

EnqueueFirst(item) == <<item>> \o frontier

Enqueue(item) == Append(frontier, item)

\* The edge is recorded the first time this call site is met.
RecordEdge ==
    edges' = IF \E e \in edges : e.caller = walk.prog /\ e.site = walk.next
             THEN edges
             ELSE edges \union {[caller |-> walk.prog, site |-> walk.next,
                                 callee |-> Current.callee, depth |-> walk.depth]}

\* First site that reaches this callee: load it and analyse it under its pins.
VisitNewCallee ==
    /\ Walking
    /\ Current.callee \notin callees
    /\ RecordEdge
    /\ callees' = callees \union {Current.callee}
    /\ merged' = [merged EXCEPT ![Current.callee] = Passed]
    /\ analyses' = [analyses EXCEPT ![Current.callee] = Passed]
    /\ frontier' = Enqueue([prog |-> Current.callee, depth |-> walk.depth + 1, pins |-> Passed])
    /\ walk' = [walk EXCEPT !.next = @ + 1]
    /\ UNCHANGED net

FirstCallerWins == merged[Current.callee]

Meet == merged[Current.callee] \intersect Passed

\* A further site: keep the pins both agree on, and when that weakens them analyse
\* the callee again and queue it so that its own sites see the weaker pins.
VisitKnownCallee ==
    /\ Walking
    /\ Current.callee \in callees
    /\ RecordEdge
    /\ IF Meet # merged[Current.callee]
       THEN /\ merged' = [merged EXCEPT ![Current.callee] = Meet]
            /\ analyses' = [analyses EXCEPT ![Current.callee] = Meet]
            /\ frontier' = Enqueue([prog |-> Current.callee, depth |-> walk.depth + 1,
                                    pins |-> Meet])
       ELSE UNCHANGED <<merged, analyses, frontier>>
    /\ walk' = [walk EXCEPT !.next = @ + 1]
    /\ UNCHANGED <<net, callees>>

Next == DropTooDeep \/ StartWalk \/ VisitNewCallee \/ VisitKnownCallee

Spec == Init /\ [][Next]_vars

Done == frontier = <<>> /\ ~ Walking

-----------------------------------------------------------------------------
TypeOK ==
    /\ net \in Networks
    /\ frontier \in Seq([prog : Apps \union {Root}, depth : 0..MaxDepth, pins : SUBSET Pin])
    /\ walk \in [prog : Apps \union {Root}, depth : 0..MaxDepth, pins : SUBSET Pin, next : Nat]
    /\ callees \subseteq Apps
    /\ merged \in [Apps -> SUBSET Pin]
    /\ analyses \in [Apps -> SUBSET Pin]
    /\ edges \subseteq [caller : Apps \union {Root}, site : Nat \ {0}, callee : Apps,
                        depth : 0..MaxDepth]

\* Every way the root can reach a program in n calls, as <<program, pins>> where
\* the pins are what this very chain of calls passes.
Arrivals[n \in Nat] ==
    IF n = 0 THEN {<<Root, {}>>}
    ELSE UNION {{<<Sites(x[1])[k].callee, ConstArgs(Sites(x[1])[k], x[2])>> :
                    k \in DOMAIN Sites(x[1])} : x \in Arrivals[n - 1]}

ArrivalsWithin(n) == UNION {Arrivals[d] : d \in 1..n}

\* When the walk ends it has loaded exactly what some chain of at most MaxDepth calls
\* reaches, each callee analysed under exactly the pins all such chains pass: one more
\* would be "the over-pinned analysis, silently suppressing a flow exploitable through
\* it", one less a pin given up that every caller passes.
AnalysesAreTheMeet ==
    LET reached == ArrivalsWithin(MaxDepth)
    IN  Done => /\ callees = {x[1] : x \in reached}
                /\ \A a \in callees : analyses[a] =
                       {p \in Pin : \A x \in reached : x[1] = a => p \in x[2]}

\* The depth an edge reports is the length of the shortest chain of calls to it,
\* whatever re-walks of its caller came later.
EdgeDepthIsShortest ==
    Done => \A e \in edges :
                /\ \E x \in Arrivals[e.depth] : x[1] = e.caller
                /\ \A d \in 0..MaxDepth : d < e.depth =>
                       \A x \in Arrivals[d] : x[1] # e.caller

=============================================================================
