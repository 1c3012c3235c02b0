--------------------------- MODULE PathPredicates ---------------------------
(***************************************************************************)
(* PathPredicateAnalysis (tealtools/cfg/path_predicates.py): the predicates *)
(* that hold on every path to each basic block, computed before an AVM     *)
(* runs the same blocks.                                                   *)
(***************************************************************************)
EXTENDS BlockMachine

VARIABLES
    worklist,   \* stack of blocks; the last is popped
    known,      \* the blocks that are not TOP
    preds       \* bb_preds of the known blocks, {} elsewhere

analysisVars == <<worklist, known, preds>>
vars         == <<machineVars, analysisVars>>

-----------------------------------------------------------------------------
(* Predicates of an edge.                                                  *)

\* The labels of the edges from a conditional branch to block s: the condition was
\* non-zero (TRUE), or zero.
Polarity(b, s) ==
    {(B(b).op = "bnz") : a \in {x \in Arms(b) : x = s}}
        \union {(B(b).op = "bz") : a \in {x \in Following(b) : x = s}}

\* Several arms, or an arm that is also the fall-through, reach s.
Collapsed(b, s) ==
    \/ Cardinality({i \in DOMAIN B(b).arms : B(b).arms[i] = s}) > 1
    \/ Cardinality(Successors(b)) < 2
    \/ s \in Arms(b) /\ s \in Following(b)

\* The candidate of the i-th arm of a match: candidates come top of stack first.
Candidate(b, i) == B(b).consts[Len(B(b).consts) + 1 - i]

Candidates(b) == {B(b).consts[i] : i \in DOMAIN B(b).consts}

\* _switch_or_match_edge
MultiWayEdge(b, s) ==
    LET key == B(b).cond
        arm == {i \in DOMAIN B(b).arms : B(b).arms[i] = s}
    IN  IF Collapsed(b, s) THEN {}
        ELSE IF B(b).op = "switch"
             THEN IF arm = {} THEN {Pred(key, "not_in_range", 0 .. Len(B(b).arms) - 1)}
                  ELSE {Pred(key, "eq", {i - 1}) : i \in arm}
             ELSE IF arm = {} THEN {Pred(key, "neq_all", S) : S \in {Candidates(b)} \ {{}}}
                  ELSE {Pred(key, "eq", {Candidate(b, i)}) :
                            i \in arm \cap DOMAIN B(b).consts}

\* _edge_predicates
EdgePredicates(b, s) ==
    CASE B(b).op = "assert" -> DecomposeCond[<<B(b).cond, TRUE>>]
      [] B(b).op \in Conditional ->
             IF Cardinality(Polarity(b, s)) # 1 THEN {}
             ELSE UNION {DecomposeCond[<<B(b).cond, taken>>] : taken \in Polarity(b, s)}
      [] B(b).op \in MultiWay -> MultiWayEdge(b, s)
      [] OTHER -> {}

-----------------------------------------------------------------------------
(* The fixpoint.                                                           *)

\* sound_return_targets: c is a callsub and b the next block, whose predecessors
\* are all retsubs.
ReturnTarget(c, b) ==
    /\ B(c).op = "callsub"
    /\ b \in Following(c) \cap Blocks
    /\ Predecessors(b) # {}
    /\ \A p \in Predecessors(b) : B(p).op = "retsub"

\* The phis all of whose arguments are rooted: a phi met again on the way round a loop
\* counts as rooted.
RootedPhis ==
    UNION {S \in SUBSET Phis :
              \A b \in Blocks : \A t \in B(b).phi : t[1] \in S => t[3] \in Fixed \union S}

\* _rooted_in_immutable_fields: only immutable leaves, or phis of such, under comparisons
\* and connectives.
Rooted(v) == Leaves \cap Computing(v) \subseteq Fixed \union RootedPhis

\* What the caller of a return target knew of immutable fields.
Carried(b) ==
    {p \in UNION {preds[c] : c \in {k \in Blocks : ReturnTarget(k, b)}} :
        Rooted(p.value) /\ \A w \in p.other : Rooted(w)}

\* What each way into b contributes.  Execution may also start at the first block.
EntryOnlyWithoutPredecessors(b) ==
    {preds[p] \union EdgePredicates(p, b) : p \in Predecessors(b) \cap known}
        \union (IF b = 1 /\ Predecessors(b) = {} THEN {prog.entry} ELSE {})

TopReadAsNothingKnown(b) ==
    {preds[p] \union EdgePredicates(p, b) : p \in Predecessors(b)}
        \union (IF b = 1 THEN {prog.entry} ELSE {})

Contributions(b) ==
    {preds[p] \union EdgePredicates(p, b) : p \in Predecessors(b) \cap known}
        \union (IF b = 1 THEN {prog.entry} ELSE {})

Meet(sets) == {p \in UNION sets : \A S \in sets : p \in S}

NewPreds(b) == Meet(Contributions(b)) \union Seeds(b) \union Carried(b)

Init ==
    /\ InitMachine
    /\ worklist = InOrder(Blocks)
    /\ known = {1}
    /\ preds = [b \in All |-> IF b = 1 THEN prog.entry \union Seeds(b) ELSE {}]

Top       == worklist[Len(worklist)]
Below     == SubSeq(worklist, 1, Len(worklist) - 1)
Analysing == mode = "analyse" /\ worklist # <<>>

\* Every predecessor is still TOP.
Defer ==
    /\ Analysing
    /\ Contributions(Top) = {}
    /\ worklist' = Below
    /\ UNCHANGED <<known, preds, machineVars>>

Settled ==
    /\ Analysing
    /\ Contributions(Top) # {}
    /\ Top \in known
    /\ preds[Top] = NewPreds(Top)
    /\ worklist' = Below
    /\ UNCHANGED <<known, preds, machineVars>>

RequeuesNextLine(b) == InOrder(Successors(b)) \o InOrder(Following(b))

\* The successors in source order, then the block a callsub returns to.
Dependents(b) == InOrder(Successors(b)) \o InOrder({t \in Blocks : ReturnTarget(b, t)})

RequeuesUnchanged ==
    /\ Analysing
    /\ Contributions(Top) # {}
    /\ known' = known \union {Top}
    /\ preds' = [preds EXCEPT ![Top] = NewPreds(Top)]
    /\ worklist' = Below \o Dependents(Top)
    /\ UNCHANGED machineVars

Change ==
    /\ Analysing
    /\ Contributions(Top) # {}
    /\ Top \notin known \/ preds[Top] # NewPreds(Top)
    /\ known' = known \union {Top}
    /\ preds' = [preds EXCEPT ![Top] = NewPreds(Top)]
    /\ worklist' = Below \o Dependents(Top)
    /\ UNCHANGED machineVars

Compute == Defer \/ Settled \/ Change

\* A run begins once the worklist is empty.
Start == worklist = <<>> /\ Begin /\ UNCHANGED analysisVars

Execute == Run /\ UNCHANGED analysisVars

Next == Compute \/ Start \/ Execute

Spec == Init /\ [][Next]_vars

FairSpec == Spec /\ WF_vars(Compute)

-----------------------------------------------------------------------------
TypeOK ==
    /\ worklist \in Seq(Blocks)
    /\ known \subseteq Blocks
    /\ preds \in [All -> SUBSET Predicate]
    /\ MachineOK

\* "The (value, outcome) pairs that hold on every path from program entry to that
\* BB": when a run is in a block, every predicate the analysis gives the block is
\* true of the values the run holds there.
PredicatesHold == mode = "run" => \A p \in preds[at] : Holds(p, env)

\* No step of a run follows an edge that edge_is_feasible rules out.
TakenEdgesAreFeasible ==
    [][mode = "run" /\ mode' = "run" =>
           ~ PredicatesContradict(preds[at] \union EdgePredicates(at, at'))]_vars

\* Blocks where predicate p may be missing on some path through the blocks, carried
\* facts included: the least set closed under the ways of losing p.
Missing(p) ==
    LET lost[n \in Nat] ==
            IF n = 0 THEN {}
            ELSE LET L == lost[n - 1] IN
                 {b \in Blocks \ L :
                    /\ p \notin Seeds(b)
                    /\ \A c \in Blocks :
                            ReturnTarget(c, b) /\ Rooted(p.value) /\ (\A w \in p.other : Rooted(w))
                                => c \in L
                    /\ \/ b = 1 /\ p \notin prog.entry
                       \/ \E q \in Predecessors(b) :
                              q \in L /\ p \notin EdgePredicates(q, b)} \union L
    IN lost[Cardinality(Blocks)]

Analysed == mode = "analyse" /\ worklist = <<>>

CarriesNothing == \A b, c \in Blocks : ~ ReturnTarget(c, b)

Provable ==
    prog.entry \union UNION {EdgePredicates(q, b) : q \in Blocks, b \in Blocks}

\* A predicate established on every path to a block is found there (where nothing
\* is carried across a return).
NoPathPredicateLost ==
    Analysed /\ CarriesNothing =>
        \A b \in Blocks, p \in Provable : b \notin Missing(p) => p \in preds[b]

\* The worklist empties.
AnalysisEnds == <>(worklist = <<>>)

=============================================================================
