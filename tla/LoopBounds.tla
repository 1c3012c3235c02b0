----------------------------- MODULE LoopBounds -----------------------------
(***************************************************************************)
(* How often a loop can turn before the budget or the stack runs out       *)
(* (budget/loop_bounds.py, with the dominators of cfg/dominance.py), and   *)
(* what reaching a block costs at least (budget/queries.py).  No edge is   *)
(* taken to be infeasible.                                                 *)
(***************************************************************************)
EXTENDS CostModel

CONSTANTS
    Credit,         \* BudgetContext.initial_credit
    MaxStack        \* MAX_STACK_DEPTH

ASSUME CeilingsAreNat == Credit \in Nat /\ MaxStack \in Nat

VARIABLES
    loops,      \* the LoopBound of every loop
    minimum     \* block -> the least a run has paid when it has executed it

reports == <<loops, minimum>>

-----------------------------------------------------------------------------
(* The graph of routines.                                                  *)

\* A call leads to where it comes back, a return nowhere.
RoutineFlow(b) ==
    CASE End(b) = "callsub" -> {conts[b]} \ {0}
      [] End(b) = "retsub"  -> {}
      [] OTHER              -> succ[b]

Before(b) == {p \in Blocks : b \in RoutineFlow(p)}

Roots == {Earliest(Blocks)} \union Entries

\* iterative_dominators: what nothing leads to, roots apart, is dominated by all.
Dominators ==
    LET dom[n \in Nat] ==
            IF n = 0 THEN [b \in Blocks |-> IF b \in Roots THEN {b} ELSE Blocks]
            ELSE LET d == dom[n - 1] IN
                 [b \in Blocks |-> IF b \in Roots THEN {b}
                                   ELSE {b} \union {k \in Blocks : \A p \in Before(b) : k \in d[p]}]
    IN dom[Cardinality(Blocks)]

-----------------------------------------------------------------------------
(* Loops.                                                                  *)

Shape(kind, entries, body, back) ==
    [kind |-> kind, entries |-> entries, body |-> body, back |-> back]

Header(shape) == Earliest(shape.entries)

\* The edges back to a block that dominates their source, and the blocks from which
\* one is reached without passing it.
NaturalLoops ==
    LET dom  == Dominators
        Back(h) == {p \in Before(h) : h \in dom[p]}
        Inside(h) ==
            {h} \union Closure(Back(h), [b \in Blocks |-> IF b = h THEN {} ELSE Before(b)])
    IN {Shape("reducible", {h}, Inside(h), Back(h) \X {h}) : h \in {b \in Blocks : Back(b) # {}}}

\* A cycle is entered at several blocks.
IrreducibleRegions ==
    LET Reached(b) == Closure(RoutineFlow(b), [k \in Blocks |-> RoutineFlow(k)])
        cyclic     == {b \in Blocks : b \in Reached(b)}
        Region(b)  == {c \in Reached(b) : b \in Reached(c)}
        Doors(S)   == {b \in S : b \in Roots \/ ~(Before(b) \subseteq S)}
        Within(S)  == {edge \in S \X S : edge[2] \in RoutineFlow(edge[1])}
    IN {Shape("irreducible", Doors(S), S, Within(S)) :
            S \in {R \in {Region(b) : b \in cyclic} : Cardinality(Doors(R)) > 1}}

\* The edges inside a loop.
Around(shape) == [b \in Blocks |-> RoutineFlow(b) \cap shape.body]

\* The least one turn charges.
Iteration(shape) ==
    LET Turn(edge) ==
            LET paid == Cheapest({edge[2]}, Around(shape), Charge)
            IN IF edge[1] \in DOMAIN paid THEN {paid[edge[1]] + Through(edge[1]).least} ELSE {}
        turns == UNION {Turn(edge) : edge \in shape.back}
    IN IF turns = {} THEN Through(Header(shape)).least ELSE Min(turns)

-----------------------------------------------------------------------------
(* What is paid on the way.                                                *)

\* Along the edges of the program itself.
Distances ==
    Cheapest({Earliest(Blocks)}, succ, [b \in Blocks |-> [c \in Blocks |-> BlockCost(b).least]])

\* The entry that is cheapest once it has been executed.
Nearest(shape) ==
    LET paid == Distances
        Executed(e) == paid[e] + BlockCost(e).least
    IN Earliest({e \in shape.entries : \A f \in shape.entries : Executed(e) <= Executed(f)})

\* Mutant: the way includes the entry it leads to.
PrefixWithEntry(shape) == Distances[Nearest(shape)] + BlockCost(Nearest(shape)).least

\* The entry's own charge is part of the turn, not of the way.
Prefix(shape) == Distances[Nearest(shape)]

\* Mutant: the call is charged again on the edge into the routine.
TollOfCalls(b, c) == Through(b).least

\* An edge charges its source; the edge over a call charges the routine too.
Toll(b, c) == IF c \in succ[b] THEN BlockCost(b).least ELSE Through(b).least

MinimumCosts ==
    LET paid == Cheapest({Earliest(Blocks)}, [b \in Blocks |-> succ[b] \union RoutineFlow(b)],
                         [b \in Blocks |-> [c \in Blocks |-> Toll(b, c)]])
    IN [b \in DOMAIN paid |-> paid[b] + Through(b).least]

-----------------------------------------------------------------------------
(* Growth of the stack.                                                    *)

None == -1

Delta(b) ==
    LET height[i \in 0..Len(prog[b])] ==
            IF i = 0 THEN 0 ELSE height[i - 1] + prog[b][i].pushes - prog[b][i].pops
    IN height[Len(prog[b])]

\* The least change of height around a turn through block b.
Rise(shape, b) ==
    LET change == Cheapest({b}, Around(shape), [k \in Blocks |-> [c \in Blocks |-> Delta(k)]])
    IN Min({change[k] + Delta(k) : k \in {j \in DOMAIN change : b \in Around(shape)[j]}})

\* What every turn adds to the stack, if every cycle adds something and none calls.
Growth(shape) ==
    LET Turning == {b \in shape.body : b \in Closure(Around(shape)[b], Around(shape))}
        counted == IF shape.kind = "reducible" THEN shape.entries ELSE Turning
    IN IF \/ shape.body \cap (Callsubs \union Retsubs) # {}
          \/ \E b \in Turning : Rise(shape, b) <= 0
       THEN None
       ELSE Min({Rise(shape, b) : b \in counted})

-----------------------------------------------------------------------------

Bound(shape) ==
    LET growth    == Growth(shape)
        available == Max({0, Credit - Prefix(shape)})
    IN [shape |-> shape,
        budget |-> available \div Max({1, Iteration(shape)}),
        stack |-> IF growth = None THEN None ELSE MaxStack \div growth]

Analyse ==
    /\ phase = "identified"
    /\ asking = <<>>
    /\ Entries \subseteq DOMAIN charges
    /\ loops' = {Bound(shape) : shape \in NaturalLoops \union IrreducibleRegions}
    /\ minimum' = MinimumCosts
    /\ phase' = "analysed"
    /\ UNCHANGED <<program, identified, costing>>

InitAnalysis ==
    /\ InitIdentify
    /\ asking = <<>>
    /\ charges = <<>>
    /\ loops = {}
    /\ minimum = <<>>

Analysis ==
    \/ Refine /\ UNCHANGED <<costing, reports>>
    \/ Ask /\ UNCHANGED reports
    \/ Summarise /\ UNCHANGED reports
    \/ Analyse

=============================================================================
