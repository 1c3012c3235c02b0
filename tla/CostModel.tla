----------------------------- MODULE CostModel -----------------------------
(***************************************************************************)
(* What blocks and routines charge (budget/costs.py).  A routine is        *)
(* summarised on demand, its callees first, and the summary is kept: one   *)
(* asked for while its routine is being summarised counts nothing and has  *)
(* no ceiling.  Which routine is asked for first is left open.             *)
(***************************************************************************)
EXTENDS Continuations

\* The charge of an operation.  Tables and operand lengths are left out.
CONSTANT OpCost(_)

VARIABLES
    asking,     \* the routines being summarised, the one asked for first first
    charges     \* routine -> the charge of one call that returns

costing == <<asking, charges>>

-----------------------------------------------------------------------------
(* CostFact: at least and at most, Unbounded where no ceiling is known.    *)

Unbounded   == -1
Cost(l, m)  == [least |-> l, most |-> m]
Free        == Cost(0, 0)
Unknown     == Cost(0, Unbounded)

ASSUME ChargesAreCosts ==
    \A p \in Programs : \A b \in DOMAIN p : \A i \in DOMAIN p[b] :
        LET cost == OpCost(p[b][i]) IN
        /\ cost \in [least : Nat \ {0}, most : Nat \union {Unbounded}]
        /\ cost.most # Unbounded => cost.least <= cost.most

Plus(a, b) ==
    Cost(a.least + b.least,
         IF Unbounded \in {a.most, b.most} THEN Unbounded ELSE a.most + b.most)

BlockCost(b) ==
    LET paid[i \in 0..Len(prog[b])] ==
            IF i = 0 THEN Free ELSE Plus(paid[i - 1], OpCost(prog[b][i]))
    IN paid[Len(prog[b])]

-----------------------------------------------------------------------------
(* Paths.  The blocks next[b] follow b, and the step to c takes toll[b][c]. *)

\* The least toll of a walk of no more steps than there are blocks, from a block of S
\* to each block it leads to.
Cheapest(S, next, toll) ==
    LET least[n \in Nat] ==
            IF n = 0 THEN [b \in S |-> 0]
            ELSE LET d == least[n - 1]
                     to == UNION {next[b] : b \in DOMAIN d}
                     By(c) == {d[b] + toll[b][c] : b \in {k \in DOMAIN d : c \in next[k]}}
                 IN [c \in DOMAIN d \union to |->
                        Min(By(c) \union {d[b] : b \in DOMAIN d \cap {c}})]
    IN least[Cardinality(Blocks)]

-----------------------------------------------------------------------------
(* _subroutine_cost.                                                       *)

CallsIn(e) == bodies[e] \cap Callsubs
Callees(e) == {CallTarget(c) : c \in CallsIn(e)}

\* Mutant: a routine that calls itself is taken to cost nothing more.
KnownAsFree(e) == IF e \in DOMAIN charges THEN charges[e] ELSE Free

Known(e) == IF e \in DOMAIN charges THEN charges[e] ELSE Unknown

\* The charge of block b and of the call it makes.
Through(b) == IF End(b) = "callsub" THEN Plus(BlockCost(b), Known(CallTarget(b))) ELSE BlockCost(b)

BodyFlow(e, b) ==
    bodies[e] \cap (CASE End(b) = "callsub" -> {conts[b]}
                      [] End(b) = "retsub"  -> {}
                      [] OTHER              -> succ[b])

Routes(e) == [b \in Blocks |-> BodyFlow(e, b)]

\* A step charges its source, with the call it makes.
Charge == [b \in Blocks |-> [c \in Blocks |-> Through(b).least]]

\* The blocks of e from which one of its returns is reached.
CanReturn(e) == {b \in bodies[e] : Closure({b}, Routes(e)) \cap Retsubs # {}}

Acyclic(S, next) ==
    \A b \in S : b \notin Closure(S \cap next[b], [k \in Blocks |-> S \cap next[k]])

\* The most a path from block b of e to a return charges.
Dearest(e) ==
    LET S == CanReturn(e)
        most[n \in Nat] ==
            IF n = 0 THEN [b \in S |-> 0]
            ELSE LET m == most[n - 1] IN
                 [b \in S |-> Through(b).most
                                + Max({0} \union {m[c] : c \in S \cap BodyFlow(e, b)})]
    IN most[Cardinality(S)][e]

RoutineCost(e) ==
    LET before  == Cheapest({e}, Routes(e), Charge)
        returns == DOMAIN before \cap Retsubs
        paths   == CanReturn(e)
    IN IF returns = {} THEN Unknown
       ELSE Cost(Min({before[r] + Through(r).least : r \in returns}),
                 IF /\ Acyclic(paths, Routes(e))
                    /\ \A b \in paths : Through(b).most # Unbounded
                 THEN Dearest(e) ELSE Unbounded)

Asked     == DOMAIN charges \union Range(asking)
Innermost == Last(asking)

\* A query asks for a routine, or the summary of one for that of a callee.
Ask ==
    /\ phase = "identified"
    /\ \E e \in (IF asking = <<>> THEN Entries ELSE Callees(Innermost)) \ Asked :
           asking' = Append(asking, e)
    /\ UNCHANGED <<program, phase, identified, charges>>

Summarise ==
    /\ phase = "identified"
    /\ asking # <<>>
    /\ Callees(Innermost) \subseteq Asked
    /\ charges' = [e \in DOMAIN charges \union {Innermost} |->
                      IF e = Innermost THEN RoutineCost(e) ELSE charges[e]]
    /\ asking' = Front(asking)
    /\ UNCHANGED <<program, phase, identified>>

=============================================================================
