--------------------------- MODULE Continuations ---------------------------
(***************************************************************************)
(* Where each call comes back to, and the body of every routine, refined   *)
(* in rounds (identify_subroutines of cfg/subroutines.py).                 *)
(***************************************************************************)
EXTENDS StackPrograms

VARIABLES
    phase,      \* what the analysis does next
    round,      \* rounds of the refinement so far
    conts,      \* callsub block -> the block it comes back to, 0 for none
    bodies      \* entry -> blocks of the routine, from the last round

identified == <<round, conts, bodies>>

-----------------------------------------------------------------------------
\* The next block in source order that starts no routine.
SourceNext(c) == Earliest({b \in Blocks : b > c /\ b \notin Entries})

\* Blocks control reaches from entry e.  A call flows to its continuation, or ends
\* the walk; no other entry is crossed.
Body(e, back, through) ==
    LET Into(b) ==
            CASE End(b) = "retsub"  -> {}
              [] End(b) = "callsub" -> IF through THEN {back[b]} \ {0} ELSE {}
              [] OTHER              -> succ[b]
    IN Closure({e}, [b \in Blocks |-> Into(b) \ (Entries \ {e})])

ReturnTargets(body) == UNION {succ[r] : r \in body \cap Retsubs}

\* Mutant: a callee that never returns keeps its continuation.
MisplacedInside(c, body) ==
    LET e == CallTarget(c) IN
    /\ conts[c] \in Body(e, conts, FALSE)
    /\ conts[c] \notin ReturnTargets(body[e])

\* A callee that never returns has no continuation; one inside the callee's own
\* blocks that no return leads to was picked wrongly.
Misplaced(c, body) ==
    LET e == CallTarget(c) IN
    \/ body[e] \cap Retsubs = {}
    \/ /\ conts[c] \in Body(e, conts, FALSE)
       /\ conts[c] \notin ReturnTargets(body[e])

\* Mutant: what was dropped is picked again.
RefillFromSource(c, body) == SourceNext(c)

\* The nearest later block the callee returns to.
Refill(c, body) == Earliest({t \in ReturnTargets(body[CallTarget(c)]) : t > c})

MaxRounds == Cardinality(Callsubs) + Cardinality(Entries) + 8

\* One round: drop the misplaced continuations, then fill those that are missing.
Refine ==
    /\ phase = "identify"
    /\ round < MaxRounds
    /\ round' = round + 1
    /\ LET body == [e \in Entries |-> Body(e, conts, TRUE)]
           kept == [c \in Callsubs |-> IF conts[c] # 0 /\ Misplaced(c, body) THEN 0 ELSE conts[c]]
           next == [c \in Callsubs |-> IF kept[c] = 0 THEN Refill(c, body) ELSE kept[c]]
       IN  /\ bodies' = body
           /\ conts' = next
           /\ phase' = IF next = kept \/ round' = MaxRounds THEN "identified" ELSE "identify"
    /\ UNCHANGED program

\* The entry of a routine is the block its callsub leads to.  A callsub that leads
\* nowhere, whose routine is looked up by its label, does not arise: edges into a label
\* without code are led on to the next block when the graph is built.
InitIdentify ==
    /\ prog \in Programs
    /\ succ = BlockGraph
    /\ phase = "identify"
    /\ round = 0
    /\ conts = [c \in Callsubs |-> SourceNext(c)]
    /\ bodies = <<>>

-----------------------------------------------------------------------------
(* The programs the refinement is right about.                             *)

\* Where control goes inside a routine: past a call if its routine may return.
Onward(b) ==
    IF End(b) = "callsub"
    THEN Following(b) \cap
             UNION {succ[r] : r \in Retsubs \cap Closure({Last1(b).to}, [k \in All |-> Flow(k)])}
    ELSE Flow(b)

Extent(e) == Closure({e}, [b \in All |-> Onward(b)])

\* A routine that never returns makes no call that never returns.
Stuck   == {c \in Callsubs : Extent(CallTarget(c)) \cap Retsubs = {}}
Settled == \A c \in Stuck : Extent(CallTarget(c)) \cap Stuck = {}

\* No routine runs into the entry of another: a body ends where another begins.
Contained == \A e \in {1} \union Entries : Extent(e) \cap Entries \subseteq {e}

\* No call that returns comes back to where a routine starts.
Apart == \A c \in Callsubs \ Stuck : Following(c) \cap Entries = {}

\* Continuations stop changing before the cap on the rounds, which "only guards a
\* pathological oscillation".
RoundsSettle == phase # "identify" => round < MaxRounds

=============================================================================
