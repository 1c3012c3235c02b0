------------------------------ MODULE CfgWalk ------------------------------
(***************************************************************************)
(* What the control-flow graph promises its readers, with no word on how   *)
(* it is derived: once a graph is published, execution only ever moves     *)
(* along its edges, and the polarity of the edge is the boolean the AVM    *)
(* decided on.  Every path-sensitive analysis of the repository reads an   *)
(* absent edge as "control cannot do that".                                *)
(***************************************************************************)
EXTENDS Naturals

VARIABLES
    edges,      \* the published edges, records [from, to, type]
    at,         \* the line about to execute
    how         \* the successor type of the last move, "entry" before any

walkVars == <<edges, at, how>>

Init ==
    /\ edges = {}
    /\ at = 1
    /\ how = "entry"

\* The graph appears once, before anything has run.
Publish ==
    /\ edges = {}
    /\ how = "entry"
    /\ edges' # {}
    /\ UNCHANGED <<at, how>>

Move ==
    /\ \E e \in edges :
           /\ e.from = at
           /\ at' = e.to
           /\ how' = e.type
    /\ UNCHANGED edges

Next == Publish \/ Move

Spec == Init /\ [][Next]_walkVars

=============================================================================
