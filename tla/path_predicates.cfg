\* The path predicates against runs of the same blocks.
CONSTANTS
    Value <- Values
    Def <- Defs
    Makes <- Inputs
    Fixed = {"x", "one"}
    Readable <- Anything
    MaxInt = 2
    Programs <- AllPrograms
    MaxFrames = 2

SPECIFICATION FairSpec

INVARIANTS
    TypeOK
    PredicatesHold
    NoPathPredicateLost

PROPERTIES
    TakenEdgesAreFeasible
    AnalysisEnds

\* A run stops.
CHECK_DEADLOCK FALSE
