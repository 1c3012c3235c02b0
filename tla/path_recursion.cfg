\* Predicates of values kept across recursive calls.
CONSTANTS
    Value <- Values
    Def <- Defs
    Makes <- Inputs
    Fixed = {"x", "one"}
    Readable <- Anything
    MaxInt = 2
    Programs <- RecursivePrograms
    MaxFrames = 2

SPECIFICATION FairSpec

INVARIANT PredicatesHold

CHECK_DEADLOCK FALSE
