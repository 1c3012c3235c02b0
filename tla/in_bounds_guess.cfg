\* Accesses said to be in bounds, wherever the facts come from.
CONSTANTS
    Value <- Values
    Def <- Defs
    Makes <- Makings
    Fixed = {"buf", "zero", "one", "two", "lit"}
    Readable <- Reading
    MaxInt = 31
    Bounded = {"b", "n"}
    Tracked <- Known
    Programs <- Accessing
    MaxFrames = 2

SPECIFICATION BoundsSpec

INVARIANT InBoundsIsAProof

CHECK_DEADLOCK FALSE
