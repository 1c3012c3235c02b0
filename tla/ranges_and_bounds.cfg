\* Ranges from asserts and accesses proved in bounds against runs of the same blocks.
CONSTANTS
    Value <- Values
    Def <- Defs
    Makes <- Makings
    Fixed = {"buf", "zero", "one", "two", "lit"}
    Readable <- Reading
    MaxInt = 31
    Bounded = {"b", "n"}
    Tracked <- Known
    Programs <- AllPrograms
    MaxFrames = 2

SPECIFICATION BoundsSpec

INVARIANTS
    BoundsTypeOK
    NarrowedRangesHold
    RangeAtHolds
    FewRounds
    InBoundsHolds
    ProvenOobHolds

PROPERTY PhiArgumentsInRange

\* A run stops.
CHECK_DEADLOCK FALSE
