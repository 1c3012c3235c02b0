CONSTANTS
    Programs <- AllPrograms
    MaxFrames = 3
    MaxStack = 6

SPECIFICATION Spec

INVARIANTS
    TypeOK
    ReadsAreCovered
    NoSilentRead
    HeightsAreExact
    OwnersRun
    RoundsSettle

PROPERTIES
    CallsKeepTheRest
    SummariesHold

\* A program stops.
CHECK_DEADLOCK FALSE
