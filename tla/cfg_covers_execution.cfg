\* The published graph against the AVM, over short and hand-made programs.
CONSTANTS
    Names <- AllNames
    Programs <- AllPrograms
    MaxFrames = 2

SPECIFICATION FairSpec

INVARIANTS
    TypeOK
    ExecutionIsReachable
    FramesNestInBodies
    ReturnsMatchReachableCalls
    BlocksAreStraightLine

PROPERTIES
    CoversExecution
    DerivationEnds

\* An execution of the analysed program stops.
CHECK_DEADLOCK FALSE
