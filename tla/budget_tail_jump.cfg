CONSTANTS
    Programs <- TailJumps
    OpCost <- OpCostTable
    Credit = 10
    MaxStack = 4
    MaxFrames = 3
    MaxExcess = 1

SPECIFICATION Spec

PROPERTY InfeasibleIsNeverExecuted

\* A program stops.
CHECK_DEADLOCK FALSE
