CONSTANTS
    Programs <- AllPrograms
    OpCost <- OpCostTable
    Credit = 16
    MaxStack = 4
    MaxFrames = 3
    MaxExcess = 1

SPECIFICATION Spec

INVARIANT LapsWithinBounds

PROPERTIES
    MinimumIsPaid
    ReturnsCostTheirSummary

\* A program stops.
CHECK_DEADLOCK FALSE
