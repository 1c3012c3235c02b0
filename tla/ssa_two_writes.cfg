\* A loop in which two blocks write a slot, one of them after reading it.
CONSTANTS
    Programs <- SlotPrograms
    MaxFrames = 2
    MaxStack = 4

SPECIFICATION Spec

INVARIANT KilledWritesAreDead

CHECK_DEADLOCK FALSE
