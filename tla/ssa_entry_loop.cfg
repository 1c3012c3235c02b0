\* A loop that begins at the entry of a routine without proto.
CONSTANTS
    Programs <- LoopPrograms
    MaxFrames = 2
    MaxStack = 4

SPECIFICATION Spec

INVARIANT LoopsKeepEveryLap

CHECK_DEADLOCK FALSE
