\* Routines that leave two outputs of one operation in the cells of their caller.
CONSTANTS
    Programs <- WidePrograms
    MaxFrames = 2
    MaxStack = 6

SPECIFICATION Spec

PROPERTY SummariesAreExact

CHECK_DEADLOCK FALSE
