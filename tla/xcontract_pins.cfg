\* The pin-merging walk against the meet over all call chains.
CONSTANTS
    a = a
    b = b
    c = c
    v = v
    w = w
    Root = root
    Apps <- AllApps
    Index = {1, 2}
    Consts <- TwoConsts
    Networks <- AllNetworks
    MaxDepth = 3

SPECIFICATION Spec

INVARIANTS
    TypeOK
    AnalysesAreTheMeet
    EdgeDepthIsShortest

\* The walk is over when its queue is empty.
CHECK_DEADLOCK FALSE
