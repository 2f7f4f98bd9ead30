CONSTANTS
    Contents <- MCContents
    MaxTime = 130
    TickSteps = {1, 59, 60}
    Millisecond = 1000000
    Missing = Missing
INIT Init
NEXT Next
INVARIANT ConsistentWithinWindow
