CONSTANTS
    Calls = {c1, c2, c3}
    Validators = {1, 2}
    SlotsPerEpoch = 1
    MaxSlot = 2
    NoData = NoData
    Duties <- MCDuties
SYMMETRY MCSymmetry
INIT Init
NEXT Next
INVARIANT EvictedTwoEpochsAfter
