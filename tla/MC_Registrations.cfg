CONSTANTS
    a1 = a1
    a2 = a2
    r1 = r1
    r2 = r2
    Validators = {1, 2, 3}
    Addresses <- MCAddresses
    Relays <- MCRelays
    ZeroAddress = ZeroAddress
SYMMETRY MCSymmetry
INIT Init
NEXT Next
INVARIANTS
    TypeOK
    CompleteBatch
PROPERTY BatchBroadcastRefined
