SPECIFICATION FairSpec
CONSTANTS
    s = s
    p = p
    r = r
    i = i
    Caller <- MCCaller
    KindOf <- MCKindOf
    None = None
    Id = {1, 2, 3, 4, 5}
    MaxStarts = 2
    MaxFaults = 2
    Setups <- MCSetups
INVARIANTS
    SupervisorIsSound
PROPERTIES
    LateNewsIsIgnored
    CallReturns
    FaultsAreHealed
CHECK_DEADLOCK FALSE
