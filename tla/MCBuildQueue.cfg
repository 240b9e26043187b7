SPECIFICATION QueueSpec
CONSTANTS
    k1 = k1
    k2 = k2
    c1 = c1
    c2 = c2
    c3 = c3
    i1 = i1
    i2 = i2
    i3 = i3
    Key <- MCKey
    Request <- MCRequest
    KeyOf <- MCKeyOf
    KindOf <- MCKindOf
    None = None
INVARIANTS
    PlacedOnce
    LatestInteractiveWaits
PROPERTIES
    GrantOrder
    ImplementsTurns
SYMMETRY MCSymmetry
