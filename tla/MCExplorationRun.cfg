SPECIFICATION Spec
CONSTANTS
    thread = thread
    i1 = i1
    i2 = i2
    c1 = c1
    e1 = e1
    e2 = e2
    e3 = e3
    v1 = v1
    None = None
    Key <- MCKey
    Request <- MCRequest
    KeyOf <- MCKeyOf
    KindOf <- MCKindOf
    Cycle <- MCCycle
    Version <- MCVersion
    Setups <- MCSetups
INVARIANTS
    RunsOwnTheirThread
    InFlightHasDriver
    OneActiveCycle
PROPERTIES
    EndedCycleIsFinal
SYMMETRY MCSymmetry
CHECK_DEADLOCK FALSE
