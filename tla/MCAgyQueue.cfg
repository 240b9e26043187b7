SPECIFICATION Spec
CONSTANTS
    d1 = d1
    d2 = d2
    Prompt <- MCPrompt
    Dispatcher <- MCDispatcher
    Creator = Creator
    None = None
    MaxTurns = 2
    Setups <- MCSetups
INVARIANTS
    DeliveriesAreHeld
    TurnsAreSeparate
    DeliveredOncePerQueuing
SYMMETRY MCSymmetry
CHECK_DEADLOCK FALSE
