SPECIFICATION SteerSpec
CONSTANTS
    d1 = d1
    d2 = d2
    Prompt <- MCPrompt
    Dispatcher <- MCDispatcher
    None = None
    Foreign = Foreign
    Setups <- MCSetups
INVARIANTS
    ClaimsAreSound
    NoSilentReplay
    PolicyIsRight
PROPERTIES
    HandsOverRightly
SYMMETRY MCSymmetry
CHECK_DEADLOCK FALSE
