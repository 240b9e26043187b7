SPECIFICATION FairSpec
CONSTANTS
    d1 = d1
    d2 = d2
    Prompt <- MCPrompt
    Dispatcher <- MCDispatcher
    None = None
    Foreign = Foreign
    Setups <- MCSetups
PROPERTIES
    QueuedIsSettled
CHECK_DEADLOCK FALSE
