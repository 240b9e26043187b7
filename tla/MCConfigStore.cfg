SPECIFICATION Spec
CONSTANTS
    s1 = s1
    s2 = s2
    c1 = c1
    Save <- MCSave
    Configure <- MCConfigure
    Startup = Startup
    None = None
    Setups <- MCSetups
INVARIANTS
    ConfigIsDurable
    MemoryIsDisk
CHECK_DEADLOCK FALSE
