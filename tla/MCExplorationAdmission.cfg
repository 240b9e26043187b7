SPECIFICATION FairSpec
CONSTANTS
    t1 = t1
    c1 = c1
    i1 = i1
    i2 = i2
    Key <- MCKey
    Request <- MCRequest
    KeyOf <- MCKeyOf
    KindOf <- MCKindOf
    None = None
    Cancellable <- MCCancellable
INVARIANTS
    RunnerOwnsTarget
    OwnerIsAlive
    NoLostWakeup
    SupersededIsFinal
    RemovedNeverRuns
PROPERTIES
    AdmitReturns
    NewestInteractiveRuns
    CancelIsDelivered
CHECK_DEADLOCK FALSE
