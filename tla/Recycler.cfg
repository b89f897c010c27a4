\* The collector and the script over two small heaps.
SPECIFICATION Spec
CONSTANTS
    a = a
    b = b
    c = c
    None = None
    Obj = {a, b, c}
    Starts <- TwoHeaps
    MaxOps = 2
    MaxCollections = 2
    MaxPins = 1
    MaxBackgroundFinishMarkCount = 1
INVARIANTS
    NothingReachableSwept
    WeakReferencesResolve
    MarkedMeansScanned
    PinsNotMissed
    OneWorkItem
PROPERTY PinMapStable
CHECK_DEADLOCK FALSE
