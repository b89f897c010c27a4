CONSTANTS
    f1 = f1  f2 = f2  m1 = m1  m2 = m2  a = a  b = b  c = c
    w1 = w1  w2 = w2
    Foregrounds = {f1, f2}
    Managers = {m1, m2}
    Jobs = {a, b, c}
    Workers = {w1, w2}
    Owner <- TwoOwners
    ManagerOf <- ThreeJobs
    Critical = {c}
    Speculative = {m1}
    HybridThreshold = 1
    HasCallback = FALSE
    MayTimeOut = TRUE
    MaxNumJobs = 3
    None = None
SPECIFICATION Spec
SYMMETRY WorkerSymmetry
INVARIANTS
    AddedCountExact NoLostWakeup WaiterNotStranded RemovedManagerQuiet
    ClosedIsQuiet
PROPERTY KeepsPromises
