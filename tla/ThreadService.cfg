CONSTANTS
    f1 = f1  f2 = f2  m1 = m1  m2 = m2  a = a  b = b  c = c
    w1 = w1  w2 = w2
    Foregrounds = {f1}
    Managers = {m1, m2}
    Jobs = {a, b, c}
    Workers = {w1, w2}
    Owner <- SameOwner
    ManagerOf <- ThreeJobs
    Critical = {}
    Speculative = {m1}
    HybridThreshold = 1
    HasCallback = TRUE
    MayTimeOut = TRUE
    MaxNumJobs = 3
    None = None
SPECIFICATION Spec
INVARIANTS
    NoLostWakeup WaiterNotStranded
