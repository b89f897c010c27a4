CONSTANTS
    f1 = f1  f2 = f2  m1 = m1  m2 = m2  a = a  b = b  c = c
    w1 = w1  w2 = w2
    Foregrounds = {f1}
    Managers = {m1, m2}
    Jobs = {a, c}
    Workers = {w1, w2}
    Owner <- SameOwner
    ManagerOf <- TwoJobs
    Critical = {c}
    Speculative = {m1}
    HybridThreshold = 0
    HasCallback = FALSE
    MayTimeOut = FALSE
    MaxNumJobs = 2
    None = None
SPECIFICATION FairSpec
PROPERTIES
    WaitsEnd JobsLeave
