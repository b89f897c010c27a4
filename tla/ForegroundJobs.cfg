CONSTANTS
    m1 = m1  m2 = m2  a = a  b = b  c = c  d = d
    Managers = {m1, m2}
    Jobs = {a, b, c, d}
    ManagerOf <- FourJobs
    Critical = {b, c}
    Speculative = {m1}
    None = None
SPECIFICATION FairSpec
INVARIANT AddedCountExact
PROPERTIES CallsEnd KeepsPromises
CHECK_DEADLOCK FALSE
