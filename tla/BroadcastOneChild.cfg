CONSTANTS
    p = p  c1 = c1  k1 = k1  k2 = k2  o1 = o1  o2 = o2  o3 = o3  o4 = o4
    Contents = {k1, k2}
    Objects = {o1, o2, o3, o4}
    RuntimeOf <- OneChild
    Parent = p
    Children = {c1}
    MaxHandles = 1
    None = None
SPECIFICATION FairSpec
INVARIANTS RefCountExact NoUseAfterFree NoLeak
PROPERTIES KeepsHandleRule CallsReturn
CHECK_DEADLOCK FALSE
