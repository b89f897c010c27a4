CONSTANTS
    a1 = a1  a2 = a2  a3 = a3  l1 = l1  l2 = l2
    Agents = {a1, a2, a3}
    Indices = {0}
    Values = {0, 1}
    Lists = {l1, l2}
    Counts <- SmallCounts
    HalfWord = 4
    None = None
SPECIFICATION FairSpec
INVARIANTS TypeOK WaitersExact NoLostWakeup
PROPERTY WaitEnds
CHECK_DEADLOCK FALSE
