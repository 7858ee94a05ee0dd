SPECIFICATION LiveSpec
CONSTANTS
    m = m
    a = a
    b = b
    s = s
    w1 = w1
    w2 = w2
    Items = {m, a, b, s}
    Serial = {m, b, s}
    Internal = {s}
    Cacheable = {b}
    Plain = {}
    Deps <- MasterOfTwo
    Removable = {b, s}
    Workers = {w1, w2}
    MaxBatch = 2
    MaxValues = 3
    MaxTests = 1
    MaxSyncs = 1
INVARIANTS TypeOK CountersExact NoneForgotten SerialAlone AcceptedOnce
PROPERTIES KeepsOrder EveryValueLeaves StopEnds
CHECK_DEADLOCK FALSE
