SPECIFICATION LiveSpec
CONSTANTS
    a = a
    b = b
    t = t
    u = u
    s1 = s1
    s2 = s2
    main = main
    Items = {a, b}
    Log = {a}
    Removable = {b}
    Triggers = {t, u}
    Uses <- SharedTrigger
    Timed = {t}
    Trend = {t}
    Writers = {"p"}
    Syncers = {s1, s2}
    Main = main
    MemSize = 2
    SyncMax = 2
    MaxFlush = 2
    MaxRecords <- TwoAndOne
    MaxFired = 1
    Faults = {}
PROPERTIES ServerStops
