SPECIFICATION Spec
CONSTANTS
    w1 = w1
    w2 = w2
    Writers = {w1, w2}
    WriterTable <- SyncerAndDiscoverer
    TableOrder <- HistoryDiscovery
    Mode = "memory"
    MemSize = 2
    MaxRecords = 2
    MaxBatch = 2
    MaxWritten = 3
    MaxHandles = 2
    MaxRestarts = 1
    MayAge = FALSE
    MayExpire = TRUE
    Passive = TRUE
INVARIANTS BufferNoLoss
