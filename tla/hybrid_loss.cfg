SPECIFICATION Spec
CONSTANTS
    w1 = w1
    w2 = w2
    Writers = {w1}
    WriterTable <- OneSyncer
    TableOrder <- HistoryOnly
    Mode = "hybrid"
    MemSize = 1
    MaxRecords = 2
    MaxBatch = 2
    MaxWritten = 5
    MaxHandles = 5
    MaxRestarts = 0
    MayAge = FALSE
    MayExpire = FALSE
    Passive = FALSE
INVARIANTS HistoryNoLoss
