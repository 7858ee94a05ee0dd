SPECIFICATION LiveSpec
CONSTANTS
    w1 = w1
    w2 = w2
    Writers = {w1, w2}
    WriterTable <- TwoSyncers
    TableOrder <- HistoryOnly
    Mode = "disk"
    MemSize = 1
    MaxRecords = 2
    MaxBatch = 1
    MaxWritten = 2
    MaxHandles = 2
    MaxRestarts = 1
    MayAge = FALSE
    MayExpire = FALSE
    Passive = FALSE
INVARIANTS HistoryNoLoss OnlyDuplicatesDiscarded
PROPERTIES HistoryDelivered
