SPECIFICATION Spec
CONSTANTS
    w1 = w1
    w2 = w2
    Writers = {w1, w2}
    WriterTable <- SyncerAndTrapper
    TableOrder <- HistoryAutoreg
    Mode = "hybrid"
    MemSize = 1
    MaxRecords = 2
    MaxBatch = 1
    MaxWritten = 2
    MaxHandles = 2
    MaxRestarts = 0
    MayAge = TRUE
    MayExpire = FALSE
    Passive = TRUE
INVARIANTS TypeOK HandlesCounted AcceptedOnce
PROPERTIES DrainedSwitch
