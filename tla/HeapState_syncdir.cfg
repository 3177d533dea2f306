SPECIFICATION Spec
CONSTANTS
    t1 = t1
    t2 = t2
    Threads = {t1}
    NoThread = NoThread
    Names = {1, 2}
    Payloads <- MCPayloads
    NullPayload <- MCNull
    HeaderSize = 1
    EntrySize = 1
    Strict = TRUE
    Checksums = TRUE
    CheckpointRecords = 3
    Faults = {"sync_directory"}
    MaxTx = 2
INVARIANT LocatorsResolve
