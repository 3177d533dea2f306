SPECIFICATION DSpec
CONSTANTS
    t1 = t1
    Threads = {t1}
    NoThread = NoThread
    Names = {1, 2}
    Payloads <- MCPayloads
    NullPayload <- MCNull
    HeaderSize = 1
    EntrySize = 1
    Strict = TRUE
    Checksums = TRUE
    CheckpointRecords = 4
    Faults = {}
    MaxTx = 1
    CrashKinds = {"process", "power"}
    TornAppends = TRUE
    MaxCrashes = 1
INVARIANTS OpenAccepted CommitsSurvive ContentSurvives ChecksFailByCheckpoint ChecksAreComplete
PROPERTY AtomicRecovery
