SPECIFICATION RSpec
CONSTANTS
    t1 = t1
    Threads = {t1}
    NoThread = NoThread
    Names = {1}
    Payloads <- MCPayloads
    NullPayload <- MCNull
    HeaderSize = 1
    EntrySize = 1
    Strict = TRUE
    Checksums = TRUE
    CheckpointRecords = 100
    Faults = {}
    MaxTx = 1
    CrashKinds = {"power"}
    TornAppends = TRUE
    MaxCrashes = 2
INVARIANT OpenAccepted
