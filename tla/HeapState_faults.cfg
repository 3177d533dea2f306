SPECIFICATION Spec
CONSTANTS
    t1 = t1
    t2 = t2
    Threads = {t1}
    NoThread = NoThread
    Names = {1}
    Payloads <- MCPayloads
    NullPayload <- MCNull
    HeaderSize = 1
    EntrySize = 1
    Strict = TRUE
    Checksums = TRUE
    CheckpointRecords = 4
    Faults = {"read", "append", "flush_data", "write_tmp", "flush_tmp", "atomic_replace", "truncate", "flush_all"}
    MaxTx = 2
INVARIANTS LocatorsResolve AtMostOnce PublishedIsDurable
PROPERTIES FailStop LockReleased
