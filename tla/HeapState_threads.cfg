SPECIFICATION Spec
CONSTANTS
    t1 = t1
    t2 = t2
    Threads = {t1, t2}
    NoThread = NoThread
    Names = {1, 2}
    Payloads <- MCPayloads
    NullPayload <- MCNull
    HeaderSize = 1
    EntrySize = 1
    Strict = TRUE
    Checksums = TRUE
    CheckpointRecords = 100
    Faults = {}
    MaxTx = 2
SYMMETRY Symmetry
INVARIANTS TypeOK AtomicVisibility
PROPERTIES NoLostUpdate ImplementsStore
