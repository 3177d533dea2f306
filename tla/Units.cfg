SPECIFICATION UnitsSpec
CONSTANTS
    CodecEdits = 2
    JsonEdits = 2
    SqlEdits = 1
    TreeEdits = 3
    MaxOps = 5
INVARIANTS WrittenIsRead CutIsRefused AcceptedSettles ReserveBounded AcceptedIsWritable NothingIgnored BytesExact DirtyComplete BoundTogether
PROPERTIES EvictsColdest ImplementsCache
CHECK_DEADLOCK FALSE
