CONSTANTS
    BLOCK_COUNT = 2
    BLOCK_SIZE = 3
    Cell <- MCCell
    Zero <- MCZero
    Magic <- MCMagic
    Junk <- MCJunk
    Messages <- MCMessages
    ReadSizes <- MCReadSizes
    WordSize = 1
    RecordSize = 2
    Records = {"r1", "r2"}
    MaxSessions = 3
    MaxRecords = 3
SPECIFICATION TracingLive
INVARIANTS
    TracingTypeOK
    ReaderSeesWhatWasSent
    ReaderNeverFails
    FlushDropsOnlyPadding
PROPERTIES
    ClosedSessionsArrive
    GuestIsNotStuck
