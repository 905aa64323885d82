CONSTANTS
    Record = {"r1", "r2"}
    NoRecord = "zero"
    BUFFER_SIZE = 2
    RECORD_BYTES = 16
    HEADER_BYTES = 16
    MaxRecords = 7
SPECIFICATION LiveSpec
INVARIANTS
    TypeOK
    FileInv
    NoBufferRace
    FileIsPrefix
    HeaderTellsFileSize
PROPERTIES
    ImplementsTraceLog
    GuestIsNotStuck
CHECK_DEADLOCK FALSE
