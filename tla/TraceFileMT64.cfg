CONSTANTS
    Record = {"r1", "r2"}
    NoRecord = "zero"
    BUFFER_SIZE = 2
    RECORD_BYTES = 20
    HEADER_BYTES = 16
    MaxRecords = 7
SPECIFICATION Spec
INVARIANT
    HeaderTellsFileSize
CHECK_DEADLOCK FALSE
