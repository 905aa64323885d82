CONSTANTS
    BLOCK_COUNT = 3
    BLOCK_SIZE = 2
    Cell <- MCCell
    Zero = 0
    Magic = 1
    Junk <- Block
    Messages <- MCMessages
    ReadSizes <- MCReadSizes
SPECIFICATION LiveSpec
INVARIANTS
    TypeOK
    NoBlockRace
    RingInv
    NoLostWakeup
    NoMutualWait
PROPERTIES
    ImplementsBlockQueue
    ServerCallsReturn
    BlocksAreTaken
