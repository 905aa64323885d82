CONSTANTS
    MaxServers = 2
    MaxClients = 2
    ServerAttempts = 2
    ClientAttempts = 2
    Faults = {"fail", "timeout", "quit", "crash"}
    ClientStartsAfter = "anytime"
SPECIFICATION LiveSpec
INVARIANTS
    TypeOK
    HandshakeInv
    AnswerIsRight
    FailedServerLeavesNoNames
PROPERTY
    ServerStopsWaiting
CHECK_DEADLOCK FALSE
