CONSTANTS
    MaxServers = 1
    MaxClients = 1
    ServerAttempts = 2
    ClientAttempts = 3
    Faults = {}
    ClientStartsAfter = "init_called"
SPECIFICATION LiveSpec
PROPERTY
    HandshakeCompletes
CHECK_DEADLOCK FALSE
