CONSTANTS
    MaxServers = 1
    MaxClients = 3
    ServerAttempts = 2
    ClientAttempts = 2
    Faults = {"fail", "timeout", "quit"}
    ClientStartsAfter = "init_returned"
SPECIFICATION LiveSpec
PROPERTY
    ConnectReturns
CHECK_DEADLOCK FALSE
