CONSTANTS
    MaxServers = 1
    MaxClients = 1
    ServerAttempts = 2
    ClientAttempts = 2
    Faults = {"fail"}
    ClientStartsAfter = "init_called"
SPECIFICATION LiveSpec
PROPERTY
    ConnectReturns
CHECK_DEADLOCK FALSE
