\* The three guests, with and without metadata.
CONSTANTS
    PpcAddresses = 8
    PpcRegCount = 3
    PpcPageSize = 4
    PpcLineSize = 4
    PpcHalf = 4
    PpcValues = {0, 4}
    PpcPcs = {0, 4}
    NoEntry = NoEntry
    NoPhys = NoPhys
    PpcCpus <- MCPpcCpus
    PpcAccesses <- MCPpcAccesses
    PpcDoubles <- MCPpcDoubles
    PpcIndexed <- MCPpcIndexed
    PpcMultiples <- MCPpcMultiples
    PpcLengths <- MCPpcLengths
    I386Pages <- MCI386Pages
    I386Ptes <- MCI386Ptes
    I386Cpus <- MCI386Cpus
    I386Sizes = {"B32"}
    Uncached = Uncached
    ArmPages = {0, 1}
    ArmPageSize = 4
    ArmAddresses = {2, 4}
    ArmSizes = {"B8", "B16", "B32", "B64"}
    ArmCpus <- MCArmCpus
    NoPage = NoPage
    NoExclusive = NoExclusive
    Targets = {"ppc", "i386", "arm"}
    Metas = {TRUE, FALSE}
SPECIFICATION GuestSpec
\* A helper may end QEMU.
CHECK_DEADLOCK FALSE
INVARIANTS
    GuestTypeOK
    RecordsMatchEvents
    EventIsTold
    StoringKeepsTheWord
    AddressIsTold
    AttributesAreTold
