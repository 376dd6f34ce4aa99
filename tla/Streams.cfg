CONSTANTS
    MaxIn = 2
    MaxOut = 2
    MaxRecvErrors = 2
    MaxResets = 1
    MaxConnects = 2
    MaxGlitches = 4
    UxListenFd = 3
    UxFds = {4, 5}
    UxBuffer = 2
    UxBacklog = 1
    UxMaxConnects = 3
    UxMaxSends = 3
    UcLens = {1, 2}
    max_recv_errors = 3
    write_after = 1
    NcMaxHalves = 1
    TrCap = 2
    TrCounts = {0, 1, 3}
    TrMaxCalls = 2
    GcChildren = {"child1", "child2"}
    GcClients = {"c1", "c2"}
    GcBacklog = 0
    McMaxTries = 2
    EbFds = {3, 4, 5, 6}
    EbPorts = {1, 2}
    max_tries = 4
    HgMaxServed = 3
    BufferLength = 2
SPECIFICATION StreamsSpec
INVARIANTS
    ClientInv
    UnixInv
    TransferInv
    ListenInv
    HttpInv
    UcInv
    TsInv
PROPERTIES
    UxImplementsConnTable
    NbClientEnds
    LossNoticed
CHECK_DEADLOCK FALSE
