CONSTANTS
    MaxIn = 2
    MaxOut = 1
    ListenFd = 3
    FreeFds <- ThreeFds
    MaxConns = 2
    MaxLine = 1
    Backlog = 1
    MaxConnects = 3
    MaxSends = 2
SPECIFICATION FairSpec
INVARIANTS
    SelectNotStale
    NbInv
PROPERTIES
    ImplementsConnTable
    InputIsRead
    SlotsAreFreed
