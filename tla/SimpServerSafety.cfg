CONSTANTS
    MaxIn = 2
    MaxOut = 1
    ListenFd = 3
    FreeFds <- ThreeFds
    MaxRwErrors = 1
    Backlog = 2
    MaxConnects = 3
    MaxSends = 2
SPECIFICATION Spec
INVARIANTS
    TableMatchesKernel
    HighestCovers
    ErrorsAccounted
    ReadinessHolds
    ErrorsBelongToConnection
    ServerInv
PROPERTIES
    ClosedOnlyAfterErrors
    ImplementsConnTable
