CONSTANTS
    MaxIn = 2
    MaxOut = 1
    ListenFd = 3
    FreeFds <- TwoFds
    MaxRwErrors = 1
    Backlog = 1
    MaxConnects = 1
    MaxSends = 0
    MaxRecvErrors = 1
    MaxResets = 2
SPECIFICATION EchoFairSpec
INVARIANTS
    EchoInv
    NobodyCharged
    ServerSurvives
PROPERTIES
    WaitsEnd
    EndsNoticed
