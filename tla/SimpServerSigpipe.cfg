CONSTANTS
    MaxIn = 2
    MaxOut = 1
    ListenFd = 3
    FreeFds <- TwoFds
    MaxRwErrors = 1
    Backlog = 1
    MaxConnects = 1
    MaxSends = 2
SPECIFICATION Spec
INVARIANTS
    RunsUntilTold
