CONSTANTS
    MaxIn = 2
    MaxOut = 2
    UxListenFd = 3
    UxFds = {4, 5}
    UxBuffer = 2
    UxBacklog = 1
    UxMaxConnects = 2
    UxMaxSends = 2
SPECIFICATION UxFairSpec
PROPERTIES
    RecvReturns
CHECK_DEADLOCK FALSE
