CONSTANTS
    MaxIn = 1
    MaxOut = 1
    ListenFd = 3
    FreeFds <- ThreeFds
    MaxRwErrors = 1
    Backlog = 1
    MaxConnects = 2
    MaxSends = 2
SPECIFICATION FairSpec
PROPERTIES
    GonePeersAreDropped
    MessagesAreRead
