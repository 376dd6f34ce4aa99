CONSTANTS
    Clients2 = {"a", "b"}
    AskOnce = {"b"}
    Words = 4
    Swap <- TheSwap
    IncAmount <- TheInc
    MaxAsks = 2
    MaxCopies = 1
    MaxLost = 1
    MaxMessages = 2
    MaxRetries = 1
    MaxLosses = 1
    MaxRepeats = 1
    MaxStrays = 1
    MaxGlitches = 1
    MaxCuts = 1
    OnceClients = {"c1", "c2"}
    MaxRuns = 2
    MaxAgain = 1
    MaxOthers = 1
    Callsigns = {"s1", "s2"}
    Addrs = {"a1", "a2"}
    Bodies <- TheBodies
    FindProperty <- Find
    IsNan <- Nan
    MAX_TEXT_SIZE = 2
    MaxHeard = 3
    Lens = {20, 40}
    CutAt = {0, 16, 40, 60}
    Times = {2, 12, 13}
    max_wait_cycles = 1
    MaxRecords = 2
    MaxStrangers = 1
    MaxRecvRuns = 3
    MaxGot = 4
SPECIFICATION Spec
INVARIANTS
    CounterInv
    UdpEchoInv
    OnceInv
    MpInv
    RawInv
    RecvInv
PROPERTIES
    ImplementsAccumulator
    AnsweredUnlessLost
    WaitGetsReply
    MpClientGoesOn
CHECK_DEADLOCK FALSE
