CONSTANTS
    MaxMessages = 2
    MaxRetries = 1
    MaxLosses = 0
    MaxRepeats = 0
    MaxStrays = 0
    MaxGlitches = 0
    MaxCuts = 1
SPECIFICATION UdpEchoSpec
INVARIANT NextSendIsTaken
CHECK_DEADLOCK FALSE
