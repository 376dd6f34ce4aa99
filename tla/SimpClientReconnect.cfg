CONSTANTS
    MaxIn = 2
    MaxOut = 1
    MaxRecvErrors = 2
    MaxResets = 1
    MaxConnects = 1
    MaxGlitches = 0
SPECIFICATION Spec
INVARIANTS
    LossReconnects
