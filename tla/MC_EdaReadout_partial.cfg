\* dcc loop, cancelled while buffering: a partial cycle is written.
CONSTANTS
    NbRfm <- MCNbRfm
    MaxSeg <- MCMaxSeg
    MaxCycle <- MCMaxCycle
    TrigMode = 0
SPECIFICATION Spec
CHECK_DEADLOCK FALSE
PROPERTY WrittenCycleComplete
