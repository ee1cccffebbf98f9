\* dcc loop, cancelled while buffering: stale windows are streamed.
CONSTANTS
    NbRfm <- MCNbRfm
    MaxSeg <- MCMaxSeg
    MaxCycle <- MCMaxCycle
    TrigMode = 0
SPECIFICATION Spec
CHECK_DEADLOCK FALSE
INVARIANT StreamedFresh
