\* soft loop: two slots, segments of 0 or 1 byte, three cycles.
CONSTANTS
    NbRfm <- MCNbRfm
    MaxSeg <- MCMaxSeg
    MaxCycle <- MCMaxCycle
    TrigMode = 1
SPECIFICATION Spec
\* The loop returns once cancelled (pc = "done"): a real end of behaviour.
CHECK_DEADLOCK FALSE
INVARIANTS
    TypeOK
    NoWaitOnIdleBoard
PROPERTIES
    CancelStopsLoop
