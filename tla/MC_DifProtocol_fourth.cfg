CONSTANTS
    MaxX <- MCMaxX
    Sizes <- MCSizes
    Fourth = {"nul", "x"}
    ShortReads = FALSE
    Signals = FALSE
    Resets = FALSE
    SigpipeIgnored = FALSE
SPECIFICATION Spec
INVARIANT StreamIntegrity
CHECK_DEADLOCK FALSE
