CONSTANTS
    MaxX <- MCMaxX
    Sizes <- MCSizes
    Fourth = {"nul"}
    ShortReads = TRUE
    Signals = FALSE
    Resets = FALSE
    SigpipeIgnored = FALSE
SPECIFICATION Spec
INVARIANT StreamIntegrity
CHECK_DEADLOCK FALSE
