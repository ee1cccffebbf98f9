CONSTANTS
    MaxX <- MCMaxX
    Sizes <- MCSizes
    Fourth = {"nul"}
    ShortReads = FALSE
    Signals = FALSE
    Resets = TRUE
    SigpipeIgnored = TRUE
SPECIFICATION Spec
INVARIANT StreamIntegrity
CHECK_DEADLOCK FALSE
