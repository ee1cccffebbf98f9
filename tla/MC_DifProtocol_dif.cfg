CONSTANTS
    MaxX <- MCMaxX
    Sizes <- MCSizes
    Fourth = {"nul"}
    ShortReads = FALSE
    Signals = FALSE
    Resets = FALSE
    SigpipeIgnored = FALSE
SPECIFICATION Spec
INVARIANT TypeOK
PROPERTY DifChannelSpec
CHECK_DEADLOCK FALSE
