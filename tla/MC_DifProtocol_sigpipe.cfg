CONSTANTS
    MaxX <- MCMaxX
    Sizes <- MCSizes
    Fourth = {"nul"}
    ShortReads = FALSE
    Signals = FALSE
    Resets = TRUE
    SigpipeIgnored = FALSE
SPECIFICATION Spec
INVARIANT SurvivesReset
CHECK_DEADLOCK FALSE
