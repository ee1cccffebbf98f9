CONSTANTS
    NbRfm <- MCNbRfm
    Difs <- MCDifs
    Shapers <- MCShapers
    Addrs <- MCAddrs
    A1 = A1
    NoAddr = NoAddr
    MaxPoll <- MCMaxPoll
SPECIFICATION Spec
INVARIANTS TypeOK RunStartsInitialized
\* the process ends after device_free or a crash
CHECK_DEADLOCK FALSE
