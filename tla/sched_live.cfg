SPECIFICATION FairSpec
CONSTANTS
    Nodes = {n1}
    Jobs = {j1}
    Workers = {w1}
    Starter = Starter
    NoNode = NoNode
    NoOcc = NoOcc
    ChanCap = 1
    StaleAfter = 0
    Lookback = 2
    Overlap <- AllSkip
    Recovery <- RecoverWindow
    WindowDuration = 2
    WindowOccurrences = 1
    CatchUp = {j1}
    Active = {j1}
    Paused = {}
    ListLimit = 5
    MaxTime = 2
    MaxBoots = 2
    MaxFaults = 1
INVARIANTS TypeOK OnlyStaleReaped ShutdownQuiesces NoGap
PROPERTIES PendingStarts StaleIsReaped StartAndShutdownReturn NeverRevived PanicNeedsTimeout
CHECK_DEADLOCK FALSE
