SPECIFICATION Spec
CONSTANTS
    Nodes = {n1}
    Jobs = {j1}
    Workers = {w1}
    Starter = Starter
    NoNode = NoNode
    NoOcc = NoOcc
    ChanCap = 1
    StaleAfter = 1
    Lookback = 3
    Overlap <- AllSkip
    Recovery <- RecoverAll
    WindowDuration = 0
    WindowOccurrences = 0
    CatchUp = {}
    Active = {j1}
    Paused = {}
    ListLimit = 5
    MaxTime = 1
    MaxBoots = 2
    MaxFaults = 0
INVARIANT RecoveryLeavesNoPending
CHECK_DEADLOCK FALSE
