SPECIFICATION Spec
CONSTANTS
    Nodes = {n1}
    Jobs = {j1}
    Workers = {w1, w2}
    Starter = Starter
    NoNode = NoNode
    NoOcc = NoOcc
    ChanCap = 2
    StaleAfter = 1
    Lookback = 3
    Overlap <- AllSkip
    Recovery <- RecoverAll
    WindowDuration = 0
    WindowOccurrences = 0
    CatchUp = {}
    Active = {j1}
    Paused = {}
    ListLimit = 5
    MaxTime = 2
    MaxBoots = 1
    MaxFaults = 0
INVARIANT NoSelfOverlap
CHECK_DEADLOCK FALSE
