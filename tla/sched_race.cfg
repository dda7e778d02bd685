SPECIFICATION Spec
CONSTANTS
    Nodes = {n1, n2}
    Jobs = {j1}
    Workers = {w1}
    Starter = Starter
    NoNode = NoNode
    NoOcc = NoOcc
    ChanCap = 1
    StaleAfter = 0
    Lookback = 3
    Overlap <- AllAllow
    Recovery <- RecoverAll
    WindowDuration = 0
    WindowOccurrences = 0
    CatchUp = {}
    Active = {j1}
    Paused = {}
    ListLimit = 5
    MaxTime = 1
    MaxBoots = 2
    MaxFaults = 0
SYMMETRY Symmetry
INVARIANTS AtMostOnce OneHolder NoOrphans
PROPERTY ImplementsLedger
CHECK_DEADLOCK FALSE
