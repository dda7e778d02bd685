SPECIFICATION Spec

CONSTANTS
    Sched = Sched
    Tools = {a}
    t1 = t1
    t2 = t2
    Tasks = {t1, t2}
    Initial = {t1}
    Foreign = {t2}
    Updates <- SomeUpdates
    Enabled = TRUE
    Horizon = 1
    MaxVersion = 3
    MaxTickers = 3
    MaxTime = 1
    MaxFaults = 1

INVARIANTS TypeOK StoreDescribesMemory TickerFollowsLife
PROPERTIES AcceptedIsCurrent 

CHECK_DEADLOCK FALSE
