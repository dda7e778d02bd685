SPECIFICATION FairSpec

CONSTANTS
    Sched = Sched
    Tools = {}
    t1 = t1
    t2 = t2
    Tasks = {t1, t2}
    Initial = {t1}
    Foreign = {}
    Updates <- SomeUpdates
    Enabled = TRUE
    Horizon = 1
    MaxVersion = 3
    MaxTickers = 2
    MaxTime = 1
    MaxFaults = 0

PROPERTIES NewTickerIsHeard

CHECK_DEADLOCK FALSE
