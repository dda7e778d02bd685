SPECIFICATION FairSpec

CONSTANTS
    Kinds = {"cron", "iso", "once"}
    MaxStarts = 2
    First = 1
    Interval = 1
    Repetitions = 2
    WinStart = 0
    WinEnd = 2
    ChanCap = 1
    MaxTime = 3
    MaxCalls = 3

INVARIANTS TypeOK TicksInOrder EveryRunCounted RunningHasLoop LoopAgreesWithListing
PROPERTIES LastCallWins StopEndsLoops

CHECK_DEADLOCK FALSE
