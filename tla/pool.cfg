SPECIFICATION FairSpec

CONSTANTS
    Tasks = {t1, t2, t3, t4}
    Workers = {w1}
    NoTask = NoTask
    MaxStarts = 2

INVARIANTS TypeOK RunsAtMostOnce NothingVanishes StopQuiesces PanicNeedsRaceOrRestart
PROPERTIES CallsReturn ImplementsContract

CHECK_DEADLOCK FALSE
