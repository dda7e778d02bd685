SPECIFICATION Spec

CONSTANTS
    Tasks = {t1, t2, t3}
    Workers = {w1, w2}
    NoTask = NoTask
    MaxStarts = 1

INVARIANT StopCompletesAccepted

CHECK_DEADLOCK FALSE
