SPECIFICATION FairSpec

CONSTANTS
    a = a
    b = b
    Tasks = {a, b}
    Order <- InOrder
    Configs <- Everything
    Inherit = Inherit
    MaxTries = 1
    MaxFaults = 1

INVARIANTS TypeOK RetryDiscipline CancelHasCause FailFastStops CompletedMeansSuccess ReportIsComplete AuditTrail
PROPERTY OccurrenceEnds
