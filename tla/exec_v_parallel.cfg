SPECIFICATION Spec
CONSTANTS
    a = a
    b = b
    Tasks = {a, b}
    Order <- InOrder
    Configs <- Parallel
    Inherit = Inherit
    MaxTries = 1
    MaxFaults = 0
INVARIANTS FailFastFailsTheJob
