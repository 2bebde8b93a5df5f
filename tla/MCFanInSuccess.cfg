\* Two parallel commands, one of which may not be created, with dead-lettering on.
CONSTANTS
    Child = {x1, x2}
    Barrier = {b1}
    Tasks = 2
    MaxChecks = 1
    BarrierRetries = 1
    DeadLetter = TRUE
    Faults <- Creates
    MaxFaults = 1
SPECIFICATION Spec
INVARIANTS ContinuationEarned
CHECK_DEADLOCK FALSE
