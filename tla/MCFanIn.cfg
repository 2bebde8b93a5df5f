\* Two parallel commands, ids for the coordinator's second run, one fault of any kind
\* and the recovery of what it has lost.
CONSTANTS
    Child = {x1, x2, x3, x4}
    Barrier = {b1, b2}
    Tasks = 2
    MaxChecks = 1
    BarrierRetries = 1
    DeadLetter = FALSE
    Faults <- AllFaults
    MaxFaults = 1
SPECIFICATION FairSpec
INVARIANTS TypeOK ContinuationAfterSuccess DuplicatesFromReruns
PROPERTIES BarrierResolves ContinuationSpawned
CHECK_DEADLOCK FALSE
