\* Two commands and two workers on a channel of one place; a handler may succeed, repeat,
\* ask for a retry or fail; rows may be cancelled, replayed, purged and cleaned up; the
\* process may die once at any point.  A delay of two needs two timers of MaxDelay one.
CONSTANTS
    Cmd = {x, y}
    NoInst = NoInst
    Worker = {w1, w2}
    Client = {k1}
    QueueSize = 1
    Retries = 1
    Delays = {0, 2}
    Deadlines = {}
    Backoff = 1
    Period = 1
    MaxDelay = 1
    KidPlans <- NoChildren
    Unregistered = {}
    DeadLetter = TRUE
    Limited = FALSE
    CtxAware = FALSE
    Outcomes = {"ok", "repeat", "retry", "error"}
    ApiOps = {"cancel", "replay", "purge", "cleanup"}
    Faults = {"crash"}
    MaxTime = 2
    LastAdd = 0
    MaxUncharged = 1
SPECIFICATION Spec
SYMMETRY Symmetry
INVARIANTS TypeOK NothingLost FinishedNotCarried NoConcurrentRuns RetryBudget
PROPERTIES NeverEarly GoneStaysGone
CHECK_DEADLOCK FALSE
