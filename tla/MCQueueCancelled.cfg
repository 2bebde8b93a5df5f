\* One command, cancelled while its copy is in the queue, and a crash at any point.
CONSTANTS
    Cmd = {x}
    NoInst = NoInst
    Worker = {w1}
    Client = {k1}
    QueueSize = 1
    Retries = 1
    Delays = {0}
    Deadlines = {}
    Backoff = 1
    Period = 1
    MaxDelay = 1
    KidPlans <- NoChildren
    Unregistered = {}
    DeadLetter = FALSE
    Limited = FALSE
    CtxAware = TRUE
    Outcomes = {"ok", "error"}
    ApiOps = {"cancel"}
    Faults = {"crash"}
    MaxTime = 1
    LastAdd = 0
    MaxUncharged = 1
SPECIFICATION FairSpec
PROPERTIES CancelledEnds
CHECK_DEADLOCK FALSE
