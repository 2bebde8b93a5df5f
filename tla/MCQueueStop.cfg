\* One worker behind a rate limiter, two commands (one of them spawned), a Stop at any
\* point or one pass of the stuck-command loop; once the
\* context is cancelled every storage call fails.
CONSTANTS
    Cmd = {x, y}
    NoInst = NoInst
    Worker = {w1}
    Client = {k1}
    QueueSize = 1
    Retries = 1
    Delays = {0}
    Deadlines = {}
    Backoff = 1
    Period = 1
    MaxDelay = 1
    KidPlans <- OneChild
    Unregistered = {}
    DeadLetter = FALSE
    Limited = TRUE
    CtxAware = TRUE
    Outcomes = {"ok", "error", "callback panic"}
    ApiOps = {"cancel"}
    Faults = {"stop", "stuck"}
    MaxTime = 1
    LastAdd = 0
    MaxUncharged = 1
SPECIFICATION Spec
SYMMETRY Symmetry
INVARIANTS NothingLost RetryBudget
CHECK_DEADLOCK FALSE
